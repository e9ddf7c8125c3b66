# Verification of chorgly

chorgly is a chore organiser for several people: a Rust server with an
in-memory database and a WebSocket per browser tab, a WebAssembly client that
keeps a replica of the database, an hourly flush to a file and a git
repository, and a terminal tool for the administrator. This directory holds
TLA+ models of it, TLC configurations that check them on small instances, and
proofs of the theorems that hold for every size.

Paths below are relative to the repository.

## 1. Inventory

| Part | State | Operations | Talks to |
|---|---|---|---|
| chore store (`src/core/src/chore.rs`, `event.rs`, `src/backend/src/state.rs`) | `Database::chores`, `Database::events` behind one `RwLock` | add, complete, delete a chore; add, trigger, delete an event; list | called by sessions; broadcasts what it did |
| session (`src/backend/src/session.rs`) | `AuthState`, broadcast receiver, rate-limit window | forward a broadcast; take a request, dispatch it, answer | browser over WebSocket; the store |
| broadcast channel (`state.rs`, tokio) | ring of 256 messages, a position per receiver | send, recv, overrun | sessions |
| client replica (`src/frontend/src/state.rs`) | chores, events, current user | `apply` a server message; pending lists; blocked badge | session, page |
| key registry (`src/core/src/user.rs`, `db.rs`, `state.rs`) | init token and public keys of each user | check/consume token, register, look up, re-key, retire | sessions, in several separate lock sections |
| persistence (`src/backend/src/persist.rs`, `load_or_default`) | `db.cbor`, git history | hourly snapshot, write, commit; load at start | the store; the file |
| admin tool (`tools/admin/src/main.rs`) | none of its own | load `db.cbor`, add user / reset token / revoke keys / delete user, save | the file, from another process |
| web client (`docs/app.js`) | keys in localStorage, socket | register, connect, sign, re-key, reconnect, render | session, replica |

What makes the system hard: sessions interleave between the commit, the
broadcast and the answer of a request; a slow session loses broadcasts; a
snapshot is read in two pieces and overtakes the queue; registration and
re-keying are chains of lock sections; connections break anywhere; the file is
written in place and the tool writes it too; recurrence depends on the clock.

What makes each part correct:

* chore store: no chores that wait for each other in a ring, completions only
  after what they depend on, an orderly history, a timer that a completion
  resets for everyone, one-off chores that leave for good;
* sessions and replicas: only ChoreStore's operations change the tables, every
  change is published, a replica that is quiet agrees with the tables, every
  request is answered, every session catches up;
* key registry: a re-key never shortens a user's access, a token is not wasted;
* persistence: what was flushed is not lost, the git history is a history,
  changes reach the file, and all of it together is one store that only grows;
* web client: the key a browser holds is one the server knows or can still be
  told, and a connection that comes up gets its lists;
* rate limit: no second sees more than twice the limit, and only a burst ends a
  session.

`PROJECT.json` lists each hazard with its line and the properties that cover it.

## 2. Modules

```
ChoreStore <-- MCChoreStore, ChoreStoreProofs    KeyRegistry <-- MCKeyRegistry, KeyRegistryProofs
   ^                                                 ^
   | INSTANCE (acts on)                              | INSTANCE (composed with)
ChoreSync <-- MCChoreSync, ChoreSyncProofs       WebClient <-- MCWebClient, WebClientProofs

Vault                                            RateLimit <-- MCRateLimit, RateLimitProofs
   ^
   | INSTANCE (refined by)
Persistence <-- MCPersistence, PersistenceProofs
```

**ChoreStore** is the abstract specification of the server's data: one action
per operation under the write lock. `chores` and `events` are the two hash
maps, `clock` is `Utc::now()`; `born` and `issuedEvents` are history (which ids
were drawn, in which order). `depends_on` may name any id drawn before, live or
deleted: the server draws the id of a new chore itself, after the client chose
the dependencies. `Sound` is what the operations keep of the tables, and so what
is in a database that was saved and is loaded again. `None` in a permission list is the set of all users. The
conditions are exactly the code's: `CompleteChore` looks at permission and
dependencies and at nothing else. The operators `NextDue`, `IsBlocked`,
`VisibleTo`, `CompletableBy` are the methods of `Chore`. The delay of a
recurring chore is a u64: `AsI64` is the cast, `TimerPanics` says when
`Duration::seconds` or the addition panics, and `PendingListPanics` who is hit:
every tab that holds the chore, since `pending_chores_json` calls `next_due` on
all it holds, or, when it knows its `current_user`, on those that user may see. The widths (`HalfI64`, `MaxDelta`, `MaxInstant`) are
parameters; only their order matters.

**ChoreSync** is the detailed specification. A session is idle, or at the
`publish`, `list` or `reply` step of a request; the commit is ChoreStore's
action, everything else leaves the tables alone. `bus` is every message ever
broadcast, `cursor` a receiver's position in it; `Lag` is tokio's `Lagged`. A
connection may break when the task is at the socket. `view` is the tab's
`AppState`; `Apply` is `AppState::apply`. Sending and applying a message are
one step: the socket keeps order, so a connection that breaks with messages
under way looks to the client like one that broke earlier. The server starts
from what `load_or_default` finds (`Load`, one of the set `Database`), and
`loaded` remembers it, as nothing of it was ever broadcast. `crossed` is history: the
entries whose last change was committed while an earlier broadcast about the
same entry was still outstanding.

**KeyRegistry** has one action per lock section of a request: check the token /
register / send AuthOk / consume the token, and look the key up / any retiring?
/ retire / re-key. `work` is where a session stands in such a chain. `announced`
is whose AuthOk a socket took; whether it arrived is not known to the server
and to no variable. Time moves and keys expire. The initial states are what the admin tool leaves.

**Persistence** has the steps of a flush (snapshot, truncate, fill, `git add`,
`git commit`), each of which may fail or be the last before a crash, the load
at start, and the admin tool's load, truncate and fill. A database is the set
of changes it contains; a file that is being written is `Torn`.

**Vault** is what an operator may rely on: a memory, a store that grows by
saves of what was in memory and by edits while the server is down, and a log of
what was stored. `Persistence!Stored` maps the file, the write in progress and
the tool's copy to the store; everything else of a flush is a stutter. The
promise is void once `mishap` is true (a writer died inside `fs::write`, or the
tool and the server overlapped); `VaultSpec` says it holds until then.

**WebClient** composes KeyRegistry with the browsers in front of it. `store` is
localStorage, shared by the tabs of a browser; `task` holds the sends that wait
for `crypto.subtle`: `ReadKeyId` and `FinishSigned` are the turns of
`sendSigned` after its first and last await, `FinishReKey` the last turn of
`initiateReKey`, which sends and then stores. `sock` and `back` are the two
directions of a WebSocket; `Cut` decides which requests still arrive when it
breaks. Every server step is KeyRegistry's action for that lock section
together with the queues it reads and fills. `Save` and `Restart` are the flush
and the start of Persistence, reduced to tokens and keys. A new key and a free
connection are taken with CHOOSE: which unused one it is makes no difference.
Two history variables say what may have gone wrong in a browser: `mishap`, that
its stored key may be of no use, and `mixup`, that a message of it may be refused
although its key is good, which makes it forget the key.

**RateLimit** is the counter of `handle`: a history of the instants at which
messages passed, the window, the count.

An operator named `X_Something` before `X` is `X` with a plausible bug. TLC is
run with it in place of `X` to see that the property it belongs to (see
"mutants" in PROJECT.json) notices.

## 3. Runs

Run any of them with `tlc -config <cfg> <module>`.

| Run | Config | Shows |
|---|---|---|
| store | `MCChoreStore` | 2 chores of every kind whose due date varies, with delays at the edges, 1 event, 2 users, a moving clock, two completions each: rings, order of completions, re-blocking, dangling ids, history, timers, panics |
| replica | `MCChoreSync_replica` | 2 users, one tab each, 2 chores that are shared or private, 3 mutations of a database where one was deleted or where one waits for the other, a channel of one message: mirrors, silent and disordered changes, badges (a million states, some two minutes) |
| live | `MCChoreSync_live` | 2 tabs, 1 event that is in the database or not, the clock, 2 mutations, a channel of one message: the same for events, and liveness under fairness |
| keys | `MCKeyRegistry` | 1 user, 3 key pairs, 2 tabs, keys that expire after one tick |
| persist | `MCPersistence` | 2 requests, 1 admin command, 3 flushes, 1 failure, any number of crashes; the refinement of Vault |
| client | `MCWebClient` | 1 tab, 2 connections, 3 keys, one link, one click, one broken connection or server restart from any earlier flush: keys, tokens, lists; liveness under fairness |
| tabs | `MCWebClient_tabs` | 2 tabs of one browser, 3 keys, the link opened twice, one click, nothing breaks |
| rate | `MCRateLimit` | a limit of 2 in 3 ticks, 10 ticks |
| order, token, admin, lockout | `MCChoreSync_order`, `MCKeyRegistry_token`, `MCPersistence_admin`, `MCWebClient_lockout` | four statements of the repository that the code does not keep (section 6) |

Why the bounds are enough. *store*: the shortest ring that a wrong step could
close has one or two members, and a dependency and its dependent are all that
blocking is about; two completions distinguish first from last, one tick
separates before and after a deadline or a delay of one, and the delays include
one that turns negative and one that leads past the last date. A scheduled chore
is always due, as in the code, and adds nothing. *replica*: three mutations are
a creation, a change and a deletion, and the loaded databases hold what three
mutations from an empty one could not lead up to; capacity 1 makes an overrun
possible after two, which the 256 of the code would need 257 for and nothing
else. *keys*: three keys are an old one, its successor and one from a second
registration; users share nothing in the registry. *persist*: three flushes
leave a history of commits around a failure. *client* and *tabs*: one key is
old, one comes with the link, one with a re-key, the other tab's or a second
link's; a second connection lets the server still work on the first when the
browser is back; a restart and a broken connection together only lose more. The
key pairs are a bound as well: a key is generated only while one is left that
nobody has or refers to (`HasFreshKey`); with a fourth key the properties of
*tabs* hold as well, in twice the states. Keys do not expire within the run:
expiry is checked in *keys*. *rate*: three windows and the boundaries between
them. The counters `MaxTime`, `MaxCompletions`, `MaxOps`, `MaxFailures`,
`MaxCommits`, `MaxLinks`, `MaxClicks`, `MaxBreaks` are bounds of the models and
appear in guards only.

`ReplicaMirrorsStore` says "unless": it speaks of sessions that were not
overrun and of entries whose broadcasts went out in commit order. Both
exceptions are real behaviours of the code; *order* shows the second without
the exception, and `DisorderNeedsOverlap` says what it takes: two sessions
changing the same entry, the second before the first has published. The two
properties of a browser's access are of the same kind. `KeyLostOnlyByMishap`
names the events (`mishap`) after which a browser may be left with a useless key;
*lockout* shows one of them. `AccessLostOnlyByMixup` counts a forgotten key as
lost, too: AuthFail makes the browser forget whichever key is stored, so beside
the mishaps it names the interleavings (`mixup`) in which a message is refused
although the stored key is good. Each part of that list is needed: without it TLC
finds a browser locked out, in these instances or (an expired key, a second
browser, a refusal on its way while the link is opened in another tab) in larger
ones; a click during a re-key, for one, is signed with
the old key and sent under the id of the new one. *client* and *tabs* may
stop for good, in a browser without a key whose link was used, say, so deadlock
is not checked; nor is it in *rate*, where a session ends.

## 4. Fairness

`ChoreSync!Fairness`: the runtime keeps running a task that can run (weak
fairness of Publish, ListEvents, Reply). Receiving a broadcast competes with
the client's requests in `tokio::select!`, which polls its branches in random
order, so a receiver that is ready over and over is served in the end: strong
fairness of Receive. With weak fairness only, TLC finds a client that keeps its
session busy for ever and never gets the broadcasts, so the strong form is needed.
Clients are under no obligation to ask or to stay, but a message on its way to
a client is taken to be sent or to fail: a peer that keeps its connection open
and never reads it can hold its own session up (and nobody else's).

`Persistence!FairSpec`: the hourly timer ticks and the flush task runs on while
the server is up. Nothing makes the server start or stay up, nothing makes a
write succeed; failures are bounded in number.

`WebClient!Fairness`: promises settle (TaskStep), sockets deliver what arrived
(Receive), the server's tasks run (Serve), each weakly fair for each tab, kind
of send and session. Opening pages, connecting, breaking and restarting are
free.

## 5. Proofs

Checked by TLAPS for every value of the constants that satisfies the named
assumptions of the modules (ids and users are arbitrary sets, ids finite pools).

*ChoreStoreProofs.* `TypeCorrect`: the type invariant, inductive as it stands.
`NoRing`: NoCircularWait is not inductive by itself; the proof carries
`BirthOrder`, which says that every dependency of a chore was issued before the
chore, and then takes the eldest chore of any supposed ring. `DanglingIsForever`
needs `NamesIssued` (what a chore names was issued, so a new entry never
brings a dead name back to life). `LastIsLatest` (histories are in order and not
in the future) is inductive; `DependenciesFirst` needs it and `NamesIssued`
again: a completion now is later than any in a history, and what was deleted
cannot come back to contradict it. `TimerRestarts` and `ListBreaksByCompletion`
use it to bound the sum of the last completion and the delay.
`ReblockedByDeletionOnly`, `GoneForGood` and `AgainIsHarmless` follow from the
type invariant, action by action. `AlwaysSound` puts the invariants together:
whatever the operations reach from empty tables is `Sound`, and `SoundForever`
says that they keep it from any tables, which is what a restart needs.

*ChoreSyncProofs.* The tables change by ChoreStore's operations only and are
sound when they are loaded, so `ServingKeepsOrder` and
`ServingReblocksByDeletion` hold of the running server (`Theory` is ChoreStore
seen with its theorems, and a few lemmas show that it is the same
specification). The others rest on `Shape` (what a session is about to deliver fits its phase) and
on three facts about any step (`Environment`): messages are only added to the
channel, an outstanding broadcast leaves only for the channel, and a row changes
only together with a broadcast of what it became. `NoSilentChange` follows: an entry
is either untouched since it was loaded, or the channel has its last value.
`QuietReplicasMirror` needs an invariant for the states that are not quiet,
`Good`: whatever a replica, or a snapshot on its way to one, says of an entry is
what the table says, or what the last broadcast about the entry said, or a
broadcast about it is still to come. The answer that overtakes its own
broadcast, the two reads of ListAll and the replies between them are the cases
of that proof. `OverlapCausesDisorder` carries `Settled`: of an entry that is
not in `crossed`, either no broadcast is outstanding and the last one is true,
or exactly one is and it tells what the table says. `OneAtATimeMirrors` puts
the two together. `BadgeIsCautious` follows from the mirrors of a chore and of
what it waits for. `TypeCorrect` needs `Typed`, which follows the entries into
the channel, the answers under way and the replicas.

*KeyRegistryProofs.* `TypeCorrect` carries `ReKeyHasKey` (only a ReKey payload
reaches the stage that registers its key). `AccessNotShortened`: the strengthening
`AccessInv` bounds every expiry by the present plus the validity period, so the
key added by a re-key outlives the one it retires, and no step removes an
active key. `TokenNotWasted`: `TokenInv` follows a registration through its
chain: a session that is about to announce or to consume has registered a key
for its user, and one that is about to consume has announced it.

*PersistenceProofs.* One invariant carries everything: while the promise
stands the tool and the server exclude each other, the file is torn only while
somebody writes it (`Writers`), every copy of the database holds what is stored
or more (`Copies`), and the commits are ordered (`Commits`). One lemma per
action shows that it is kept and that the step is a step of Vault or a stutter.
`TypeCorrect`, `FlushedAlwaysSurvives`, `HistoryAlwaysGrows` and
`ImplementsVault` follow.

*RateLimitProofs.* The properties compare messages a limit or two apart; the
invariant `Windows` says where the present window and the one before it lie in
the history. `TypeCorrect`, `NeverMoreThanTwice` and `CutOnlyForABurst` follow,
for every limit and every length of a second.

*WebClientProofs.* The invariant comes in layers, each proved from the ones
before it.

* `TypeInv`: types, and how pages, connections and queues go together.
  `TypeCorrect` follows.
* `KeyInv`: a key is in one browser only; a key that a ReKey under way replaces,
  or that is retiring in memory or in db.cbor, is in none any more. This is what
  `KeyInUseIsKept` needs: `retire_old_keys` removes retiring keys only
  (`OnlyRetiringForgotten`). That the keys of db.cbor are included makes it
  survive a restart.
* `OwnInv`: what has to do with a user's keys is done in the user's sessions,
  and a token that is unused is unused in db.cbor, too.
* `SideInv`: a ReKey and a registration never share a connection, and only the
  tabs of a browser introduce its key.
* `BrowserInv`: of a browser without a mishap. It has one re-key under way at
  most, being signed or on its way, with a key that the server knows until
  then (`ReKeySafe`); and if its key needs the link, the token is unused and
  nothing on its way can burn it but the registration of that very key, while a
  key that came with the link is in db.cbor or its token is unused there
  (`LinkSafe`). The list of mishaps in `KeyLostOnlyByMishap` is what this
  invariant needs: it was made precise with the proof. `KeyStaysUsable` follows.
* `AccessInv`: KeyRegistry's invariants of the memory and of db.cbor both, since
  either may be the memory after the next crash. `AccessSurvives` follows: what
  KeyRegistryProofs shows of one run of the server holds across runs.

A fresh key and a free connection are CHOOSEn; the proofs use only that the
choice is one of the unused ones (`FreshKeyFacts`, `NewPlaceFacts`).

Only model-checked: liveness, which the prover cannot do (`RequestsAnswered`,
`UpdatesDelivered`, `ChangeReachesDisk`, `ListsArrive`), and
`AccessLostOnlyByMixup`. Every other property of a passing run is a theorem.

## 6. Where the code departs from what it says

1. *order*: broadcasts are sent after the lock is released and may go out in the
   wrong order; a replica then keeps an older value.
2. *token*: an init token can register two keys.
3. *admin*: what the admin tool writes beside a running server is overwritten.
4. *lockout*: a re-key stores the new key whether or not the ReKey goes anywhere
   (`app.js:281`); a connection that breaks at that moment locks the browser out.

Seen while modelling, without a run of their own:

* `complete_chore` accepts a second completion of a chore "done once"
  (`SecondCompletionHarmless` says what that does not change).
* The blocked badge is computed from what the tab holds: the chores the user may
  see, and hidden ones that came by broadcast, which go to every session
  (`session.rs:58`). `BadgeErrsOnlyOnHidden` says that a hidden dependency is its
  only error in a quiet tab.
* `session.rs:105` says that AuthOk is sent before the token is consumed "so a
  dropped connection before delivery doesn't burn the token". That is so for a
  connection found broken by then; `sink.send` returns when the socket has taken
  the message, so an AuthOk that is lost behind it burns the token all the same
  (`TokenBurntOnlyForAKey` promises no more than the key). The browser has stored
  its key by then and gets in with it.
* A refused message makes the browser forget its key although the key is good
  (`app.js:299`), if the message was signed under another one; see
  `AccessLostOnlyByMixup`. If the link was used, the user is locked out.
* The hourly commit is made whether or not anything changed; chorgly.md:14 says
  "commit if changes happened".
* An overdue chore that was never completed has no due date and disappears from
  every list.
* A chore with a huge delay makes `next_due` panic in every client once it is
  completed; the server stores it unchecked.
* `session.rs:24` says "max 30 messages per second"; sixty can pass within a
  moment on either side of a window's end. And messages are timed when they are
  read: a session that was held up reads a backlog at once.
* Opening a used link overwrites a working key (`app.js:124`).
* `current_user` is set only by the AuthOk of a re-key, so a personal chore
  added after a registration or a reconnection is sent with an empty user id
  (`app.js:486`), and `pending_chores_json` does not filter.
* The server has no operation to change a chore's three permission fields,
  though chorgly.md:52 says the creator can; `app.js:349` reads a field
  `next_due` that the serialised chore does not have.

## 7. Not modelled

Cryptography, serialisation and the HTTP server are libraries or wiring. The
drawing code has no state. Titles, descriptions, assignees and creation times
decide nothing. Of the browser, WebClient has what concerns keys and
connections; dialogs, forms and drawing are not there, and a tab has one send
of each kind under way at most. Clocks do not step back, and the wait
for the lock between reading the clock and using it (`register_pubkey`,
`apply_rekey`) is shorter than a tick of the model's clock. A restart of the
server is in Persistence and WebClient: ChoreSync is one run of the server, from any
database it may find at its start. There a session that has authenticated stays
authenticated; a client that starts another registration over the same
connection, which the web client never does, would lose that. Crashes are crashes of the process; what a power
failure does to a file that was written and not synced is not modelled.

## 8. Plan

Left to do, in this order.

1. WebClient with ChoreSync: what a replica holds across the reconnections that
   WebClient makes, with current_user and the permission fields of the form.
2. A socket with a backlog in front of RateLimit, to state what a patient client
   can count on when the server is slow.
