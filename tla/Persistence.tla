----------------------------- MODULE Persistence -----------------------------
(***************************************************************************)
(* What survives: db.cbor on disk, the git repository beside it, the       *)
(* hourly flush of the server (src/backend/src/persist.rs), the load at    *)
(* start (SharedState::load_or_default) and the admin tool, which edits    *)
(* the same file from another process (tools/admin/src/main.rs).           *)
(*                                                                         *)
(* A database is the set of changes it contains.  fs::write first          *)
(* truncates the file and then fills it, so between the two, and for good  *)
(* if the writer dies there, the file is not a database: Torn.             *)
(*                                                                         *)
(* The server may die at any moment (there is no flush at shutdown either, *)
(* so a clean stop is the same thing), and the flush and the tool are made *)
(* of steps that interleave with everything else.                          *)
(***************************************************************************)
EXTENDS Integers, Sequences, FiniteSets

CONSTANTS
  Change,        \* changes made by requests to the server
  AdminChange,   \* changes made by the admin tool
  Absent, Torn,  \* db.cbor does not exist, is not a whole CBOR value
  MaxFailures,   \* bound: how many writes and commits fail
  MaxCommits     \* bound: how many flushes are begun

Database == SUBSET (Change \cup AdminChange)

ASSUME FileAssumption == Absent # Torn /\ \A d \in Database : d # Absent /\ d # Torn
ASSUME ChangeAssumption == Change \cap AdminChange = {}
ASSUME BoundAssumption == MaxFailures \in Nat /\ MaxCommits \in Nat

VARIABLES
  up,        \* the server process runs
  mem,       \* SharedState::db
  disk,      \* db.cbor
  git,       \* the commits of the data repository, oldest first
  flush,     \* where flush() stands
  snap,      \* the bytes flush() took under the read lock
  staged,    \* the blob index.add_path put into the index
  admin,     \* where the admin tool stands
  loaded,    \* the database the tool has loaded, changed
  made,      \* history: the changes made so far
  failures,  \* how many failures so far
  flushes,   \* how many flushes so far
  durable,   \* history: what completed flushes and tool runs have written
  mishap     \* history: a writer died half-way, or the tool and the server overlapped

vars == <<up, mem, disk, git, flush, snap, staged, admin, loaded, made,
          failures, flushes, durable, mishap>>
server == <<up, mem, flush, snap, staged>>
tool == <<admin, loaded>>
counters == <<failures, flushes>>

FlushStage == {"waiting", "snapshot", "truncated", "written", "staged"}
AdminStage == {"idle", "loaded", "truncated"}

Init ==
  /\ up = FALSE /\ mem = {} /\ disk = Absent /\ git = << >>
  /\ flush = "waiting" /\ snap = {} /\ staged = {}
  /\ admin = "idle" /\ loaded = {}
  /\ made = {} /\ failures = 0 /\ flushes = 0 /\ durable = {} /\ mishap = FALSE

-----------------------------------------------------------------------------
(* The server.                                                             *)

\* Seeded fault: the last commit is taken for the last flush.
Start_FromGit ==
  /\ ~ up
  /\ up' = TRUE
  /\ mem' = IF git = << >> \/ disk \in {Absent, Torn} THEN {} ELSE git[Len(git)]
  /\ mishap' = (mishap \/ admin # "idle")
  /\ UNCHANGED <<disk, git, flush, snap, staged, tool, made, counters, durable>>

\* load_or_default: no file, or "Corrupt DB, starting fresh", is an empty
\* database.
Start ==
  /\ ~ up
  /\ up' = TRUE
  /\ mem' = IF disk \in {Absent, Torn} THEN {} ELSE disk
  /\ mishap' = (mishap \/ admin # "idle")
  /\ UNCHANGED <<disk, git, flush, snap, staged, tool, made, counters, durable>>

\* Any request that changes the database.
Mutate(c) ==
  /\ up
  /\ c \in Change \ made
  /\ mem' = mem \cup {c}
  /\ made' = made \cup {c}
  /\ UNCHANGED <<up, disk, git, flush, snap, staged, tool, counters, durable, mishap>>

\* Seeded fault: the flush goes on where the last server left it.
Crash_KeepsFlush ==
  /\ up
  /\ up' = FALSE
  /\ mem' = {}
  /\ mishap' = (mishap \/ flush = "truncated")
  /\ UNCHANGED <<disk, git, flush, snap, staged, tool, made, counters, durable>>

\* Crash, kill or shutdown: what was not flushed is gone, and a file being
\* written stays truncated.
Crash ==
  /\ up
  /\ up' = FALSE
  /\ mem' = {}
  /\ flush' = "waiting"
  /\ snap' = {}
  /\ staged' = {}
  /\ mishap' = (mishap \/ flush = "truncated")
  /\ UNCHANGED <<disk, git, tool, made, counters, durable>>

\* The hourly tick: serialise the database under the read lock.
FlushSnapshot ==
  /\ up /\ flush = "waiting"
  /\ flushes < MaxCommits
  /\ flush' = "snapshot"
  /\ snap' = mem
  /\ flushes' = flushes + 1
  /\ UNCHANGED <<up, mem, disk, git, staged, tool, made, failures, durable, mishap>>

\* fs::write opens the file ...
FlushTruncate ==
  /\ up /\ flush = "snapshot"
  /\ flush' = "truncated"
  /\ disk' = Torn
  /\ UNCHANGED <<up, mem, git, snap, staged, tool, made, counters, durable, mishap>>

\* ... and fills it.
FlushWrite ==
  /\ up /\ flush = "truncated"
  /\ flush' = "written"
  /\ disk' = snap
  /\ durable' = durable \cup snap
  /\ UNCHANGED <<up, mem, git, snap, staged, tool, made, counters, mishap>>

\* Seeded fault: the file is staged while it is still being written.
GitAdd_Early ==
  /\ up /\ flush \in {"truncated", "written"}
  /\ flush' = "staged"
  /\ staged' = disk
  /\ UNCHANGED <<up, mem, disk, git, snap, tool, made, counters, durable, mishap>>

\* git_commit: open or initialise the repository; add_path reads the file.
GitAdd ==
  /\ up /\ flush = "written"
  /\ flush' = "staged"
  /\ staged' = disk
  /\ UNCHANGED <<up, mem, disk, git, snap, tool, made, counters, durable, mishap>>

\* Seeded fault: the commit takes the place of the last one.
GitCommit_Amends ==
  /\ up /\ flush = "staged"
  /\ flush' = "waiting"
  /\ git' = IF git = << >> THEN <<staged>> ELSE [git EXCEPT ![Len(git)] = staged]
  /\ UNCHANGED <<up, mem, disk, snap, staged, tool, made, counters, durable, mishap>>

\* The commit on HEAD, made whether or not anything changed.
GitCommit ==
  /\ up /\ flush = "staged"
  /\ flush' = "waiting"
  /\ git' = Append(git, staged)
  /\ UNCHANGED <<up, mem, disk, snap, staged, tool, made, counters, durable, mishap>>

\* Seeded fault: the error ends the loop, as `?` in place of `if let` would.
FlushFails_Stops ==
  /\ up /\ flush # "waiting"
  /\ failures < MaxFailures
  /\ failures' = failures + 1
  /\ flush' = "waiting"
  /\ flushes' = MaxCommits
  /\ mishap' = (mishap \/ flush = "truncated")
  /\ UNCHANGED <<up, mem, disk, git, snap, staged, tool, made, durable>>

\* An I/O error or a git error is logged; the loop waits for the next tick.
FlushFails ==
  /\ up /\ flush # "waiting"
  /\ failures < MaxFailures
  /\ failures' = failures + 1
  /\ flush' = "waiting"
  /\ mishap' = (mishap \/ flush = "truncated")
  /\ UNCHANGED <<up, mem, disk, git, snap, staged, tool, made, flushes, durable>>

-----------------------------------------------------------------------------
(* The admin tool: one command, from load_db to save_db.                   *)

\* A file that is not a database makes the tool fail.
AdminLoad(a) ==
  /\ admin = "idle"
  /\ a \in AdminChange \ made
  /\ disk # Torn
  /\ admin' = "loaded"
  /\ loaded' = (IF disk = Absent THEN {} ELSE disk) \cup {a}
  /\ made' = made \cup {a}
  /\ mishap' = (mishap \/ up)
  /\ UNCHANGED <<server, disk, git, counters, durable>>

AdminTruncate ==
  /\ admin = "loaded"
  /\ admin' = "truncated"
  /\ disk' = Torn
  /\ UNCHANGED <<server, git, loaded, made, counters, durable, mishap>>

AdminWrite ==
  /\ admin = "truncated"
  /\ admin' = "idle"
  /\ disk' = loaded
  /\ durable' = durable \cup loaded
  /\ UNCHANGED <<server, git, loaded, made, counters, mishap>>

\* The tool is interrupted, or its write fails.
AdminFails ==
  /\ admin # "idle"
  /\ failures < MaxFailures
  /\ failures' = failures + 1
  /\ admin' = "idle"
  /\ mishap' = (mishap \/ admin = "truncated")
  /\ UNCHANGED <<server, disk, git, loaded, made, flushes, durable>>

Next ==
  \/ Start \/ (\E c \in Change : Mutate(c)) \/ Crash
  \/ FlushSnapshot \/ FlushTruncate \/ FlushWrite \/ GitAdd \/ GitCommit \/ FlushFails
  \/ (\E a \in AdminChange : AdminLoad(a)) \/ AdminTruncate \/ AdminWrite \/ AdminFails

Spec == Init /\ [][Next]_vars

\* The timer ticks every hour and the flush task runs on.  That the server
\* starts, that it stays up, and that the admin does anything is nobody's
\* obligation.
FairSpec ==
  Spec /\ WF_vars(FlushSnapshot) /\ WF_vars(FlushTruncate) /\ WF_vars(FlushWrite)
       /\ WF_vars(GitAdd) /\ WF_vars(GitCommit)

-----------------------------------------------------------------------------
(* Properties.                                                             *)

\* The variables have the types above; a file is staged whole or torn.
TypeOK ==
  /\ up \in BOOLEAN /\ mem \in Database
  /\ disk \in {Absent, Torn} \/ disk \in Database
  /\ \A i \in 1..Len(git) : git[i] \in {Absent, Torn} \/ git[i] \in Database
  /\ flush \in FlushStage /\ snap \in Database
  /\ staged \in {Absent, Torn} \/ staged \in Database
  /\ admin \in AdminStage /\ loaded \in Database
  /\ ~ up => flush = "waiting"
  /\ made \subseteq Change \cup AdminChange
  /\ durable \subseteq made
  /\ failures \in 0..MaxFailures /\ flushes \in 0..MaxCommits

\* What the server would find if it were started once the tool is done.
Recoverable ==
  IF disk \notin {Absent, Torn} THEN disk
  ELSE IF admin = "truncated" THEN loaded ELSE {}

\* What a flush or the tool has written is not lost by crashing and starting
\* again, as often as one likes, as long as no writer died in the middle of
\* fs::write and the tool was never used while the server ran.
FlushedSurvives ==
  ~ mishap => durable \subseteq IF up THEN mem ELSE Recoverable

\* Under the same condition the git history is a history: every commit is a
\* whole database, was in the file when it was made, and contains all of the
\* commit before it.
HistoryGrows ==
  ~ mishap =>
    \A i \in 1..Len(git) :
      /\ git[i] \notin {Absent, Torn}
      /\ git[i] \subseteq durable
      /\ i > 1 => git[i - 1] \subseteq git[i]

\* The flush loop never gets stuck: a change in memory gets into the file
\* unless the server dies first or the flushes of the model are used up, and
\* errors in between only delay it.
ChangeReachesDisk ==
  \A c \in Change :
    (up /\ c \in mem /\ flushes < MaxCommits - MaxFailures)
      ~> (~ up \/ c \in durable)

\* What a server started now would know; a write that has begun counts as done.
Stored ==
  IF flush = "truncated" THEN snap
  ELSE IF admin = "truncated" THEN loaded
  ELSE IF disk \in {Absent, Torn} THEN {} ELSE disk

Promise == INSTANCE Vault WITH
  Item <- Change \cup AdminChange, running <- up, memory <- mem, stored <- Stored,
  log <- git, sound <- ~ mishap

\* The file, its truncation, the snapshot the flush works from, the git index
\* and the tool's copy amount to what Vault promises: a start finds all that was
\* stored and nothing else, a flush adds to the store and only what the server
\* knew, a failure in between changes nothing, and a commit is the store of that
\* moment.
VaultSpec == Promise!Spec

(***************************************************************************)
(* What the documentation says and the code does not do.                   *)
(***************************************************************************)

\* chorgly-admin prints "All keys revoked for ...", "New init token: ..." once
\* save_db has returned: from then on, whenever nobody is writing the file, the
\* change is in it.
AdminChangeKept ==
  (disk \notin {Absent, Torn} /\ admin = "idle") => AdminChange \cap durable \subseteq disk
=============================================================================
