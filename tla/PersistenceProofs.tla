-------------------------- MODULE PersistenceProofs --------------------------
(***************************************************************************)
(* Persistence implements Vault, for any changes and any bounds on         *)
(* failures and flushes; what was flushed survives and the history grows.  *)
(*                                                                         *)
(* The argument is one invariant.  As long as the promise stands, the tool *)
(* and the server exclude each other, the file is torn only while somebody *)
(* is writing it, and every copy of the database (the memory, the snapshot *)
(* of a flush, the tool's, the git index) is what the file holds or more.  *)
(***************************************************************************)
EXTENDS Persistence, TLAPS

Whole(d) == d \notin {Absent, Torn}

\* The types, and that nothing contains a change nobody made.
Types ==
  /\ TypeOK
  /\ git \in Seq(Database \cup {Absent, Torn})
  /\ mem \subseteq made /\ snap \subseteq made /\ loaded \subseteq made
  /\ Whole(disk) => disk \subseteq made

\* Who may be writing.
Writers ==
  /\ admin # "idle" => ~ up
  /\ disk = Torn <=> flush = "truncated" \/ admin = "truncated"

\* What the copies hold.
Copies ==
  /\ up => Stored \subseteq mem
  /\ flush = "snapshot" => Stored \subseteq snap /\ snap \subseteq mem
  /\ flush \in {"written", "staged"} => Whole(disk) /\ disk \subseteq durable
  /\ flush = "staged" => staged = disk
  /\ admin = "loaded" => \E a \in AdminChange : loaded = Stored \cup {a}
  /\ durable \subseteq Stored

\* What the commits hold.
Commits ==
  \A i \in 1..Len(git) :
    /\ Whole(git[i]) /\ git[i] \subseteq durable
    /\ i > 1 => git[i - 1] \subseteq git[i]

IInv == Types /\ (~ mishap => Writers /\ Copies /\ Commits)

LEMMA Initially == Init => IInv
<1> SUFFICES ASSUME Init PROVE IInv
  OBVIOUS
<1>1. Types
  <2>1. {} \in Database /\ git = << >> /\ Len(git) = 0
    BY DEF Init, Database
  <2>2. git \in Seq(Database \cup {Absent, Torn})
    BY <2>1
  <2>3. TypeOK
    <3>1. \A i \in 1..Len(git) : git[i] \in {Absent, Torn} \/ git[i] \in Database
      BY <2>1
    <3>2. failures \in 0..MaxFailures /\ flushes \in 0..MaxCommits
      BY BoundAssumption DEF Init
    <3>3. QED
      BY <2>1, <3>1, <3>2 DEF Init, TypeOK, FlushStage, AdminStage
  <2>4. QED
    BY <2>2, <2>3 DEF Init, Types, Whole
<1>2. Writers /\ Copies /\ Commits
  BY FileAssumption DEF Init, Writers, Copies, Commits, Stored
<1>3. QED
  BY <1>1, <1>2 DEF IInv

-----------------------------------------------------------------------------
(* Every action keeps the types.                                           *)

LEMMA WholeSets == ASSUME NEW d \in Database PROVE Whole(d)
BY FileAssumption DEF Whole

LEMMA TypesStep == Types /\ [Next]_vars => Types'
<1> SUFFICES ASSUME Types, [Next]_vars PROVE Types'
  OBVIOUS
<1> USE FileAssumption, BoundAssumption
    DEF Types, TypeOK, FlushStage, AdminStage, Whole, Database
<1>1. CASE Start
  BY <1>1 DEF Start, tool, counters
<1>2. ASSUME NEW c \in Change, Mutate(c) PROVE Types'
  BY <1>2 DEF Mutate, tool, counters
<1>3. CASE Crash
  BY <1>3 DEF Crash, tool, counters
<1>4. CASE FlushSnapshot
  BY <1>4 DEF FlushSnapshot, tool
<1>5. CASE FlushTruncate
  BY <1>5 DEF FlushTruncate, tool, counters
<1>6. CASE FlushWrite
  BY <1>6 DEF FlushWrite, tool, counters
<1>7. CASE GitAdd
  BY <1>7 DEF GitAdd, tool, counters
<1>8. CASE GitCommit
  <2>1. /\ git' = Append(git, staged) /\ staged \in Database \cup {Absent, Torn}
        /\ git \in Seq(Database \cup {Absent, Torn})
    BY <1>8 DEF GitCommit
  <2>2. git' \in Seq(Database \cup {Absent, Torn})
    BY <2>1
  <2>3. \A i \in 1..Len(git') : git'[i] \in Database \cup {Absent, Torn}
    BY <2>2
  <2>4. QED
    BY <1>8, <2>2, <2>3 DEF GitCommit, tool, counters
<1>9. CASE FlushFails
  BY <1>9 DEF FlushFails, tool
<1>10. ASSUME NEW a \in AdminChange, AdminLoad(a) PROVE Types'
  BY <1>10 DEF AdminLoad, server, counters
<1>11. CASE AdminTruncate
  BY <1>11 DEF AdminTruncate, server, counters
<1>12. CASE AdminWrite
  BY <1>12 DEF AdminWrite, server, counters
<1>13. CASE AdminFails
  BY <1>13 DEF AdminFails, server
<1>14. CASE UNCHANGED vars
  BY <1>14 DEF vars, server, tool, counters
<1>15. QED
  BY <1>1, <1>2, <1>3, <1>4, <1>5, <1>6, <1>7, <1>8, <1>9, <1>10, <1>11, <1>12, <1>13,
     <1>14 DEF Next

-----------------------------------------------------------------------------
(* While the promise stands, every action keeps the rest of the invariant  *)
(* and is a step of Vault.                                                 *)

\* What is to be shown of a step, and what is known before it.
Kept == Writers' /\ Copies' /\ Commits'
Promised == [Promise!Next]_(Promise!vars)
Before == Types /\ Writers /\ Copies /\ Commits /\ ~ mishap /\ ~ mishap'

\* A step that leaves Vault's variables alone, or takes the one of its actions.
LEMMA Stutter ==
  UNCHANGED <<up, mem, git>> /\ ~ mishap /\ ~ mishap' /\ Stored' = Stored => Promised
BY DEF Promised, Promise!vars

LEMMA StartStep == Before /\ Start => Kept /\ Promised
<1> SUFFICES ASSUME Before, Start PROVE Kept /\ Promised
  OBVIOUS
<1>1. /\ admin = "idle" /\ ~ up /\ flush = "waiting" /\ up' /\ admin' = "idle"
      /\ disk' = disk /\ flush' = flush /\ git' = git /\ durable' = durable
      /\ UNCHANGED <<staged, snap, loaded>> /\ ~ mishap /\ ~ mishap'
  BY DEF Before, Types, TypeOK, AdminStage, Start, tool
<1>2. Stored' = Stored /\ mem' = Stored
  BY <1>1 DEF Start, Stored
<1>3. Kept
  BY <1>1, <1>2 DEF Kept, Before, Writers, Copies, Commits, Whole
<1>4. Promised
  BY <1>1, <1>2 DEF Promised, Promise!Next, Promise!Start, Start, Before, Types, TypeOK
<1>5. QED
  BY <1>3, <1>4

LEMMA MutateStep == ASSUME NEW c \in Change, Before, Mutate(c) PROVE Kept /\ Promised
<1>1. /\ up /\ up' = up /\ mem' = mem \cup {c} /\ ~ mishap /\ ~ mishap'
      /\ UNCHANGED <<disk, git, flush, snap, staged, admin, loaded, durable>>
  BY DEF Before, Mutate, tool
<1>2. Stored' = Stored
  BY <1>1 DEF Stored
<1>3. Kept
  BY <1>1, <1>2 DEF Kept, Before, Writers, Copies, Commits, Whole
<1>4. Promised
  BY <1>1, <1>2 DEF Promised, Promise!Next, Promise!Learn
<1>5. QED
  BY <1>3, <1>4

LEMMA CrashStep == Before /\ Crash => Kept /\ Promised
<1> SUFFICES ASSUME Before, Crash PROVE Kept /\ Promised
  OBVIOUS
<1>1. /\ up /\ up' = FALSE /\ mem' = {} /\ ~ mishap /\ ~ mishap'
      /\ admin = "idle" /\ flush # "truncated" /\ flush' = "waiting"
      /\ UNCHANGED <<disk, git, admin, loaded, durable>>
  BY DEF Before, Writers, Crash, tool
<1>2. Stored' = Stored
  BY <1>1 DEF Stored
<1>3. Kept
  BY <1>1, <1>2 DEF Kept, Before, Writers, Copies, Commits, Whole
<1>4. Promised
  BY <1>1, <1>2 DEF Promised, Promise!Next, Promise!Stop
<1>5. QED
  BY <1>3, <1>4

LEMMA FlushSnapshotStep == Before /\ FlushSnapshot => Kept /\ Promised
<1> SUFFICES ASSUME Before, FlushSnapshot PROVE Kept /\ Promised
  OBVIOUS
<1>1. /\ up /\ ~ mishap /\ ~ mishap' /\ flush = "waiting" /\ flush' = "snapshot"
      /\ snap' = mem /\ admin = "idle"
      /\ UNCHANGED <<up, mem, disk, git, staged, admin, loaded, durable>>
  BY DEF Before, Writers, FlushSnapshot, tool
<1>2. Stored' = Stored
  BY <1>1 DEF Stored
<1>3. Kept
  BY <1>1, <1>2 DEF Kept, Before, Writers, Copies, Commits, Whole
<1>4. QED
  BY <1>1, <1>2, <1>3, Stutter

\* The one step that changes what is stored while the server runs.
LEMMA FlushTruncateStep == Before /\ FlushTruncate => Kept /\ Promised
<1> SUFFICES ASSUME Before, FlushTruncate PROVE Kept /\ Promised
  OBVIOUS
<1>1. /\ up /\ ~ mishap /\ ~ mishap' /\ flush = "snapshot" /\ flush' = "truncated"
      /\ disk' = Torn /\ admin = "idle"
      /\ UNCHANGED <<up, mem, git, snap, staged, admin, loaded, durable>>
  BY DEF Before, Writers, FlushTruncate, tool
<1>2. Stored' = snap /\ Stored \subseteq snap /\ snap \subseteq mem
  BY <1>1 DEF Stored, Before, Copies
<1>3. Kept
  BY <1>1, <1>2 DEF Kept, Before, Writers, Copies, Commits, Whole
<1>4. Promised
  BY <1>1, <1>2 DEF Promised, Promise!Next, Promise!Save
<1>5. QED
  BY <1>3, <1>4

LEMMA FlushWriteStep == Before /\ FlushWrite => Kept /\ Promised
<1> SUFFICES ASSUME Before, FlushWrite PROVE Kept /\ Promised
  OBVIOUS
<1>1. /\ up /\ ~ mishap /\ ~ mishap' /\ flush = "truncated" /\ flush' = "written"
      /\ disk' = snap /\ admin = "idle" /\ durable' = durable \cup snap
      /\ UNCHANGED <<up, mem, git, snap, staged, admin, loaded>>
  BY DEF Before, Writers, FlushWrite, tool
<1>2. Whole(snap)
  BY WholeSets DEF Before, Types, TypeOK
<1>3. Stored = snap /\ Stored' = snap
  BY <1>1, <1>2 DEF Stored, Whole
<1>4. Kept
  BY <1>1, <1>2, <1>3 DEF Kept, Before, Writers, Copies, Commits, Whole
<1>5. QED
  BY <1>1, <1>3, <1>4, Stutter

LEMMA GitAddStep == Before /\ GitAdd => Kept /\ Promised
<1> SUFFICES ASSUME Before, GitAdd PROVE Kept /\ Promised
  OBVIOUS
<1>1. /\ up /\ ~ mishap /\ ~ mishap' /\ flush = "written" /\ flush' = "staged"
      /\ staged' = disk /\ admin = "idle"
      /\ UNCHANGED <<up, mem, disk, git, snap, admin, loaded, durable>>
  BY DEF Before, Writers, GitAdd, tool
<1>2. Stored' = Stored
  BY <1>1 DEF Stored
<1>3. Kept
  BY <1>1, <1>2 DEF Kept, Before, Writers, Copies, Commits, Whole
<1>4. QED
  BY <1>1, <1>2, <1>3, Stutter

\* The new commit is the store, which contains all that was ever stored.
LEMMA GitCommitStep == Before /\ GitCommit => Kept /\ Promised
<1> SUFFICES ASSUME Before, GitCommit PROVE Kept /\ Promised
  OBVIOUS
<1>1. /\ up /\ ~ mishap /\ ~ mishap' /\ flush = "staged" /\ flush' = "waiting"
      /\ git' = Append(git, staged) /\ admin = "idle"
      /\ UNCHANGED <<up, mem, disk, snap, staged, admin, loaded, durable>>
  BY DEF Before, Writers, GitCommit, tool
<1>2. Whole(disk) /\ disk \subseteq durable /\ staged = disk /\ durable \subseteq Stored
  BY <1>1 DEF Before, Copies
<1>3. Stored = disk /\ Stored' = disk
  BY <1>1, <1>2 DEF Stored, Whole
<1>4. Writers' /\ Copies'
  BY <1>1, <1>2, <1>3 DEF Before, Writers, Copies, Whole
<1>5. /\ Len(git) \in Nat /\ Len(git') = Len(git) + 1
      /\ \A i \in 1..Len(git) : git'[i] = git[i]
      /\ git'[Len(git) + 1] = disk
  BY <1>1, <1>2 DEF Before, Types
<1>6. \A i \in 1..Len(git) : Whole(git[i]) /\ git[i] \subseteq disk
  BY <1>2, <1>3 DEF Before, Commits
<1>7. Commits'
  <2>1. SUFFICES ASSUME NEW i \in 1..Len(git')
                 PROVE  /\ Whole(git'[i]) /\ git'[i] \subseteq durable
                        /\ i > 1 => git'[i - 1] \subseteq git'[i]
    BY <1>1 DEF Commits, Whole
  <2>2. CASE i \in 1..Len(git)
    BY <1>5, <2>2 DEF Before, Commits
  <2>3. CASE i = Len(git) + 1
    BY <1>2, <1>5, <1>6, <2>3
  <2>4. QED
    BY <1>5, <2>1, <2>2, <2>3
<1>8. Promised
  BY <1>1, <1>2, <1>3 DEF Promised, Promise!Next, Promise!Commit
<1>9. QED
  BY <1>4, <1>7, <1>8 DEF Kept

LEMMA FlushFailsStep == Before /\ FlushFails => Kept /\ Promised
<1> SUFFICES ASSUME Before, FlushFails PROVE Kept /\ Promised
  OBVIOUS
<1>1. /\ up /\ ~ mishap /\ ~ mishap' /\ flush # "truncated" /\ flush' = "waiting"
      /\ admin = "idle"
      /\ UNCHANGED <<up, mem, disk, git, snap, staged, admin, loaded, durable>>
  BY DEF Before, Writers, FlushFails, tool
<1>2. Stored' = Stored
  BY <1>1 DEF Stored
<1>3. Kept
  BY <1>1, <1>2 DEF Kept, Before, Writers, Copies, Commits, Whole
<1>4. QED
  BY <1>1, <1>2, <1>3, Stutter

LEMMA AdminLoadStep == ASSUME NEW a \in AdminChange, Before, AdminLoad(a) PROVE Kept /\ Promised
<1>1. /\ ~ up /\ ~ mishap /\ ~ mishap' /\ flush = "waiting" /\ disk # Torn
      /\ admin = "idle" /\ admin' = "loaded"
      /\ loaded' = (IF disk = Absent THEN {} ELSE disk) \cup {a}
      /\ UNCHANGED <<up, mem, disk, git, flush, snap, staged, durable>>
  BY DEF Before, Types, TypeOK, AdminLoad, server
<1>2. Stored' = Stored /\ loaded' = Stored \cup {a}
  BY <1>1 DEF Stored
<1>3. Kept
  BY <1>1, <1>2 DEF Kept, Before, Writers, Copies, Commits, Whole
<1>4. QED
  BY <1>1, <1>2, <1>3, Stutter

\* The one step that changes what is stored while the server does not run.
LEMMA AdminTruncateStep == Before /\ AdminTruncate => Kept /\ Promised
<1> SUFFICES ASSUME Before, AdminTruncate PROVE Kept /\ Promised
  OBVIOUS
<1>1. /\ ~ up /\ ~ mishap /\ ~ mishap' /\ flush = "waiting"
      /\ admin = "loaded" /\ admin' = "truncated" /\ disk' = Torn
      /\ UNCHANGED <<up, mem, git, flush, snap, staged, loaded, durable>>
  BY DEF Before, Types, TypeOK, Writers, AdminTruncate, server
<1>2. PICK a \in AdminChange : loaded = Stored \cup {a}
  BY <1>1 DEF Before, Copies
<1>3. Stored' = Stored \cup {a} /\ durable \subseteq Stored
  BY <1>1, <1>2 DEF Stored, Before, Copies
<1>4. Kept
  BY <1>1, <1>3 DEF Kept, Before, Writers, Copies, Commits, Whole
<1>5. Promised
  BY <1>1, <1>3 DEF Promised, Promise!Next, Promise!Edit
<1>6. QED
  BY <1>4, <1>5

LEMMA AdminWriteStep == Before /\ AdminWrite => Kept /\ Promised
<1> SUFFICES ASSUME Before, AdminWrite PROVE Kept /\ Promised
  OBVIOUS
<1>1. /\ ~ up /\ ~ mishap /\ ~ mishap' /\ flush = "waiting"
      /\ admin = "truncated" /\ admin' = "idle" /\ disk' = loaded
      /\ durable' = durable \cup loaded
      /\ UNCHANGED <<up, mem, git, flush, snap, staged, loaded>>
  BY DEF Before, Types, TypeOK, Writers, AdminWrite, server
<1>2. Whole(loaded)
  BY WholeSets DEF Before, Types, TypeOK
<1>3. Stored = loaded /\ Stored' = loaded
  BY <1>1, <1>2 DEF Stored, Whole
<1>4. Kept
  BY <1>1, <1>2, <1>3 DEF Kept, Before, Writers, Copies, Commits, Whole
<1>5. QED
  BY <1>1, <1>3, <1>4, Stutter

LEMMA AdminFailsStep == Before /\ AdminFails => Kept /\ Promised
<1> SUFFICES ASSUME Before, AdminFails PROVE Kept /\ Promised
  OBVIOUS
<1>1. /\ ~ mishap /\ ~ mishap' /\ admin = "loaded" /\ admin' = "idle"
      /\ UNCHANGED <<up, mem, disk, git, flush, snap, staged, loaded, durable>>
  BY DEF Before, Types, TypeOK, AdminStage, AdminFails, server
<1>2. Stored' = Stored
  BY <1>1 DEF Stored
<1>3. Kept
  BY <1>1, <1>2 DEF Kept, Before, Writers, Copies, Commits, Whole
<1>4. QED
  BY <1>1, <1>2, <1>3, Stutter

LEMMA IdleStep == Before /\ UNCHANGED vars => Kept /\ Promised
<1> SUFFICES ASSUME Before, UNCHANGED vars PROVE Kept /\ Promised
  OBVIOUS
<1>1. /\ ~ mishap /\ ~ mishap'
      /\ UNCHANGED <<up, mem, disk, git, flush, snap, staged, admin, loaded, durable>>
  BY DEF Before, vars
<1>2. Stored' = Stored
  BY <1>1 DEF Stored
<1>3. Kept
  BY <1>1, <1>2 DEF Kept, Before, Writers, Copies, Commits, Whole
<1>4. QED
  BY <1>1, <1>2, <1>3, Stutter

-----------------------------------------------------------------------------
(* The theorems.                                                           *)

\* The promise never comes back.
LEMMA MishapStays == Types /\ [Next]_vars /\ mishap => mishap'
BY DEF Next, vars, Start, Mutate, Crash, FlushSnapshot, FlushTruncate, FlushWrite, GitAdd,
       GitCommit, FlushFails, AdminLoad, AdminTruncate, AdminWrite, AdminFails

LEMMA Step == IInv /\ [Next]_vars => IInv' /\ Promised
<1> SUFFICES ASSUME IInv, [Next]_vars PROVE IInv' /\ Promised
  OBVIOUS
<1>1. Types /\ Types'
  BY TypesStep DEF IInv
<1>2. CASE mishap'
  <2>1. IInv'
    BY <1>1, <1>2 DEF IInv
  <2>2. Promised
    BY <1>2 DEF Promised, Promise!Next, Promise!Spoil
  <2>3. QED
    BY <2>1, <2>2
<1>3. CASE ~ mishap'
  <2>1. Before
    BY <1>1, <1>3, MishapStays DEF Before, IInv
  <2>2. Kept /\ Promised
    <3>1. CASE UNCHANGED vars
      BY <2>1, <3>1, IdleStep
    <3>2. CASE Next
      BY <2>1, <3>2, StartStep, MutateStep, CrashStep, FlushSnapshotStep,
         FlushTruncateStep, FlushWriteStep, GitAddStep, GitCommitStep, FlushFailsStep,
         AdminLoadStep, AdminTruncateStep, AdminWriteStep, AdminFailsStep DEF Next
    <3>3. QED
      BY <3>1, <3>2
  <2>3. QED
    BY <1>1, <2>2 DEF IInv, Kept
<1>4. QED
  BY <1>2, <1>3

THEOREM Invariance == Spec => []IInv
<1>1. IInv /\ [Next]_vars => IInv'
  BY Step
<1>2. QED
  BY <1>1, Initially, PTL DEF Spec

\* The variables keep their types in every reachable state.
THEOREM TypeCorrect == Spec => []TypeOK
<1>1. IInv => TypeOK
  BY DEF IInv, Types
<1>2. QED
  BY <1>1, Invariance, PTL

\* What was flushed survives crashes and restarts.
THEOREM FlushedAlwaysSurvives == Spec => []FlushedSurvives
<1>1. IInv => FlushedSurvives
  BY DEF IInv, Types, TypeOK, Writers, Copies, Stored, FlushedSurvives, Recoverable
<1>2. QED
  BY <1>1, Invariance, PTL

\* The git history only ever adds to itself.
THEOREM HistoryAlwaysGrows == Spec => []HistoryGrows
<1>1. IInv => HistoryGrows
  BY DEF IInv, Commits, HistoryGrows, Whole
<1>2. QED
  BY <1>1, Invariance, PTL

\* Persistence implements Vault.
THEOREM ImplementsVault == Spec => VaultSpec
<1>1. Init => Promise!Init
  BY DEF Init, Promise!Init, Stored
<1>2. IInv /\ [Next]_vars => [Promise!Next]_(Promise!vars)
  BY Step DEF Promised
<1>3. QED
  BY <1>1, <1>2, Invariance, PTL DEF Spec, VaultSpec, Promise!Spec
=============================================================================
