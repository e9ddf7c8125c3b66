-------------------------------- MODULE Vault --------------------------------
(***************************************************************************)
(* What the operator of a chorgly server may rely on: a memory that is     *)
(* empty of what was not saved after every stop, a store that only grows,  *)
(* and a log of what was in the store.  Persistence implements it.         *)
(*                                                                         *)
(* The promise ends for good when a writer dies half-way or the tool and   *)
(* the server are used at the same time (Spoil).                           *)
(***************************************************************************)
EXTENDS Sequences

CONSTANT Item   \* a change somebody made

VARIABLES
  running,
  memory,   \* what the running server knows
  stored,   \* what it would know if it were started now
  log,      \* what was stored at each commit, oldest first
  sound     \* the promise stands

vars == <<running, memory, stored, log, sound>>

Init ==
  /\ running = FALSE /\ memory = {} /\ stored = {} /\ log = << >> /\ sound = TRUE

Start ==
  /\ ~ running /\ running' = TRUE /\ memory' = stored
  /\ UNCHANGED <<stored, log>>

Learn ==
  /\ running /\ \E c \in Item : memory' = memory \cup {c}
  /\ UNCHANGED <<running, stored, log>>

\* The store catches up with the memory, as it is or as it was a while ago.
Save ==
  /\ running /\ stored \subseteq stored' /\ stored' \subseteq memory
  /\ UNCHANGED <<running, memory, log>>

\* Somebody edits the store of a server that does not run.
Edit ==
  /\ ~ running /\ \E c \in Item : stored' = stored \cup {c}
  /\ UNCHANGED <<running, memory, log>>

Commit ==
  /\ running /\ log' = Append(log, stored)
  /\ UNCHANGED <<running, memory, stored>>

Stop ==
  /\ running /\ running' = FALSE /\ memory' = {}
  /\ UNCHANGED <<stored, log>>

Spoil == sound' = FALSE

Next ==
  \/ sound' = sound /\ (Start \/ Learn \/ Save \/ Edit \/ Commit \/ Stop)
  \/ Spoil

Spec == Init /\ [][Next]_vars
=============================================================================
