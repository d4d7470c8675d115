------------------------------ MODULE SkipList ------------------------------
(***************************************************************************)
(* The skip list of free big blocks of kernel/malloc.c, pointer by pointer *)
(* and one loop iteration per step: malloc_skip_list_findbest(),           *)
(* malloc_skip_list_insert() and malloc_skip_list_delete(), as malloc()    *)
(* and free() call them.  A block keeps its size for ever, and it keeps    *)
(* the forward pointers of its last stay in the list.                      *)
(***************************************************************************)
EXTENDS Integers, FiniteSets, BestFit

CONSTANTS
  Block,           (* the big blocks                                       *)
  HEAD,            (* &malloc_big_bins.head                                *)
  NULL,
  Size,            (* the size field of each block                         *)
  SKIP_MAX_LEVEL,
  Requests         (* the sizes malloc() looks for                         *)

ASSUME SkipListConstants ==
  /\ HEAD \notin Block /\ NULL \notin Block /\ HEAD # NULL
  /\ Size \in [Block -> Nat \ {0}]
  /\ IsFiniteSet(Block)
  /\ SKIP_MAX_LEVEL \in Nat
  /\ Requests \subseteq Nat

VARIABLES
  forward,  (* forward[node][i]                                            *)
  level,    (* malloc_big_bins.level                                       *)
  held,     (* the blocks whose head is NULL: the caller has them          *)
  pc,       (* where the running function is                               *)
  value,    (* the block insert() or delete() works on; NULL in findbest() *)
  want,     (* the size searched for                                       *)
  node, i, update,
  lvl       (* insert(): the random level of the new node                  *)

vars == <<forward, level, held, pc, value, want, node, i, update, lvl>>

Node   == Block \cup {HEAD}
Levels == 0 .. SKIP_MAX_LEVEL

NoUpdate == [l \in Levels |-> NULL]

Init ==
  /\ forward = [n \in Node |-> NoUpdate]
  /\ level = 0
  /\ held = Block
  /\ pc = "idle" /\ value = NULL /\ want = 0
  /\ node = HEAD /\ i = 0 /\ update = NoUpdate /\ lvl = 0

(* The local variables are gone when a function returns.                   *)
Return ==
  /\ pc' = "idle" /\ value' = NULL /\ want' = 0
  /\ node' = HEAD /\ i' = 0 /\ update' = NoUpdate /\ lvl' = 0

----------------------------------------------------------------------------
(* Each of the three functions begins with the same search.                *)
Search(op, v, size) ==
  /\ pc' = op /\ value' = v /\ want' = size
  /\ node' = HEAD /\ i' = level
  /\ update' = NoUpdate

(* malloc() of a big request calls findbest().                             *)
Malloc(n) ==
  /\ pc = "idle"
  /\ Search("find", NULL, n)
  /\ UNCHANGED <<forward, level, held, lvl>>

(* free() of a big block pushes its payload and calls insert().            *)
Free(v) ==
  /\ pc = "idle"
  /\ held' = held \ {v}
  /\ Search("insert", v, Size[v])
  /\ UNCHANGED <<forward, level, lvl>>

Searching == pc \in {"find", "insert", "delete"} /\ i >= 0
Searched(op) == pc = op /\ i < 0

NextIsSmaller == forward[node][i] # NULL /\ Size[forward[node][i]] < want

(* node = node->forward[i]                                                 *)
Advance ==
  /\ Searching /\ NextIsSmaller
  /\ node' = forward[node][i]
  /\ UNCHANGED <<forward, level, held, pc, value, want, i, update, lvl>>

(* update[i] = node; --i (findbest() has no update)                        *)
Descend ==
  /\ Searching /\ ~NextIsSmaller
  /\ update' = IF pc = "find" THEN update ELSE [update EXCEPT ![i] = node]
  /\ i' = i - 1
  /\ UNCHANGED <<forward, level, held, pc, value, want, node, lvl>>

Candidate == forward[node][0]

(* findbest() returns NULL: malloc() makes a new block.                    *)
NothingFound ==
  /\ Searched("find") /\ Candidate = NULL
  /\ Return
  /\ UNCHANGED <<forward, level, held>>

(* Mutant: the size is changed before the block is deleted.                *)
BestFoundResized ==
  /\ Searched("find") /\ Candidate # NULL
  /\ Search("delete", Candidate, Size[Candidate] + 1)
  /\ UNCHANGED <<forward, level, held, lvl>>

(* findbest() returns a block: malloc() deletes it from the list.          *)
BestFound ==
  /\ Searched("find") /\ Candidate # NULL
  /\ Search("delete", Candidate, Size[Candidate])
  /\ UNCHANGED <<forward, level, held, lvl>>

----------------------------------------------------------------------------
(* Mutant: the level of the list becomes the new node's, higher or not.    *)
ChooseLevelAlways(l) ==
  /\ Searched("insert")
  /\ lvl' = l
  /\ update' = [j \in Levels |-> IF level < j /\ j <= l THEN HEAD ELSE update[j]]
  /\ level' = l
  /\ node' = value
  /\ pc' = "link" /\ i' = 0
  /\ UNCHANGED <<forward, held, value, want>>

(* insert(): a random level, and the head in front of the new levels.  A   *)
(* block that is listed already is left alone.                             *)
ChooseLevel(l) ==
  /\ Searched("insert")
  /\ IF Candidate = value THEN Return /\ UNCHANGED level
     ELSE /\ lvl' = l
          /\ update' = [j \in Levels |-> IF level < j /\ j <= l THEN HEAD ELSE update[j]]
          /\ level' = IF l > level THEN l ELSE level
          /\ node' = value
          /\ pc' = "link" /\ i' = 0
          /\ UNCHANGED <<value, want>>
  /\ UNCHANGED <<forward, held>>

(* Mutants: the predecessor is redirected first, or the new node is not    *)
(* given a successor.                                                      *)
LinkSwapped ==
  /\ pc = "link" /\ i <= lvl
  /\ forward' = [forward EXCEPT ![update[i]][i] = node, ![node][i] = node]
  /\ i' = i + 1
  /\ UNCHANGED <<level, held, pc, value, want, node, update, lvl>>

LinkHalf ==
  /\ pc = "link" /\ i <= lvl
  /\ forward' = [forward EXCEPT ![update[i]][i] = node]
  /\ i' = i + 1
  /\ UNCHANGED <<level, held, pc, value, want, node, update, lvl>>

Link ==
  /\ pc = "link" /\ i <= lvl
  /\ forward' = [forward EXCEPT ![node][i] = forward[update[i]][i],
                                ![update[i]][i] = node]
  /\ i' = i + 1
  /\ UNCHANGED <<level, held, pc, value, want, node, update, lvl>>

Linked ==
  /\ pc = "link" /\ i > lvl
  /\ Return
  /\ UNCHANGED <<forward, level, held>>

----------------------------------------------------------------------------
(* delete(): node = node->forward[0], until it is the block.  After this   *)
(* loop node is value, so the search from the head that follows it in the  *)
(* source never runs.                                                      *)
Locate ==
  /\ Searched("delete")
  /\ node' = Candidate
  /\ pc' = "walk"
  /\ UNCHANGED <<forward, level, held, value, want, i, update, lvl>>

Walk ==
  /\ pc = "walk"
  /\ IF node # value
     THEN node' = Candidate /\ UNCHANGED <<pc, i>>
     ELSE pc' = "unlink" /\ i' = 0 /\ UNCHANGED node
  /\ UNCHANGED <<forward, level, held, value, want, update, lvl>>

(* Mutant: only level 0 is unlinked.                                       *)
PointsToNodeBelow == i = 0 /\ forward[update[i]][i] = node

PointsToNode == i <= level /\ forward[update[i]][i] = node

Unlink ==
  /\ pc = "unlink" /\ PointsToNode
  /\ forward' = [forward EXCEPT ![update[i]][i] = forward[node][i]]
  /\ i' = i + 1
  /\ UNCHANGED <<level, held, pc, value, want, node, update, lvl>>

Unlinked ==
  /\ pc = "unlink" /\ ~PointsToNode
  /\ pc' = "trim"
  /\ UNCHANGED <<forward, level, held, value, want, node, i, update, lvl>>

(* Mutant: the level may sink below 0.                                     *)
TopIsEmptyAtZero == level >= 0 /\ forward[HEAD][level] = NULL

TopIsEmpty == level > 0 /\ forward[HEAD][level] = NULL

Trim ==
  /\ pc = "trim" /\ TopIsEmpty
  /\ level' = level - 1
  /\ UNCHANGED <<forward, held, pc, value, want, node, i, update, lvl>>

(* delete() returns, and malloc() pops the payload.                        *)
Deleted ==
  /\ pc = "trim" /\ ~TopIsEmpty
  /\ held' = held \cup {value}
  /\ Return
  /\ UNCHANGED <<forward, level>>

----------------------------------------------------------------------------
(* The processor goes on with the function that runs.                      *)
Run ==
  \/ Advance \/ Descend
  \/ NothingFound \/ BestFound
  \/ \E l \in Levels : ChooseLevel(l)
  \/ Link \/ Linked
  \/ Locate \/ Walk \/ Unlink \/ Unlinked \/ Trim \/ Deleted

Call ==
  \/ \E n \in Requests : Malloc(n)
  \/ \E v \in held : Free(v)

Next == Call \/ Run

Spec == Init /\ [][Next]_vars /\ WF_vars(Run)
=============================================================================
