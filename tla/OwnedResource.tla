--------------------------- MODULE OwnedResource ----------------------------
(***************************************************************************)
(* What an owning handle promises, whatever it owns: the module has no     *)
(* indices, no flags and no errors in it.  A resource is created with one  *)
(* owner, and only that owner's end destroys it; an owner that ends        *)
(* without destroying leaves the resource without one, and it may later be *)
(* given another.  Arena (arena.rs) and ThreadCache (thread/cache.rs)      *)
(* implement it over indices that jemalloc recycles.                       *)
(***************************************************************************)
CONSTANTS
  Handles,
  Resources   \* every resource there ever is: none comes back

VARIABLES
  born,       \* the resources created so far
  alive,      \* those that have not been destroyed
  owns        \* owns[h]: the resource of handle h, as a set of at most one

resourceVars == <<born, alive, owns>>

Owned == UNION {owns[h] : h \in Handles}

Init ==
  /\ born = {}
  /\ alive = {}
  /\ owns = [h \in Handles |-> {}]

Create(h) ==
  /\ owns[h] = {}
  /\ \E r \in Resources \ born :
       /\ born' = born \cup {r}
       /\ alive' = alive \cup {r}
       /\ owns' = [owns EXCEPT ![h] = {r}]

Destroy(h) ==
  /\ owns[h] # {}
  /\ owns[h] \subseteq alive
  /\ alive' = alive \ owns[h]
  /\ owns' = [owns EXCEPT ![h] = {}]
  /\ UNCHANGED born

\* The owner gives its resource up, or fails to destroy it at its end.
Abandon(h) ==
  /\ owns[h] # {}
  /\ owns' = [owns EXCEPT ![h] = {}]
  /\ UNCHANGED <<born, alive>>

\* A resource without an owner is given one.
Recover(h) ==
  /\ owns[h] = {}
  /\ \E r \in alive \ Owned : owns' = [owns EXCEPT ![h] = {r}]
  /\ UNCHANGED <<born, alive>>

Next == \E h \in Handles : Create(h) \/ Destroy(h) \/ Abandon(h) \/ Recover(h)

Spec == Init /\ [][Next]_resourceVars

=============================================================================
