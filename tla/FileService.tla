----------------------------- MODULE FileService -----------------------------
(***************************************************************************)
(* What an Inode promises to those who open a file (inode.hpp): all share  *)
(* one object; when its reference count becomes zero the cache is flushed  *)
(* and the object is released.  So only a file that nobody has open is     *)
(* stored, every version is made from all that the cache has, and a write  *)
(* leaves the cache only when some version was made from it.  The first    *)
(* version gives back all its writes; what a later one gives back is not   *)
(* promised.                                                               *)
(***************************************************************************)
EXTENDS Integers, Sequences

VARIABLES
  opens,        \* file -> how many have it open
  cached,       \* file -> writes that are in the cache
  stores,       \* file -> how many versions were made
  handed,       \* file -> writes that some version was made from
  stored,       \* file -> writes that the latest version gives back
  writes        \* the file of every acknowledged write

vars == <<opens, cached, stores, handed, stored, writes>>

Init ==
  /\ opens = <<>> /\ cached = <<>> /\ writes = <<>>
  /\ stores = <<>> /\ handed = <<>> /\ stored = <<>>

Create ==
  /\ opens' = Append(opens, 0)
  /\ cached' = Append(cached, {})
  /\ stores' = Append(stores, 0)
  /\ handed' = Append(handed, {})
  /\ stored' = Append(stored, {})
  /\ UNCHANGED writes

Open(f) ==
  /\ opens' = [opens EXCEPT ![f] = @ + 1]
  /\ UNCHANGED <<cached, stores, handed, stored, writes>>

Write(f) ==
  /\ opens[f] > 0
  /\ writes' = Append(writes, f)
  /\ cached' = [cached EXCEPT ![f] = @ \cup {Len(writes) + 1}]
  /\ UNCHANGED <<opens, stores, handed, stored>>

Close(f) ==
  /\ opens[f] > 0
  /\ opens' = [opens EXCEPT ![f] = @ - 1]
  /\ UNCHANGED <<cached, stores, handed, stored, writes>>

Store(f) ==
  /\ opens[f] = 0
  /\ stores' = [stores EXCEPT ![f] = @ + 1]
  /\ handed' = [handed EXCEPT ![f] = @ \cup cached[f]]
  /\ \E kept \in SUBSET (stored[f] \cup cached[f]) :
       /\ stores[f] = 0 => kept = cached[f]
       /\ stored' = [stored EXCEPT ![f] = kept]
  /\ UNCHANGED <<opens, cached, writes>>

Evict(f) ==
  /\ opens[f] = 0
  /\ cached[f] \subseteq handed[f]
  /\ cached' = [cached EXCEPT ![f] = {}]
  /\ UNCHANGED <<opens, stores, handed, stored, writes>>

Next ==
  \/ Create
  \/ \E f \in DOMAIN opens :
       Open(f) \/ Write(f) \/ Close(f) \/ Store(f) \/ Evict(f)

Spec == Init /\ [][Next]_vars

=============================================================================
