------------------------------- MODULE HashTree -------------------------------
(***************************************************************************)
(* src/include/hash_tree.h: objects in the order of their hashes, in nodes *)
(* with a slot for each digit. A node is the digits that lead to it, a     *)
(* slot one digit more, and a slot is empty, holds an object, or holds the *)
(* node of the same name. Hashes have all the same length and no digit     *)
(* that is written in two ways.                                            *)
(***************************************************************************)
EXTENDS Integers, Sequences, FiniteSets

CONSTANTS
  Base,             \* the number of slots of a node
  HashLength,       \* of the hashes
  MaxObjects        \* bound: objects in the tree

ASSUME TreeAssumption == {Base, HashLength} \subseteq Nat \ {0}

VARIABLES
  nodes,            \* the nodes of the tree
  slots,            \* the object in each slot that holds one
  added             \* the objects that were added and not removed since

treeVars == <<nodes, slots, added>>

Digits == 0 .. Base - 1
Hashes == [1 .. HashLength -> Digits]
Root == <<>>
Nothing == <<>>

TreeInit == nodes = {Root} /\ slots = <<>> /\ added = {}

-----------------------------------------------------------------------------
Start(path, n) == SubSeq(path, 1, n)
IsPrefix(p, q) == Len(p) <= Len(q) /\ Start(q, Len(p)) = p
Longest(paths) == CHOOSE p \in paths : \A q \in paths : Len(q) <= Len(p)

(* find(): the last node on the way to a hash, and what its slot holds.    *)
NodeOf(hash) == Longest({n \in nodes : IsPrefix(n, hash)})
SlotOf(hash) == Start(hash, Len(NodeOf(hash)) + 1)
FindObject(hash) ==
  IF SlotOf(hash) \in DOMAIN slots /\ slots[SlotOf(hash)] = hash THEN hash ELSE Nothing

(* add(): if the slot is taken, both objects go to the first node where    *)
(* their hashes differ, below new nodes. *)
With(function, entries) ==
  [s \in DOMAIN function \cup DOMAIN entries |->
     IF s \in DOMAIN entries THEN entries[s] ELSE function[s]]
Without(function, s) == [t \in DOMAIN function \ {s} |-> function[t]]
Entry(node, hash) == [s \in {Start(hash, Len(node) + 1)} |-> hash]

AddObject(hash) ==
  LET slot == SlotOf(hash)
  IN IF FindObject(hash) # Nothing
     THEN UNCHANGED treeVars
     ELSE /\ Cardinality(added) < MaxObjects
          /\ added' = added \cup {hash}
          /\ IF slot \notin DOMAIN slots
             THEN slots' = With(slots, [s \in {slot} |-> hash]) /\ UNCHANGED nodes
             ELSE LET other == slots[slot]
                      common == Longest({Start(hash, n) : n \in 0 .. HashLength}
                                        \cap {Start(other, n) : n \in 0 .. HashLength})
                  IN /\ nodes' = nodes \cup {Start(common, n) : n \in Len(slot) .. Len(common)}
                     /\ slots' = With(With(Without(slots, slot), Entry(common, other)),
                                     Entry(common, hash))

(* size() # 0 *)
IsUsed(node, remaining, taken) ==
  \E n \in remaining \cup DOMAIN taken : n # node /\ Len(n) = Len(node) + 1 /\ IsPrefix(node, n)

(* A mistake the checks notice: only the node of the object is deleted. *)
LeftOfNode(hash, taken) == {n \in nodes : n = Root \/ n # NodeOf(hash) \/ IsUsed(n, nodes, taken)}

(* remove(): then the nodes on the way up that are empty, until one is not. *)
LeftOf(hash, taken) ==
  {n \in nodes :
     \/ n = Root
     \/ ~ IsPrefix(n, hash)
     \/ \E m \in nodes : IsPrefix(n, m) /\ IsUsed(m, {}, taken)}

RemoveObject(hash) ==
  LET taken == Without(slots, SlotOf(hash))
  IN IF FindObject(hash) = Nothing
     THEN UNCHANGED treeVars
     ELSE /\ added' = added \ {hash}
          /\ slots' = taken
          /\ nodes' = LeftOf(hash, taken)

TreeNext == \E hash \in Hashes : AddObject(hash) \/ RemoveObject(hash)

-----------------------------------------------------------------------------
(* next(). From a slot of a node: the first slot from there on that holds  *)
(* something, and the first object below it; if there is none, from the    *)
(* slot after the digit of the hash in the parent.                         *)

Below(node, digit) ==
  {s \in DOMAIN slots : IsPrefix(node, s) /\ Len(s) > Len(node) /\ s[Len(node) + 1] >= digit}

Before(s, t) ==
  \E i \in 1 .. Len(s) : /\ i <= Len(t)
                         /\ Start(s, i - 1) = Start(t, i - 1)
                         /\ s[i] < t[i]

First(found) == slots[CHOOSE s \in found : \A t \in found \ {s} : Before(s, t)]

SearchFrom(hash, node, digit) ==
  LET Candidates(n) == Below(Start(node, n), IF n = Len(node) THEN digit ELSE hash[n + 1] + 1)
      levels == {n \in 0 .. Len(node) : Candidates(n) # {}}
  IN IF levels = {} THEN Nothing
     ELSE First(Candidates(CHOOSE n \in levels : \A m \in levels : m <= n))

FirstObject == SearchFrom(Root, Root, 0)

NextObject(hash) ==
  SearchFrom(hash, NodeOf(hash), hash[Len(NodeOf(hash)) + 1] + (IF FindObject(hash) # Nothing THEN 1 ELSE 0))

(* hint->next(hash), the hint being the node of the object found before.   *)
NextFromHint(hash, hint) == SearchFrom(hash, hint, hash[Len(hint) + 1] + 1)

-----------------------------------------------------------------------------
(* The objects that follow a hash. *)
Smallest(hashes) ==
  IF hashes = {} THEN Nothing ELSE CHOOSE h \in hashes : \A g \in hashes \ {h} : Before(h, g)
Following(hash) == Smallest({g \in added : Before(hash, g)})

(* Whatever was added and removed, the tree holds the objects that it is   *)
(* said to hold, and walks through them in the order of their hashes: from *)
(* none, from any of them, with a hint or without, and from an object that *)
(* is gone. From a hash whose slot another object took, the walk finds     *)
(* that one, greater or not (176); no node is left without objects.        *)
WalkInOrder ==
  /\ \A h \in Hashes : (FindObject(h) # Nothing) = (h \in added)
  /\ \A n \in nodes \ {Root} : \E s \in DOMAIN slots : IsPrefix(n, s)
  /\ FirstObject = Smallest(added)
  /\ \A h \in Hashes :
       IF h \in added \/ SlotOf(h) \notin DOMAIN slots
       THEN NextObject(h) = Following(h) /\ NextFromHint(h, NodeOf(h)) = Following(h)
       ELSE NextObject(h) = slots[SlotOf(h)]
=============================================================================
