--------------------------- MODULE UtilitiesProofs ---------------------------
(***************************************************************************)
(* Theorems about the parts that stand alone: the lock between processes,  *)
(* the shares, and the tree of hashes, for any number of processes, any    *)
(* requests, and hashes of any length in any base.                         *)
(***************************************************************************)
EXTENDS Utilities, WellFoundedInduction, FiniteSetTheorems, TLAPS

MutexTypeOK ==
  /\ address \in [Processes -> LastBytes]
  /\ lock \in [Processes -> {"none", "idle", "bound", "gone"}]
  /\ bound \in [LastBytes -> Processes \cup {Nobody}]
  /\ alive \subseteq Processes

(* Each object knows whether its socket has an address, it can only be its *)
(* own, and the one that has it is told so as long as it exists.           *)
MutexInv ==
  /\ MutexTypeOK
  /\ \A p \in Processes, b \in LastBytes :
       bound[b] = p <=> lock[p] = "bound" /\ address[p] = b
  /\ \A p \in Processes : p \in granted <=> p \in alive /\ lock[p] = "bound"
  /\ granted \subseteq Processes

-----------------------------------------------------------------------------
(* lock() (60-78) keeps the invariant: a socket that could not be bound    *)
(* stays with the object, which is not told that it has the lock. *)
LEMMA LockKeeps ==
  ASSUME MutexInv, NEW p \in Processes, Lock(p)
  PROVE  MutexInv'
<1>1. CASE UNCHANGED <<lock, bound, granted>>
  BY <1>1 DEF MutexInv, MutexTypeOK, Lock
<1>2. CASE /\ lock[p] = "none"
           /\ lock' = [lock EXCEPT ![p] = "idle"]
           /\ UNCHANGED <<bound, granted>>
  BY <1>2 DEF MutexInv, MutexTypeOK, Lock
<1>3. CASE /\ lock[p] = "none" /\ bound[address[p]] = Nobody
           /\ lock' = [lock EXCEPT ![p] = "bound"]
           /\ bound' = [bound EXCEPT ![address[p]] = p]
           /\ granted' = granted \cup {p}
  <2>1. p \in alive /\ alive' = alive /\ address' = address
    BY DEF Lock
  <2>2. MutexTypeOK'
    BY <1>3, <2>1 DEF MutexInv, MutexTypeOK
  <2>3. ASSUME NEW q \in Processes, NEW b \in LastBytes
        PROVE  bound'[b] = q <=> lock'[q] = "bound" /\ address'[q] = b
    <3>1. bound[b] = q <=> lock[q] = "bound" /\ address[q] = b
      BY DEF MutexInv
    <3>2. /\ lock'[q] = IF q = p THEN "bound" ELSE lock[q]
          /\ bound'[b] = IF b = address[p] THEN p ELSE bound[b]
      BY <1>3 DEF MutexInv, MutexTypeOK
    <3> QED
      BY <1>3, <2>1, <3>1, <3>2, NobodyIsNone
  <2>4. ASSUME NEW q \in Processes
        PROVE  q \in granted' <=> q \in alive' /\ lock'[q] = "bound"
    BY <1>3, <2>1 DEF MutexInv, MutexTypeOK
  <2>5. granted' \subseteq Processes
    BY <1>3 DEF MutexInv
  <2> QED
    BY <2>2, <2>3, <2>4, <2>5 DEF MutexInv
<1> QED
  BY <1>1, <1>2, <1>3 DEF Lock

(* A socket that is closed frees its address and no other.                 *)
LEMMA ReleasedFrees ==
  ASSUME MutexInv, NEW p \in Processes
  PROVE  /\ Released(p) \in [LastBytes -> Processes \cup {Nobody}]
         /\ \A q \in Processes, b \in LastBytes :
              Released(p)[b] = q <=> bound[b] = q /\ q # p
BY NobodyIsNone DEF MutexInv, MutexTypeOK, Released

(* unlock() (80-93) keeps the invariant, also by an object that does not   *)
(* have the lock and when close() fails.                                   *)
LEMMA UnlockKeeps ==
  ASSUME MutexInv, NEW p \in Processes, Unlock(p)
  PROVE  MutexInv'
<1>1. PICK l \in {"none", "gone"} : lock' = [lock EXCEPT ![p] = l]
  BY DEF Unlock
<1>2. /\ bound' = Released(p) /\ granted' = granted \ {p}
      /\ UNCHANGED <<address, alive>>
  BY DEF Unlock
<1>3. MutexTypeOK'
  BY <1>1, <1>2, ReleasedFrees DEF MutexInv, MutexTypeOK
<1>4. ASSUME NEW q \in Processes, NEW b \in LastBytes
      PROVE  bound'[b] = q <=> lock'[q] = "bound" /\ address'[q] = b
  BY <1>1, <1>2, ReleasedFrees DEF MutexInv, MutexTypeOK
<1>5. ASSUME NEW q \in Processes
      PROVE  q \in granted' <=> q \in alive' /\ lock'[q] = "bound"
  BY <1>1, <1>2 DEF MutexInv, MutexTypeOK
<1>6. granted' \subseteq Processes
  BY <1>2 DEF MutexInv
<1> QED
  BY <1>3, <1>4, <1>5, <1>6 DEF MutexInv

(* The destructor (55-58) and the end of a process keep the invariant.     *)
LEMMA DestroyKeeps ==
  ASSUME MutexInv, NEW p \in Processes, DestroyMutex(p)
  PROVE  MutexInv'
BY DEF MutexInv, MutexTypeOK, DestroyMutex

LEMMA RestartKeeps ==
  ASSUME MutexInv, NEW p \in Processes, Restart(p)
  PROVE  MutexInv'
<1>1. PICK a \in LastBytes : address' = [address EXCEPT ![p] = a]
  BY DEF Restart
<1>2. /\ bound' = Released(p) /\ granted' = granted \ {p}
      /\ lock' = [lock EXCEPT ![p] = "none"] /\ alive' = alive \cup {p}
  BY DEF Restart
<1>3. MutexTypeOK'
  BY <1>1, <1>2, ReleasedFrees DEF MutexInv, MutexTypeOK
<1>4. ASSUME NEW q \in Processes, NEW b \in LastBytes
      PROVE  bound'[b] = q <=> lock'[q] = "bound" /\ address'[q] = b
  <2>1. /\ lock'[q] = IF q = p THEN "none" ELSE lock[q]
        /\ address'[q] = IF q = p THEN a ELSE address[q]
    BY <1>1, <1>2 DEF MutexInv, MutexTypeOK
  <2>2. bound'[b] = q <=> bound[b] = q /\ q # p
    BY <1>2, ReleasedFrees
  <2>3. bound[b] = q <=> lock[q] = "bound" /\ address[q] = b
    BY DEF MutexInv
  <2> QED
    BY <2>1, <2>2, <2>3
<1>5. ASSUME NEW q \in Processes
      PROVE  q \in granted' <=> q \in alive' /\ lock'[q] = "bound"
  BY <1>2 DEF MutexInv, MutexTypeOK
<1>6. granted' \subseteq Processes
  BY <1>2 DEF MutexInv
<1> QED
  BY <1>3, <1>4, <1>5, <1>6 DEF MutexInv

(* The processes whose objects have the same address exclude each other,   *)
(* whatever of them ends, destroys its object, fails to close its socket   *)
(* or calls unlock() without the lock (60-93): the one that is told that   *)
(* it has the lock has the address, and no other one of it is told. Of     *)
(* processes whose names are the same and whose addresses are not, which   *)
(* an uninitialised byte can make of them (45-49), it says nothing.        *)
THEOREM OneHolderOfAnAddress ==
  MutexSpec =>
    []( /\ HolderBelieved
        /\ \A p, q \in granted : address[p] = address[q] => p = q )
<1>1. MutexInit => MutexInv
  BY NobodyIsNone DEF MutexInit, MutexInv, MutexTypeOK
<1>2. MutexInv /\ [MutexNext]_mutexVars => MutexInv'
  <2> SUFFICES ASSUME MutexInv, [MutexNext]_mutexVars
               PROVE  MutexInv'
    OBVIOUS
  <2>1. CASE MutexNext
    <3> PICK p \in Processes : Lock(p) \/ Unlock(p) \/ DestroyMutex(p) \/ Restart(p)
      BY <2>1 DEF MutexNext
    <3> QED
      BY LockKeeps, UnlockKeeps, DestroyKeeps, RestartKeeps
  <2>2. CASE UNCHANGED mutexVars
    BY <2>2 DEF MutexInv, MutexTypeOK, mutexVars
  <2> QED
    BY <2>1, <2>2
<1>3. MutexInv =>
        /\ HolderBelieved
        /\ \A p, q \in granted : address[p] = address[q] => p = q
  BY DEF MutexInv, MutexTypeOK, HolderBelieved
<1> QED
  BY <1>1, <1>2, <1>3, PTL DEF MutexSpec

-----------------------------------------------------------------------------
(* The point has the one share that the object believes to be there. *)
OneShare ==
  \/ mounted = NoShare /\ point = <<>>
  \/ /\ mounted # NoShare
     /\ Len(point) = 1
     /\ point[1].share = mounted

Told == answer # NoShare => answer = mounted

ShareInv ==
  ~ astray =>
    /\ \E S : point \in Seq(S)
    /\ OneShare
    /\ Told

-----------------------------------------------------------------------------
(* The invariant in the form of PointBelieved. *)
LEMMA OneShareBelieved ==
  ASSUME ShareInv
  PROVE  PointBelieved
<1> SUFFICES ASSUME ~ astray
             PROVE  [i \in DOMAIN point |-> point[i].share]
                      = (IF mounted = NoShare THEN <<>> ELSE <<mounted>>)
  BY DEF ShareInv, PointBelieved, Told
<1>1. CASE mounted = NoShare
  BY <1>1 DEF ShareInv, OneShare
<1>2. CASE mounted # NoShare
  <2>1. PICK S : point \in Seq(S)
    BY DEF ShareInv
  <2>2. DOMAIN point = 1 .. 1 /\ point[1].share = mounted
    BY <1>2, <2>1 DEF ShareInv, OneShare
  <2> QED
    BY <1>2, <2>2
<1> QED
  BY <1>1, <1>2

(* A command to unmount that works leaves nothing where one share was      *)
(* (umount(), 136-146); one that does not leaves the share behind.         *)
LEMMA UnmountedIsEmpty ==
  ASSUME ~ astray, ShareInv, NEW tool, NEW outcome \in Unmounted(tool), outcome.well
  PROVE  outcome.left = <<>>
<1>1. PICK S : point \in Seq(S)
  BY DEF ShareInv
<1>2. /\ point # <<>>
      /\ outcome.left = SubSeq(point, 1, Len(point) - 1)
  BY DEF Unmounted
<1>3. Len(point) = 1
  BY <1>2 DEF ShareInv, OneShare
<1> QED
  BY <1>1, <1>2, <1>3

(* The command to mount, on a point that has nothing (111-132). *)
LEMMA MountOnEmpty ==
  ASSUME NEW request, request.share # NoShare, MountOn(<<>>, request)
  PROVE  ShareInv'
<1>1. CASE /\ point' = Append(<<>>, [share |-> request.share, kind |-> kind'])
           /\ mounted' = request.share
           /\ answer' = request.share
  <2> DEFINE new == [share |-> request.share, kind |-> kind']
  <2>1. point' = <<new>>
    BY <1>1
  <2>2. point' \in Seq({new}) /\ Len(point') = 1 /\ point'[1].share = request.share
    BY <2>1
  <2> QED
    BY <1>1, <2>2 DEF ShareInv, OneShare, Told
<1>2. CASE point' = <<>> /\ mounted' = NoShare /\ answer' = NoShare
  <2>1. point' \in Seq({})
    BY <1>2
  <2> QED
    BY <1>2, <2>1 DEF ShareInv, OneShare, Told
<1> QED
  BY <1>1, <1>2 DEF MountOn

(* mount() (39-132) keeps the invariant, unless the command for the share  *)
(* that was there did not do its work. *)
LEMMA MountKeeps ==
  ASSUME ShareInv, NEW request, Mount(request)
  PROVE  ShareInv'
<1> SUFFICES ASSUME ~ astray'
             PROVE  ShareInv'
  BY DEF ShareInv
<1>1. CASE request.share = NoShare
  BY <1>1 DEF Mount, ShareInv, OneShare, Told
<1>2. CASE request.share # NoShare /\ mounted = request.share
  BY <1>2 DEF Mount, ShareInv, OneShare, Told
<1>3. CASE request.share # NoShare /\ mounted = NoShare
  <2>1. MountOn(point, request) /\ ~ astray
    BY <1>3 DEF Mount
  <2>2. point = <<>>
    BY <1>3, <2>1 DEF ShareInv, OneShare
  <2> QED
    BY <1>3, <2>1, <2>2, MountOnEmpty
<1>4. CASE request.share # NoShare /\ mounted # request.share /\ mounted # NoShare
  <2>1. PICK outcome \in Unmounted(kind') :
          astray' = (astray \/ ~ outcome.well) /\ MountOn(outcome.left, request)
    BY <1>4 DEF Mount
  <2>2. ~ astray /\ outcome.well
    BY <2>1
  <2>3. outcome.left = <<>>
    BY <2>2, UnmountedIsEmpty
  <2> QED
    BY <1>4, <2>1, <2>3, MountOnEmpty
<1> QED
  BY <1>1, <1>2, <1>3, <1>4

(* umount() (134-149) keeps it alike. *)
LEMMA UmountKeeps ==
  ASSUME ShareInv, Umount
  PROVE  ShareInv'
<1> SUFFICES ASSUME ~ astray'
             PROVE  ShareInv'
  BY DEF ShareInv
<1>1. CASE mounted = NoShare
  BY <1>1 DEF Umount, ShareInv, OneShare, Told
<1>2. CASE mounted # NoShare
  <2>1. PICK outcome \in Unmounted(kind) :
          /\ mounted' = NoShare
          /\ point' = outcome.left
          /\ astray' = (astray \/ ~ outcome.well)
    BY <1>2 DEF Umount
  <2>2. point' = <<>>
    BY <2>1, UnmountedIsEmpty
  <2>3. point' \in Seq({})
    BY <2>2
  <2> QED
    BY <2>1, <2>2, <2>3 DEF Umount, ShareInv, OneShare, Told
<1> QED
  BY <1>1, <1>2

(* As long as no command to unmount failed or could not work, the mount    *)
(* point has the share that the object and its last answer say, and no     *)
(* other, whatever is mounted and unmounted in any order (39-149).         *)
THEOREM OnlyThatShare == ShareSpec => []PointBelieved
<1>1. ShareInit => ShareInv
  <2> SUFFICES ASSUME ShareInit
               PROVE  ShareInv
    OBVIOUS
  <2>1. point \in Seq({})
    BY DEF ShareInit
  <2> QED
    BY <2>1 DEF ShareInit, ShareInv, OneShare, Told
<1>2. ShareInv /\ [ShareNext]_shareVars => ShareInv'
  <2> SUFFICES ASSUME ShareInv, [ShareNext]_shareVars
               PROVE  ShareInv'
    OBVIOUS
  <2>1. CASE Umount
    BY <2>1, UmountKeeps
  <2>2. CASE \E request \in Requests : Mount(request)
    BY <2>2, MountKeeps
  <2>3. CASE UNCHANGED shareVars
    BY <2>3 DEF shareVars, ShareInv, OneShare, Told
  <2> QED
    BY <2>1, <2>2, <2>3 DEF ShareNext
<1>3. ShareInv => PointBelieved
  BY OneShareBelieved
<1> QED
  BY <1>1, <1>2, <1>3, PTL DEF ShareSpec

-----------------------------------------------------------------------------
(* Numbers.                                                                *)

LEMMA LeastOf ==
  ASSUME NEW T \in SUBSET Nat, T # {}
  PROVE  \E x \in T : \A y \in T : x <= y
<1> DEFINE F == {0 .. m : m \in T}
           R == StrictSubsetOrdering(Nat)
<1>1. F \subseteq FiniteSubsetsOf(Nat) /\ F # {}
  <2>1. ASSUME NEW m \in T PROVE 0 .. m \in FiniteSubsetsOf(Nat)
    <3>1. IsFiniteSet(0 .. m)
      BY FS_Interval
    <3> QED
      BY <3>1 DEF FiniteSubsetsOf
  <2>2. PICK m \in T : TRUE
    OBVIOUS
  <2>3. 0 .. m \in F
    BY <2>2
  <2> QED
    BY <2>1, <2>3
<1>2. IsWellFoundedOn(R, FiniteSubsetsOf(Nat))
  BY FS_StrictSubsetOrderingWellFounded
<1>3. \A X, Y \in FiniteSubsetsOf(Nat) : X \subseteq Y /\ X # Y => <<X, Y>> \in R
  BY DEF StrictSubsetOrdering, FiniteSubsetsOf
<1>4. \A y \in T : 0 .. y \in F
  OBVIOUS
<1>5. \A X \in F : \E x \in T : X = 0 .. x
  OBVIOUS
<1> HIDE DEF R, F
<1>6. PICK X \in F : \A Y \in F : ~ (<<Y, X>> \in R)
  BY <1>1, <1>2, WFMin, Zenon
<1>7. PICK x \in T : X = 0 .. x
  BY <1>5
<1>8. ASSUME NEW y \in T PROVE x <= y
  <2>1. ~ (0 .. y \subseteq 0 .. x /\ 0 .. y # 0 .. x)
    BY <1>1, <1>3, <1>4, <1>6, <1>7
  <2> QED
    BY <2>1
<1> QED
  BY <1>8

LEMMA GreatestOf ==
  ASSUME NEW T \in SUBSET Nat, NEW limit \in Nat, \A x \in T : x <= limit, T # {}
  PROVE  \E x \in T : \A y \in T : y <= x
<1> DEFINE S == {limit - x : x \in T}
<1>1. S \in SUBSET Nat /\ S # {}
  <2>1. \A x \in T : limit - x \in Nat
    OBVIOUS
  <2>2. S \subseteq Nat
    BY <2>1
  <2>3. PICK x \in T : TRUE
    OBVIOUS
  <2>4. limit - x \in S
    BY <2>3
  <2> QED
    BY <2>2, <2>4
<1>2. PICK z \in S : \A y \in S : z <= y
  BY <1>1, LeastOf
<1>3. PICK x \in T : z = limit - x
  BY <1>2
<1>4. ASSUME NEW y \in T PROVE y <= x
  <2>1. limit - y \in S
    OBVIOUS
  <2>2. limit - x <= limit - y
    BY <1>2, <1>3, <2>1
  <2> QED
    BY <2>2
<1> QED
  BY <1>4

-----------------------------------------------------------------------------
(* Paths: the digits that lead to a node or a slot, or a whole hash.       *)

Paths == Seq(Digits)

(* p and q begin with the same n digits. *)
Same(p, q, n) == \A i \in 1 .. n : p[i] = q[i]

LEMMA HashIsPath ==
  ASSUME NEW h \in Hashes
  PROVE  h \in Paths /\ Len(h) = HashLength /\ h # Nothing
<1>1. h \in Paths /\ Len(h) = HashLength
  BY TreeAssumption DEF Hashes, Paths
<1> QED
  BY <1>1, TreeAssumption DEF Nothing

LEMMA PathParts ==
  ASSUME NEW p \in Paths
  PROVE  Len(p) \in Nat /\ \A i \in 1 .. Len(p) : p[i] \in Digits /\ p[i] \in Nat
BY TreeAssumption DEF Paths, Digits

LEMMA StartIs ==
  ASSUME NEW p \in Paths, NEW n \in 0 .. Len(p)
  PROVE  Start(p, n) \in Paths /\ Len(Start(p, n)) = n /\ Same(Start(p, n), p, n)
BY DEF Start, Paths, Same

LEMMA SamePath ==
  ASSUME NEW p \in Paths, NEW q \in Paths, Len(p) = Len(q), Same(p, q, Len(p))
  PROVE  p = q
BY DEF Paths, Same

LEMMA PrefixIs ==
  ASSUME NEW p \in Paths, NEW q \in Paths
  PROVE  IsPrefix(p, q) <=> Len(p) <= Len(q) /\ Same(p, q, Len(p))
<1>1. CASE Len(p) <= Len(q)
  <2>1. Len(p) \in 0 .. Len(q)
    BY <1>1, PathParts
  <2>2. Start(q, Len(p)) \in Paths /\ Len(Start(q, Len(p))) = Len(p) /\ Same(Start(q, Len(p)), q, Len(p))
    BY <2>1, StartIs
  <2>3. Same(p, q, Len(p)) => Same(p, Start(q, Len(p)), Len(p))
    BY <2>2 DEF Same
  <2>4. Same(p, q, Len(p)) => Start(q, Len(p)) = p
    BY <2>2, <2>3, SamePath
  <2> QED
    BY <1>1, <2>2, <2>4 DEF IsPrefix
<1>2. CASE ~ (Len(p) <= Len(q))
  BY <1>2 DEF IsPrefix
<1> QED
  BY <1>1, <1>2

(* The prefix of a prefix.                                                 *)
LEMMA PrefixOfPrefix ==
  ASSUME NEW p \in Paths, NEW q \in Paths, NEW r \in Paths, IsPrefix(p, q), IsPrefix(q, r)
  PROVE  IsPrefix(p, r)
BY PrefixIs, PathParts DEF Same

(* Two prefixes of one path. *)
LEMMA TwoPrefixes ==
  ASSUME NEW p \in Paths, NEW q \in Paths, NEW r \in Paths, IsPrefix(p, r), IsPrefix(q, r),
         Len(p) <= Len(q)
  PROVE  IsPrefix(p, q) /\ p = Start(q, Len(p)) /\ (Len(p) = Len(q) => p = q)
<1>1. IsPrefix(p, q)
  BY PrefixIs, PathParts DEF Same
<1>2. Len(p) = Len(q) => p = q
  BY <1>1, PrefixIs, SamePath
<1> QED
  BY <1>1, <1>2 DEF IsPrefix

(* The start of a path is a prefix of what the path is a prefix of. *)
LEMMA StartIsPrefix ==
  ASSUME NEW p \in Paths, NEW n \in 0 .. Len(p)
  PROVE  IsPrefix(Start(p, n), p)
BY StartIs, PathParts DEF IsPrefix

LEMMA LongestOf ==
  ASSUME NEW S \in SUBSET Paths, S # {}, NEW limit \in Nat, \A p \in S : Len(p) <= limit
  PROVE  Longest(S) \in S /\ \A q \in S : Len(q) <= Len(Longest(S))
<1> DEFINE T == {Len(p) : p \in S}
<1>1. T \in SUBSET Nat /\ T # {} /\ \A x \in T : x <= limit
  BY PathParts
<1>2. PICK x \in T : \A y \in T : y <= x
  BY <1>1, GreatestOf
<1>3. \E p \in S : \A q \in S : Len(q) <= Len(p)
  BY <1>2
<1> QED
  BY <1>3 DEF Longest

-----------------------------------------------------------------------------
(* The tree: every path to a node is one of nodes, every slot is in a node *)
(* and leads to its object, and every node but the root leads to a slot.   *)

NodesOK ==
  /\ nodes \subseteq Paths
  /\ Root \in nodes
  /\ \A n \in nodes : Len(n) < HashLength /\ \A k \in 0 .. Len(n) : Start(n, k) \in nodes

SlotsOK ==
  /\ DOMAIN slots \subseteq Paths
  /\ \A s \in DOMAIN slots :
       /\ Len(s) >= 1
       /\ s \notin nodes
       /\ Start(s, Len(s) - 1) \in nodes
       /\ slots[s] \in Hashes
       /\ IsPrefix(s, slots[s])

ObjectsOK ==
  /\ \A s \in DOMAIN slots : slots[s] \in added
  /\ \A h \in added : \E s \in DOMAIN slots : slots[s] = h

NodesUsed == \A n \in nodes \ {Root} : \E s \in DOMAIN slots : IsPrefix(n, s)

TreeInv == NodesOK /\ SlotsOK /\ ObjectsOK /\ NodesUsed

(* find(): the node is the longest one on the way, and the slot is below.  *)
LEMMA NodeFound ==
  ASSUME NodesOK, NEW h \in Hashes
  PROVE  /\ NodeOf(h) \in nodes /\ NodeOf(h) \in Paths
         /\ IsPrefix(NodeOf(h), h)
         /\ Len(NodeOf(h)) \in 0 .. HashLength - 1
         /\ \A n \in nodes : IsPrefix(n, h) => Len(n) <= Len(NodeOf(h))
<1> DEFINE S == {n \in nodes : IsPrefix(n, h)}
<1>1. S \in SUBSET Paths /\ \A p \in S : Len(p) <= HashLength
  BY PathParts, TreeAssumption DEF NodesOK
<1>2. Root \in S
  <2>1. Root \in Paths /\ Len(Root) = 0
    BY DEF Root, Paths
  <2>2. IsPrefix(Root, h)
    BY <2>1, PrefixIs, HashIsPath, TreeAssumption DEF Same
  <2> QED
    BY <2>2 DEF NodesOK
<1>3. Longest(S) \in S /\ \A q \in S : Len(q) <= Len(Longest(S))
  BY <1>1, <1>2, LongestOf, TreeAssumption
<1>4. NodeOf(h) \in S /\ \A q \in S : Len(q) <= Len(NodeOf(h))
  BY <1>3 DEF NodeOf
<1>5. Len(NodeOf(h)) \in Nat
  BY <1>1, <1>4, PathParts
<1> QED
  BY <1>1, <1>4, <1>5, TreeAssumption DEF NodesOK

LEMMA SlotFound ==
  ASSUME NodesOK, NEW h \in Hashes
  PROVE  /\ SlotOf(h) \in Paths /\ Len(SlotOf(h)) = Len(NodeOf(h)) + 1
         /\ IsPrefix(SlotOf(h), h)
         /\ SlotOf(h) = Start(h, Len(NodeOf(h)) + 1)
         /\ Start(SlotOf(h), Len(NodeOf(h))) = NodeOf(h)
         /\ IsPrefix(NodeOf(h), SlotOf(h))
         /\ SlotOf(h) \notin nodes
<1> USE NodeFound
<1>1. h \in Paths /\ Len(NodeOf(h)) + 1 \in 0 .. Len(h) /\ Len(NodeOf(h)) \in Nat
  BY HashIsPath, TreeAssumption
<1>2. SlotOf(h) \in Paths /\ Len(SlotOf(h)) = Len(NodeOf(h)) + 1 /\ IsPrefix(SlotOf(h), h)
  BY <1>1, StartIs, StartIsPrefix DEF SlotOf
<1>3. IsPrefix(NodeOf(h), SlotOf(h)) /\ Start(SlotOf(h), Len(NodeOf(h))) = NodeOf(h)
  BY <1>1, <1>2, TwoPrefixes
<1>4. SlotOf(h) \notin nodes
  BY <1>1, <1>2
<1> QED
  BY <1>2, <1>3, <1>4 DEF SlotOf

(* No other slot leads to the hash. *)
LEMMA OnlySlot ==
  ASSUME NodesOK, SlotsOK, NEW h \in Hashes, NEW s \in DOMAIN slots, IsPrefix(s, h)
  PROVE  s = SlotOf(h)
<1> DEFINE N == NodeOf(h)
           parent == Start(s, Len(s) - 1)
<1>1. /\ h \in Paths /\ s \in Paths /\ Len(s) \in Nat /\ Len(s) - 1 \in 0 .. Len(s)
      /\ parent \in nodes /\ s \notin nodes
  BY HashIsPath, PathParts DEF SlotsOK
<1>2. parent \in Paths /\ Len(parent) = Len(s) - 1 /\ IsPrefix(parent, s)
  BY <1>1, StartIs, StartIsPrefix
<1>3. IsPrefix(parent, h)
  BY <1>1, <1>2, PrefixOfPrefix
<1>4. N \in nodes /\ N \in Paths /\ IsPrefix(N, h) /\ Len(parent) <= Len(N) /\ Len(N) \in Nat
  BY <1>1, <1>3, NodeFound
<1>5. Len(s) <= Len(N) + 1
  BY <1>1, <1>2, <1>4
<1>6. ~ (Len(s) <= Len(N))
  <2>1. SUFFICES ASSUME Len(s) <= Len(N) PROVE FALSE
    OBVIOUS
  <2>2. s = Start(N, Len(s)) /\ Len(s) \in 0 .. Len(N)
    BY <1>1, <1>4, <2>1, TwoPrefixes
  <2> QED
    BY <1>1, <1>4, <2>2 DEF NodesOK
<1>7. Len(s) = Len(SlotOf(h)) /\ SlotOf(h) \in Paths /\ IsPrefix(SlotOf(h), h)
  BY <1>1, <1>4, <1>5, <1>6, SlotFound
<1> QED
  BY <1>1, <1>7, TwoPrefixes

LEMMA ObjectFound ==
  ASSUME TreeInv, NEW h \in Hashes
  PROVE  /\ (FindObject(h) # Nothing) = (h \in added)
         /\ h \in added <=> SlotOf(h) \in DOMAIN slots /\ slots[SlotOf(h)] = h
         /\ \A s \in DOMAIN slots : slots[s] = h => s = SlotOf(h)
<1>1. \A s \in DOMAIN slots : slots[s] = h => s = SlotOf(h)
  BY OnlySlot DEF TreeInv, SlotsOK
<1>2. h \in added <=> SlotOf(h) \in DOMAIN slots /\ slots[SlotOf(h)] = h
  BY <1>1 DEF TreeInv, ObjectsOK
<1>3. (FindObject(h) # Nothing) = (h \in added)
  BY <1>2, HashIsPath DEF FindObject
<1> QED
  BY <1>1, <1>2, <1>3

(* No slot is below another. *)
LEMMA SlotsApart ==
  ASSUME TreeInv, NEW s \in DOMAIN slots, NEW t \in DOMAIN slots, IsPrefix(s, t)
  PROVE  s = t
<1>1. slots[t] \in Hashes /\ IsPrefix(t, slots[t]) /\ slots[t] \in Paths /\ s \in Paths /\ t \in Paths
  BY HashIsPath DEF TreeInv, SlotsOK
<1>2. IsPrefix(s, slots[t])
  BY <1>1, PrefixOfPrefix
<1> QED
  BY <1>1, <1>2, OnlySlot DEF TreeInv

-----------------------------------------------------------------------------
(* add(), to an empty slot.                                                *)
LEMMA AddToEmptySlot ==
  ASSUME TreeInv, NEW h \in Hashes, SlotOf(h) \notin DOMAIN slots,
         slots' = With(slots, [s \in {SlotOf(h)} |-> h]),
         nodes' = nodes, added' = added \cup {h}
  PROVE  TreeInv'
<1> DEFINE slot == SlotOf(h)
<1>1. /\ DOMAIN slots' = DOMAIN slots \cup {slot}
      /\ slots'[slot] = h
      /\ \A s \in DOMAIN slots : slots'[s] = slots[s]
  BY DEF With
<1>2. /\ slot \in Paths /\ Len(slot) >= 1 /\ slot \notin nodes
      /\ Start(slot, Len(slot) - 1) \in nodes /\ IsPrefix(slot, h)
  BY SlotFound, NodeFound DEF TreeInv
<1> HIDE DEF slot
<1>3. NodesOK'
  BY DEF TreeInv, NodesOK
<1>4. SlotsOK'
  BY <1>1, <1>2 DEF TreeInv, SlotsOK
<1>5. ObjectsOK'
  BY <1>1 DEF TreeInv, ObjectsOK
<1>6. NodesUsed'
  BY <1>1 DEF TreeInv, NodesUsed
<1> QED
  BY <1>3, <1>4, <1>5, <1>6 DEF TreeInv

(* Two hashes that share a slot: the first digit where they differ.        *)
Starts(h) == {Start(h, n) : n \in 0 .. HashLength}

LEMMA FirstDifference ==
  ASSUME NEW h \in Hashes, NEW other \in Hashes, h # other, NEW slot \in Paths,
         IsPrefix(slot, h), IsPrefix(slot, other),
         NEW common, common = Longest(Starts(h) \cap Starts(other))
  PROVE  /\ common \in Paths /\ IsPrefix(common, h) /\ IsPrefix(common, other)
         /\ IsPrefix(slot, common)
         /\ Len(slot) <= Len(common) /\ Len(common) < HashLength
         /\ h[Len(common) + 1] # other[Len(common) + 1]
<1> DEFINE S == Starts(h) \cap Starts(other)
<1>1. /\ h \in Paths /\ other \in Paths /\ Len(h) = HashLength /\ Len(other) = HashLength
      /\ HashLength \in Nat
  BY HashIsPath, TreeAssumption
<1>2. \A n \in 0 .. HashLength :
        /\ Start(h, n) \in Paths /\ Len(Start(h, n)) = n /\ IsPrefix(Start(h, n), h)
        /\ Start(other, n) \in Paths /\ IsPrefix(Start(other, n), other)
  BY <1>1, StartIs, StartIsPrefix
<1>3. \A p \in S : p \in Paths /\ Len(p) <= HashLength /\ IsPrefix(p, h) /\ IsPrefix(p, other)
  BY <1>2 DEF Starts
<1>4. \A p \in Paths : IsPrefix(p, h) /\ IsPrefix(p, other) => p \in S
  <2>1. ASSUME NEW p \in Paths, IsPrefix(p, h), IsPrefix(p, other) PROVE p \in S
    <3>1. p = Start(h, Len(p)) /\ p = Start(other, Len(p)) /\ Len(p) \in 0 .. HashLength
      BY <1>1, <2>1, PathParts DEF IsPrefix
    <3> QED
      BY <3>1 DEF Starts
  <2> QED
    BY <2>1
<1>5. slot \in S
  BY <1>4
<1> HIDE DEF S
<1>6. common \in S /\ \A q \in S : Len(q) <= Len(common)
  BY <1>1, <1>3, <1>5, LongestOf DEF S
<1>7. /\ common \in Paths /\ Len(common) \in 0 .. HashLength /\ IsPrefix(common, h)
      /\ IsPrefix(common, other)
      /\ Same(common, h, Len(common)) /\ Same(common, other, Len(common))
  BY <1>1, <1>3, <1>6, PrefixIs, PathParts
<1>8. Len(common) # HashLength
  BY <1>1, <1>7, SamePath
<1>9. h[Len(common) + 1] # other[Len(common) + 1]
  <2>1. SUFFICES ASSUME h[Len(common) + 1] = other[Len(common) + 1] PROVE FALSE
    OBVIOUS
  <2>2. PICK k \in Nat : k = Len(common) /\ k + 1 \in 0 .. HashLength
    BY <1>1, <1>7, <1>8
  <2>3. PICK longer \in Paths : longer = Start(h, k + 1)
    BY <1>2, <2>2
  <2>4. Len(longer) = k + 1 /\ Same(longer, h, k + 1) /\ IsPrefix(longer, h)
    BY <1>1, <1>2, <2>2, <2>3, StartIs
  <2>5. Same(longer, other, k + 1)
    <3>1. \A i \in 1 .. k + 1 : longer[i] = h[i]
      BY <2>4 DEF Same
    <3>2. \A i \in 1 .. k : h[i] = other[i]
      BY <1>7, <2>2 DEF Same
    <3>3. \A i \in 1 .. k + 1 : i \in 1 .. k \/ i = k + 1
      BY <2>2
    <3>4. h[k + 1] = other[k + 1]
      BY <2>1, <2>2
    <3> QED
      BY <3>1, <3>2, <3>3, <3>4 DEF Same
  <2>6. longer \in S
    BY <1>1, <1>4, <2>2, <2>4, <2>5, PrefixIs
  <2>7. Len(longer) <= Len(common)
    BY <1>6, <2>6
  <2> QED
    BY <2>2, <2>4, <2>7
<1>10. Len(slot) <= Len(common) /\ Len(common) < HashLength
  <2>1. Len(slot) <= Len(common)
    BY <1>5, <1>6
  <2>2. Len(common) < HashLength
    BY <1>1, <1>7, <1>8
  <2> QED
    BY <2>1, <2>2
<1>11. IsPrefix(slot, common)
  BY <1>1, <1>7, <1>10, TwoPrefixes
<1> QED
  BY <1>7, <1>9, <1>10, <1>11

(* add(), to a slot that another object has: both end up in two slots of   *)
(* the last of the new nodes. *)
LEMMA AddToTakenSlot ==
  ASSUME TreeInv, NEW h \in Hashes, h \notin added, SlotOf(h) \in DOMAIN slots,
         NEW other, other = slots[SlotOf(h)],
         NEW common, common = Longest(Starts(h) \cap Starts(other)),
         nodes' = nodes \cup {Start(common, n) : n \in Len(SlotOf(h)) .. Len(common)},
         slots' = With(With(Without(slots, SlotOf(h)), Entry(common, other)), Entry(common, h)),
         added' = added \cup {h}
  PROVE  TreeInv'
<1> DEFINE slot == SlotOf(h)
           k == Len(common)
           mine == Start(h, k + 1)
           its == Start(other, k + 1)
<1>1. /\ slot \in DOMAIN slots /\ slot \in Paths /\ IsPrefix(slot, h) /\ IsPrefix(slot, other)
      /\ other \in Hashes /\ other # h /\ Len(slot) = Len(NodeOf(h)) + 1
      /\ Len(NodeOf(h)) \in Nat /\ Start(slot, Len(NodeOf(h))) = NodeOf(h)
      /\ IsPrefix(NodeOf(h), slot) /\ NodeOf(h) \in nodes /\ NodeOf(h) \in Paths
  BY SlotFound, NodeFound DEF TreeInv, SlotsOK, ObjectsOK
<1>2. slot = SlotOf(other)
  BY <1>1, OnlySlot DEF TreeInv
<1> HIDE DEF slot, mine, its
<1>3. /\ common \in Paths /\ IsPrefix(common, h) /\ IsPrefix(common, other)
      /\ IsPrefix(slot, common)
      /\ Len(slot) <= k /\ k < HashLength /\ h[k + 1] # other[k + 1] /\ k \in Nat
      /\ HashLength \in Nat /\ Len(slot) \in Nat
  <2>1. /\ common \in Paths /\ IsPrefix(common, h) /\ IsPrefix(common, other)
        /\ IsPrefix(slot, common)
        /\ Len(slot) <= k /\ k < HashLength /\ h[k + 1] # other[k + 1]
    BY <1>1, FirstDifference
  <2> QED
    BY <1>1, <2>1, PathParts, TreeAssumption
<1>4. h \in Paths /\ other \in Paths /\ k + 1 \in 0 .. Len(h) /\ k + 1 \in 0 .. Len(other)
  BY <1>1, <1>3, HashIsPath
<1> USE DEF mine, its
<1>5. /\ mine \in Paths /\ Len(mine) = k + 1 /\ IsPrefix(mine, h) /\ mine[k + 1] = h[k + 1]
      /\ its \in Paths /\ Len(its) = k + 1 /\ IsPrefix(its, other) /\ its[k + 1] = other[k + 1]
  BY <1>3, <1>4, StartIs, StartIsPrefix DEF Same
<1>6. IsPrefix(common, mine) /\ IsPrefix(common, its) /\ Start(mine, k) = common /\ Start(its, k) = common
  BY <1>3, <1>4, <1>5, TwoPrefixes
<1>7. mine # its
  BY <1>3, <1>5
<1>8. /\ DOMAIN slots' = (DOMAIN slots \ {slot}) \cup {mine, its}
      /\ slots'[mine] = h /\ slots'[its] = other
      /\ \A s \in DOMAIN slots \ {slot} : s # mine /\ s # its => slots'[s] = slots[s]
  BY <1>7 DEF With, Without, Entry, slot
<1> HIDE DEF mine, its
(* The new nodes. *)
<1>9. \A n \in Len(slot) .. k :
        /\ Start(common, n) \in Paths /\ Len(Start(common, n)) = n
        /\ IsPrefix(Start(common, n), common) /\ IsPrefix(slot, Start(common, n))
        /\ \A j \in 0 .. n : Start(Start(common, n), j) = Start(common, j)
  <2>1. TAKE n \in Len(slot) .. k
  <2>2. n \in 0 .. k /\ Len(slot) \in Nat
    BY <1>1, <1>3
  <2>3. /\ Start(common, n) \in Paths /\ Len(Start(common, n)) = n
        /\ IsPrefix(Start(common, n), common)
    BY <1>3, <2>2, StartIs, StartIsPrefix
  <2>4. IsPrefix(slot, Start(common, n))
    BY <1>1, <1>3, <2>2, <2>3, TwoPrefixes
  <2>5. ASSUME NEW j \in 0 .. n PROVE Start(Start(common, n), j) = Start(common, j)
    <3>1. /\ Start(Start(common, n), j) \in Paths /\ Len(Start(Start(common, n), j)) = j
          /\ IsPrefix(Start(Start(common, n), j), Start(common, n))
      BY <2>3, <2>5, StartIs, StartIsPrefix
    <3>2. IsPrefix(Start(Start(common, n), j), common)
      BY <1>3, <2>3, <3>1, PrefixOfPrefix
    <3> QED
      BY <3>1, <3>2 DEF IsPrefix
  <2> QED
    BY <2>3, <2>4, <2>5
<1>10. \A j \in 0 .. k : j < Len(slot) => Start(common, j) \in nodes
  <2>1. ASSUME NEW j \in 0 .. k, j < Len(slot) PROVE Start(common, j) \in nodes
    <3>1. j \in 0 .. Len(NodeOf(h)) /\ IsPrefix(NodeOf(h), common)
      BY <1>1, <1>3, <2>1, PrefixOfPrefix
    <3>2. /\ Start(NodeOf(h), j) \in Paths /\ Len(Start(NodeOf(h), j)) = j
          /\ IsPrefix(Start(NodeOf(h), j), NodeOf(h))
      BY <1>1, <3>1, StartIs, StartIsPrefix
    <3>3. IsPrefix(Start(NodeOf(h), j), common)
      BY <1>1, <1>3, <3>1, <3>2, PrefixOfPrefix
    <3>4. Start(common, j) = Start(NodeOf(h), j)
      BY <3>2, <3>3 DEF IsPrefix
    <3> QED
      BY <1>1, <3>1, <3>4 DEF TreeInv, NodesOK
  <2> QED
    BY <2>1
<1>11. nodes' = nodes \cup {Start(common, n) : n \in Len(slot) .. k}
  BY DEF slot
<1>12. NodesOK'
  <2>1. ASSUME NEW n \in Len(slot) .. k
        PROVE  \A j \in 0 .. n : Start(Start(common, n), j) \in nodes'
    <3>1. TAKE j \in 0 .. n
    <3>2. Start(Start(common, n), j) = Start(common, j)
      BY <1>9
    <3>5. j \in 0 .. k
      BY <1>3, <2>1
    <3>3. CASE j < Len(slot)
      BY <1>10, <1>11, <3>2, <3>3, <3>5
    <3>4. CASE ~ (j < Len(slot))
      <4>1. j \in Len(slot) .. k
        BY <1>3, <3>4, <3>5
      <4> QED
        BY <1>11, <3>2, <4>1
    <3> QED
      BY <3>3, <3>4
  <2>2. \A n \in Len(slot) .. k : Start(common, n) \in Paths /\ Len(Start(common, n)) = n /\ n < HashLength
    <3>1. \A n \in Len(slot) .. k : n < HashLength
      BY <1>3
    <3> QED
      BY <1>9, <3>1
  <2>3. nodes' \subseteq Paths /\ Root \in nodes'
    BY <1>11, <2>2 DEF TreeInv, NodesOK
  <2>4. ASSUME NEW p \in nodes'
        PROVE  Len(p) < HashLength /\ \A j \in 0 .. Len(p) : Start(p, j) \in nodes'
    <3>1. CASE p \in nodes
      BY <1>11, <3>1 DEF TreeInv, NodesOK
    <3>2. CASE p \notin nodes
      <4>1. PICK n \in Len(slot) .. k : p = Start(common, n)
        BY <1>11, <2>4, <3>2
      <4>2. Len(p) = n /\ n < HashLength
        BY <2>2, <4>1
      <4>3. \A j \in 0 .. n : Start(p, j) \in nodes'
        BY <2>1, <4>1
      <4> QED
        BY <4>2, <4>3
    <3> QED
      BY <3>1, <3>2
  <2> QED
    BY <2>3, <2>4 DEF NodesOK
<1>13. SlotsOK'
  <2>1. ASSUME NEW s \in DOMAIN slots, s # slot PROVE s \notin nodes'
    <3>1. s \notin nodes /\ s \in Paths
      BY DEF TreeInv, SlotsOK
    <3>2. ASSUME NEW n \in Len(slot) .. k, s = Start(common, n) PROVE FALSE
      BY <1>1, <1>9, <2>1, <3>2, SlotsApart
    <3> QED
      BY <1>11, <3>1, <3>2
  <2>2. ASSUME NEW p \in {mine, its}
        PROVE  /\ p \in Paths /\ Len(p) >= 1 /\ p \notin nodes' /\ Start(p, Len(p) - 1) \in nodes'
    <3>1. p \in Paths /\ Len(p) = k + 1 /\ Start(p, k) = common
      BY <1>5, <1>6
    <3>2. p \notin nodes
      <4>1. Len(NodeOf(other)) = Len(NodeOf(h))
        BY <1>1, <1>2, SlotFound, NodeFound DEF TreeInv, slot
      <4>2. \A n \in nodes : IsPrefix(n, h) \/ IsPrefix(n, other) => Len(n) <= Len(NodeOf(h))
        BY <1>1, <4>1, NodeFound DEF TreeInv
      <4> QED
        BY <1>1, <1>3, <1>5, <3>1, <4>2
    <3>3. \A n \in Len(slot) .. k : Start(common, n) # p
      <4>1. TAKE n \in Len(slot) .. k
      <4>2. Len(Start(common, n)) = n
        BY <1>9
      <4>3. n <= k /\ n \in Int
        BY <1>3
      <4> QED
        BY <1>3, <3>1, <4>2, <4>3
    <3>4. common \in nodes'
      <4>1. k \in Len(slot) .. k
        BY <1>1, <1>3
      <4>2. Start(common, k) = common
        BY <1>6, PrefixIs, <1>3 DEF Start, Paths
      <4> QED
        BY <1>11, <4>1, <4>2
    <3>5. Len(p) - 1 = k
      BY <1>3, <3>1
    <3> QED
      <4>1. p \notin nodes'
        BY <1>11, <3>2, <3>3
      <4>2. Start(p, Len(p) - 1) \in nodes'
        BY <3>1, <3>4, <3>5
      <4>3. Len(p) >= 1
        BY <1>3, <3>1
      <4> QED
        BY <3>1, <4>1, <4>2, <4>3
  <2>3. ASSUME NEW s \in DOMAIN slots, s # slot
        PROVE  /\ Len(s) >= 1 /\ Start(s, Len(s) - 1) \in nodes' /\ s \in Paths
               /\ slots[s] \in Hashes /\ IsPrefix(s, slots[s])
    BY <1>11 DEF TreeInv, SlotsOK
  <2>4. ASSUME NEW s \in DOMAIN slots'
        PROVE  /\ s \in Paths /\ Len(s) >= 1 /\ s \notin nodes' /\ Start(s, Len(s) - 1) \in nodes'
               /\ slots'[s] \in Hashes /\ IsPrefix(s, slots'[s])
    <3>1. CASE s = mine
      BY <1>5, <1>8, <2>2, <3>1
    <3>2. CASE s = its
      BY <1>1, <1>5, <1>8, <2>2, <3>2
    <3>3. CASE s # mine /\ s # its
      BY <1>8, <2>1, <2>3, <3>3
    <3> QED
      BY <3>1, <3>2, <3>3
  <2> QED
    BY <2>4 DEF SlotsOK
<1>14. ObjectsOK'
  <2>1. \A s \in DOMAIN slots' : slots'[s] \in added'
    BY <1>1, <1>8 DEF TreeInv, ObjectsOK, slot
  <2>2. ASSUME NEW g \in added' PROVE \E s \in DOMAIN slots' : slots'[s] = g
    <3>1. CASE g = h
      BY <1>8, <3>1
    <3>2. CASE g = other
      BY <1>8, <3>2
    <3>3. CASE g # h /\ g # other
      <4>1. PICK s \in DOMAIN slots : slots[s] = g
        BY <3>3 DEF TreeInv, ObjectsOK
      <4>2. s # slot
        BY <3>3, <4>1 DEF slot
      <4>3. s # mine /\ s # its
        BY <1>1, <1>2, <1>5, <4>2, OnlySlot DEF TreeInv, slot
      <4> QED
        BY <1>8, <4>1, <4>2, <4>3
    <3> QED
      BY <3>1, <3>2, <3>3
  <2> QED
    BY <2>1, <2>2 DEF ObjectsOK
<1>15. NodesUsed'
  <2>1. ASSUME NEW p \in nodes' \ {Root} PROVE \E s \in DOMAIN slots' : IsPrefix(p, s)
    <3>1. CASE p \in nodes
      <4>1. PICK s \in DOMAIN slots : IsPrefix(p, s)
        BY <2>1, <3>1 DEF TreeInv, NodesUsed
      <4>2. CASE s # slot
        BY <1>8, <4>1, <4>2
      <4>3. CASE s = slot
        <5>1. IsPrefix(slot, mine) /\ p \in Paths
          BY <1>1, <1>3, <1>5, <1>6, <3>1, PrefixOfPrefix DEF TreeInv, NodesOK
        <5> QED
          BY <1>1, <1>5, <1>8, <4>1, <4>3, <5>1, PrefixOfPrefix
      <4> QED
        BY <4>2, <4>3
    <3>2. CASE p \notin nodes
      <4>1. PICK n \in Len(slot) .. k : p = Start(common, n)
        BY <1>11, <3>2
      <4>2. IsPrefix(p, mine)
        BY <1>3, <1>5, <1>6, <1>9, <4>1, PrefixOfPrefix
      <4> QED
        BY <1>8, <4>2
    <3> QED
      BY <3>1, <3>2
  <2> QED
    BY <2>1 DEF NodesUsed
<1> QED
  BY <1>12, <1>13, <1>14, <1>15 DEF TreeInv

LEMMA AddKeeps ==
  ASSUME TreeInv, NEW h \in Hashes, AddObject(h)
  PROVE  TreeInv'
<1>1. CASE FindObject(h) # Nothing
  BY <1>1 DEF AddObject, treeVars, TreeInv, NodesOK, SlotsOK, ObjectsOK, NodesUsed
<1>2. CASE FindObject(h) = Nothing /\ SlotOf(h) \notin DOMAIN slots
  BY <1>2, AddToEmptySlot DEF AddObject
<1>3. CASE FindObject(h) = Nothing /\ SlotOf(h) \in DOMAIN slots
  <2>1. h \notin added
    BY <1>3, ObjectFound
  <2>2. PICK other : other = slots[SlotOf(h)]
    OBVIOUS
  <2>3. PICK common : common = Longest(Starts(h) \cap Starts(other))
    OBVIOUS
  <2>4. /\ nodes' = nodes \cup {Start(common, n) : n \in Len(SlotOf(h)) .. Len(common)}
        /\ slots' = With(With(Without(slots, SlotOf(h)), Entry(common, other)), Entry(common, h))
        /\ added' = added \cup {h}
    <3>1. common = Longest({Start(h, n) : n \in 0 .. HashLength}
                           \cap {Start(slots[SlotOf(h)], n) : n \in 0 .. HashLength})
      BY <2>2, <2>3 DEF Starts
    <3> QED
      BY <1>3, <2>2, <3>1, Zenon DEF AddObject
  <2> QED
    BY <1>3, <2>1, <2>2, <2>3, <2>4, AddToTakenSlot
<1> QED
  BY <1>1, <1>2, <1>3

-----------------------------------------------------------------------------
(* remove(): the nodes that are left are the root and those on the way to  *)
(* an object.                                                              *)
LEMMA RemoveKeeps ==
  ASSUME TreeInv, NEW h \in Hashes, RemoveObject(h)
  PROVE  TreeInv'
<1> DEFINE slot == SlotOf(h)
           taken == Without(slots, slot)
<1>1. CASE FindObject(h) = Nothing
  BY <1>1 DEF RemoveObject, treeVars, TreeInv, NodesOK, SlotsOK, ObjectsOK, NodesUsed
<1>2. CASE FindObject(h) # Nothing
  <2>1. /\ h \in added /\ slot \in DOMAIN slots /\ slots[slot] = h
        /\ \A s \in DOMAIN slots : slots[s] = h => s = slot
    BY <1>2, ObjectFound
  <2>2. added' = added \ {h} /\ slots' = taken /\ nodes' = LeftOf(h, taken)
    BY <1>2 DEF RemoveObject
  <2>3. /\ DOMAIN taken = DOMAIN slots \ {slot}
        /\ \A s \in DOMAIN slots \ {slot} : taken[s] = slots[s]
    BY DEF Without
  <2>4. slot \in Paths /\ IsPrefix(slot, h) /\ h \in Paths
    BY SlotFound, HashIsPath DEF TreeInv
  <2> HIDE DEF slot, taken
  <2>5. nodes' \subseteq nodes
    BY <2>2 DEF LeftOf
  <2>6. \A n \in nodes' \ {Root} : \E s \in DOMAIN taken : IsPrefix(n, s)
    <3>1. TAKE n \in nodes' \ {Root}
    <3>2. n \in nodes /\ n \in Paths
      BY <2>5 DEF TreeInv, NodesOK
    <3>3. CASE ~ IsPrefix(n, h)
      <4>1. PICK s \in DOMAIN slots : IsPrefix(n, s)
        BY <3>2 DEF TreeInv, NodesUsed
      <4>2. s # slot
        BY <2>4, <3>2, <3>3, <4>1, PrefixOfPrefix
      <4> QED
        BY <2>3, <4>1, <4>2
    <3>4. ASSUME NEW m \in nodes, IsPrefix(n, m), IsUsed(m, {}, taken)
          PROVE  \E s \in DOMAIN taken : IsPrefix(n, s)
      <4>1. PICK s \in DOMAIN taken : IsPrefix(m, s)
        BY <3>4 DEF IsUsed
      <4>2. m \in Paths /\ s \in Paths
        BY <2>3, <4>1 DEF TreeInv, NodesOK, SlotsOK
      <4> QED
        BY <3>2, <3>4, <4>1, <4>2, PrefixOfPrefix
    <3> QED
      BY <2>2, <3>1, <3>3, <3>4 DEF LeftOf
  <2>7. \A n \in nodes : (\E s \in DOMAIN taken : IsPrefix(n, s)) => n \in nodes'
    <3>1. SUFFICES ASSUME NEW n \in nodes, NEW s \in DOMAIN taken, IsPrefix(n, s)
                   PROVE  n \in nodes'
      OBVIOUS
    <3>2. PICK m : m = Start(s, Len(s) - 1)
      OBVIOUS
    <3>3. /\ s \in Paths /\ Len(s) \in Nat /\ Len(s) - 1 \in 0 .. Len(s) /\ s \notin nodes
          /\ m \in nodes /\ n \in Paths /\ Len(n) \in Nat
      BY <2>3, <3>2, PathParts DEF TreeInv, NodesOK, SlotsOK
    <3>4. m \in Paths /\ Len(m) = Len(s) - 1 /\ IsPrefix(m, s)
      BY <3>2, <3>3, StartIs, StartIsPrefix
    <3>5. IsUsed(m, {}, taken)
      <4>1. Len(s) = Len(m) + 1 /\ s # m
        BY <3>3, <3>4
      <4> QED
        BY <3>1, <3>4, <4>1 DEF IsUsed
    <3>6. Len(n) <= Len(m)
      <4>1. Len(n) <= Len(s)
        BY <3>1 DEF IsPrefix
      <4>2. Len(n) # Len(s)
        <5>1. IsPrefix(s, s)
          BY <3>3, PrefixIs DEF Same
        <5> QED
          BY <3>1, <3>3, <5>1, TwoPrefixes
      <4> QED
        BY <3>3, <3>4, <4>1, <4>2
    <3>7. IsPrefix(n, m)
      BY <3>1, <3>3, <3>4, <3>6, TwoPrefixes
    <3> QED
      BY <2>2, <3>3, <3>5, <3>7 DEF LeftOf
  <2>8. NodesOK'
    <3>1. Root \in nodes'
      BY <2>2 DEF LeftOf, TreeInv, NodesOK
    <3>2. ASSUME NEW n \in nodes', NEW k \in 0 .. Len(n) PROVE Start(n, k) \in nodes'
      <4>1. n \in Paths /\ Start(n, k) \in nodes /\ Start(n, k) \in Paths /\ IsPrefix(Start(n, k), n)
        BY <2>5, <3>2, StartIs, StartIsPrefix DEF TreeInv, NodesOK
      <4>2. CASE n = Root
        <5>1. Start(n, k) = Root
          BY <3>2, <4>1, <4>2, StartIs, PathParts DEF Paths, Root
        <5> QED
          BY <3>1, <5>1
      <4>3. CASE n # Root
        <5>1. PICK s \in DOMAIN taken : IsPrefix(n, s)
          BY <2>6, <3>2, <4>3
        <5>2. s \in Paths
          BY <2>3, <5>1 DEF TreeInv, SlotsOK
        <5> QED
          BY <2>7, <4>1, <5>1, <5>2, PrefixOfPrefix
      <4> QED
        BY <4>2, <4>3
    <3> QED
      BY <2>5, <3>1, <3>2 DEF TreeInv, NodesOK
  <2>9. SlotsOK'
    <3>1. ASSUME NEW s \in DOMAIN taken
          PROVE  /\ s \in Paths /\ Len(s) >= 1 /\ s \notin nodes' /\ Start(s, Len(s) - 1) \in nodes'
                 /\ taken[s] \in Hashes /\ IsPrefix(s, taken[s])
      <4>1. /\ s \in Paths /\ Len(s) >= 1 /\ s \notin nodes /\ Start(s, Len(s) - 1) \in nodes
            /\ taken[s] \in Hashes /\ IsPrefix(s, taken[s])
        BY <2>3, <3>1 DEF TreeInv, SlotsOK
      <4>2. IsPrefix(Start(s, Len(s) - 1), s)
        BY <4>1, StartIsPrefix, PathParts
      <4> QED
        BY <2>5, <2>7, <3>1, <4>1, <4>2
    <3> QED
      BY <2>2, <3>1 DEF SlotsOK
  <2>10. ObjectsOK'
    BY <2>1, <2>2, <2>3 DEF TreeInv, ObjectsOK
  <2>11. NodesUsed'
    BY <2>2, <2>6 DEF NodesUsed
  <2> QED
    BY <2>8, <2>9, <2>10, <2>11 DEF TreeInv
<1> QED
  BY <1>1, <1>2

LEMMA TreeInitially ==
  ASSUME TreeInit
  PROVE  TreeInv
<1>1. Root \in Paths /\ Len(Root) = 0 /\ \A k \in 0 .. 0 : Start(Root, k) = Root
  BY DEF Root, Paths, Start
<1>2. DOMAIN slots = {}
  BY DEF TreeInit
<1>3. NodesOK
  BY <1>1, TreeAssumption DEF TreeInit, NodesOK
<1> QED
  BY <1>2, <1>3 DEF TreeInit, TreeInv, SlotsOK, ObjectsOK, NodesUsed

LEMMA TreeSteps ==
  ASSUME TreeInv, [TreeNext]_treeVars
  PROVE  TreeInv'
<1>1. CASE UNCHANGED treeVars
  BY <1>1 DEF treeVars, TreeInv, NodesOK, SlotsOK, ObjectsOK, NodesUsed
<1>2. CASE TreeNext
  BY <1>2, AddKeeps, RemoveKeeps DEF TreeNext
<1> QED
  BY <1>1, <1>2

-----------------------------------------------------------------------------
(* The order of the hashes.                                                *)

LEMMA BeforeIs ==
  ASSUME NEW p \in Paths, NEW q \in Paths
  PROVE  Before(p, q) <=> \E i \in 1 .. Len(p) : i <= Len(q) /\ Same(p, q, i - 1) /\ p[i] < q[i]
<1>1. ASSUME NEW i \in 1 .. Len(p), i <= Len(q)
      PROVE  (Start(p, i - 1) = Start(q, i - 1)) <=> Same(p, q, i - 1)
  <2>1. i - 1 \in 0 .. Len(p) /\ i - 1 \in 0 .. Len(q)
    BY <1>1, PathParts
  <2>2. PICK n \in Nat : n = i - 1
    BY <2>1
  <2>3. /\ Start(p, n) \in Paths /\ Len(Start(p, n)) = n /\ Same(Start(p, n), p, n)
        /\ Start(q, n) \in Paths /\ Len(Start(q, n)) = n /\ Same(Start(q, n), q, n)
    BY <2>1, <2>2, StartIs
  <2>4. Same(p, q, n) => Start(p, n) = Start(q, n)
    <3>1. Same(p, q, n) => Same(Start(p, n), Start(q, n), n)
      BY <2>3 DEF Same
    <3> QED
      BY <2>3, <3>1, SamePath
  <2>5. Start(p, n) = Start(q, n) => Same(p, q, n)
    BY <2>3 DEF Same
  <2> QED
    BY <2>2, <2>4, <2>5
<1> QED
  BY <1>1 DEF Before

(* One is before the other at a digit. *)
BeforeAt(p, q, i) == Same(p, q, i - 1) /\ p[i] < q[i]

LEMMA BeforeHash ==
  ASSUME NEW g \in Hashes, NEW h \in Hashes
  PROVE  Before(g, h) <=> \E i \in 1 .. HashLength : BeforeAt(g, h, i)
BY BeforeIs, HashIsPath, TreeAssumption DEF BeforeAt

LEMMA DigitIs ==
  ASSUME NEW h \in Hashes, NEW i \in 1 .. HashLength
  PROVE  h[i] \in Nat
BY TreeAssumption DEF Hashes, Digits

LEMMA BeforeOneWay ==
  ASSUME NEW g \in Hashes, NEW h \in Hashes, Before(g, h)
  PROVE  ~ Before(h, g)
<1> SUFFICES ASSUME Before(h, g) PROVE FALSE
  OBVIOUS
<1>1. PICK i \in 1 .. HashLength : BeforeAt(g, h, i)
  BY BeforeHash
<1>2. PICK j \in 1 .. HashLength : BeforeAt(h, g, j)
  BY BeforeHash
<1>3. i \in Nat /\ j \in Nat /\ (j < i => j \in 1 .. i - 1) /\ (i < j => i \in 1 .. j - 1)
  OBVIOUS
<1>4. g[i] \in Nat /\ h[i] \in Nat /\ g[j] \in Nat /\ h[j] \in Nat
  BY DigitIs
<1>5. ~ (j < i)
  BY <1>1, <1>2, <1>3, <1>4 DEF BeforeAt, Same
<1>6. ~ (i < j)
  BY <1>1, <1>2, <1>3, <1>4 DEF BeforeAt, Same
<1>7. i = j
  BY <1>3, <1>5, <1>6
<1> QED
  BY <1>1, <1>2, <1>4, <1>7 DEF BeforeAt

(* Different paths, neither a prefix of the other, differ at a first digit. *)
LEMMA FirstDigit ==
  ASSUME NEW p \in Paths, NEW q \in Paths, ~ IsPrefix(p, q), ~ IsPrefix(q, p)
  PROVE  \E i \in Nat : /\ i >= 1 /\ i <= Len(p) /\ i <= Len(q)
                        /\ (BeforeAt(p, q, i) \/ BeforeAt(q, p, i))
<1> DEFINE T == {i \in Nat : i >= 1 /\ i <= Len(p) /\ i <= Len(q) /\ p[i] # q[i]}
<1>1. Len(p) \in Nat /\ Len(q) \in Nat
  BY PathParts
<1>2. T # {}
  <2>1. CASE Len(p) <= Len(q)
    <3>1. ~ Same(p, q, Len(p))
      BY <2>1, PrefixIs
    <3>2. PICK i \in 1 .. Len(p) : p[i] # q[i]
      BY <3>1 DEF Same
    <3>3. i \in T
      BY <1>1, <2>1, <3>2
    <3> QED
      BY <3>3
  <2>2. CASE ~ (Len(p) <= Len(q))
    <3>1. ~ Same(q, p, Len(q))
      BY <1>1, <2>2, PrefixIs
    <3>2. PICK i \in 1 .. Len(q) : p[i] # q[i]
      BY <3>1 DEF Same
    <3>3. i \in T
      BY <1>1, <2>2, <3>2
    <3> QED
      BY <3>3
  <2> QED
    BY <2>1, <2>2
<1>3. PICK i \in T : \A j \in T : i <= j
  BY <1>2, LeastOf
<1>4. Same(p, q, i - 1) /\ Same(q, p, i - 1)
  <2>1. ASSUME NEW j \in 1 .. i - 1 PROVE p[j] = q[j]
    <3>1. j \in Nat /\ j >= 1 /\ j <= Len(p) /\ j <= Len(q) /\ ~ (i <= j)
      BY <1>1, <2>1
    <3> QED
      BY <1>3, <3>1
  <2> QED
    BY <2>1 DEF Same
<1>5. p[i] \in Nat /\ q[i] \in Nat /\ p[i] # q[i]
  <2>1. i \in 1 .. Len(p) /\ i \in 1 .. Len(q)
    BY <1>1
  <2> QED
    BY <2>1, PathParts
<1> QED
  BY <1>4, <1>5 DEF BeforeAt

LEMMA BeforeTotal ==
  ASSUME NEW g \in Hashes, NEW h \in Hashes, g # h
  PROVE  Before(g, h) \/ Before(h, g)
<1>1. g \in Paths /\ h \in Paths /\ Len(g) = HashLength /\ Len(h) = HashLength /\ HashLength \in Nat
  BY HashIsPath, TreeAssumption
<1>2. ~ IsPrefix(g, h) /\ ~ IsPrefix(h, g)
  BY <1>1, PrefixIs, SamePath
<1>3. PICK i \in Nat : i >= 1 /\ i <= HashLength /\ (BeforeAt(g, h, i) \/ BeforeAt(h, g, i))
  BY <1>1, <1>2, FirstDigit
<1>4. i \in 1 .. HashLength
  BY <1>1, <1>3
<1> QED
  BY <1>3, <1>4, BeforeHash

(* The smallest of some hashes: the one that no other is before at any     *)
(* digit, found digit by digit. *)
NoneBefore(S, h, n) == \A g \in S : \A i \in 1 .. n : ~ BeforeAt(g, h, i)

LEMMA SmallestExists ==
  ASSUME NEW S \in SUBSET Hashes, S # {}
  PROVE  \E h \in S : \A g \in S \ {h} : Before(h, g)
<1> DEFINE T == {n \in 0 .. HashLength : \E h \in S : NoneBefore(S, h, n)}
<1> USE TreeAssumption
<1>1. 0 \in T
  <2>1. PICK h \in S : TRUE
    OBVIOUS
  <2>2. NoneBefore(S, h, 0)
    BY DEF NoneBefore
  <2> QED
    BY <2>2
<1>2. T \in SUBSET Nat /\ \A n \in T : n <= HashLength
  OBVIOUS
<1>3. PICK n \in T : \A m \in T : m <= n
  <2>1. HashLength \in Nat
    OBVIOUS
  <2> QED
    BY <1>1, <1>2, <2>1, GreatestOf
<1>4. PICK h \in S : NoneBefore(S, h, n)
  OBVIOUS
<1>5. n = HashLength
  <2>1. SUFFICES ASSUME n # HashLength PROVE FALSE
    OBVIOUS
  <2>2. n \in Nat /\ n + 1 \in 0 .. HashLength /\ n + 1 \in 1 .. HashLength
    BY <2>1
  <2> DEFINE A == {g \in S : Same(g, h, n)}
             D == {g[n + 1] : g \in A}
  <2>3. h \in A
    BY DEF Same
  <2>4. \A g \in A : g[n + 1] \in Nat
    BY <2>2, DigitIs
  <2>5. D \in SUBSET Nat /\ D # {}
    <3>1. h[n + 1] \in D
      BY <2>3
    <3>2. D \subseteq Nat
      BY <2>4
    <3> QED
      BY <3>1, <3>2
  <2>6. PICK d \in D : \A e \in D : d <= e
    BY <2>5, LeastOf
  <2>7. PICK g \in A : d = g[n + 1]
    BY <2>6
  <2>8. g \in S /\ Same(g, h, n) /\ \A f \in A : g[n + 1] <= f[n + 1]
    BY <2>6, <2>7
  <2> HIDE DEF D
  <2>9. ASSUME NEW f \in S, NEW i \in 1 .. n + 1, BeforeAt(f, g, i) PROVE FALSE
    <3>1. CASE i = n + 1
      <4>1. \A j \in 1 .. n : f[j] = g[j] /\ g[j] = h[j]
        BY <2>2, <2>8, <2>9, <3>1 DEF BeforeAt, Same
      <4>2. f \in A
        BY <4>1 DEF Same
      <4>3. f[n + 1] < g[n + 1] /\ g[n + 1] <= f[n + 1] /\ f[n + 1] \in Nat /\ g[n + 1] \in Nat
        BY <2>4, <2>7, <2>8, <2>9, <3>1, <4>2 DEF BeforeAt
      <4> QED
        BY <4>3
    <3>2. CASE i # n + 1
      <4>1. i \in 1 .. n /\ i \in Nat
        BY <2>2, <3>2
      <4>2. g[i] = h[i] /\ \A j \in 1 .. i - 1 : j \in 1 .. n /\ g[j] = h[j]
        BY <2>2, <2>8, <4>1 DEF Same
      <4>3. BeforeAt(f, h, i)
        BY <2>9, <4>2 DEF BeforeAt, Same
      <4> QED
        BY <1>4, <2>9, <4>1, <4>3 DEF NoneBefore
    <3> QED
      BY <3>1, <3>2
  <2>10. NoneBefore(S, g, n + 1)
    BY <2>9 DEF NoneBefore
  <2>11. n + 1 \in T
    BY <2>2, <2>8, <2>10
  <2>12. n + 1 <= n
    BY <1>3, <2>11
  <2> QED
    BY <2>2, <2>12
<1>6. \A g \in S \ {h} : Before(h, g)
  <2>1. TAKE g \in S \ {h}
  <2>2. ~ Before(g, h)
    BY <1>4, <1>5, BeforeHash DEF NoneBefore
  <2> QED
    BY <2>2, BeforeTotal
<1> QED
  BY <1>6

LEMMA SmallestIs ==
  ASSUME NEW S \in SUBSET Hashes, S # {}
  PROVE  /\ Smallest(S) \in S /\ \A g \in S \ {Smallest(S)} : Before(Smallest(S), g)
         /\ \A h \in S : (\A g \in S \ {h} : Before(h, g)) => Smallest(S) = h
<1>1. Smallest(S) \in S /\ \A g \in S \ {Smallest(S)} : Before(Smallest(S), g)
  BY SmallestExists DEF Smallest
<1>2. ASSUME NEW h \in S, \A g \in S \ {h} : Before(h, g), Smallest(S) # h PROVE FALSE
  <2>1. Before(h, Smallest(S)) /\ Before(Smallest(S), h)
    BY <1>1, <1>2
  <2>2. h \in Hashes /\ Smallest(S) \in Hashes
    BY <1>1
  <2> QED
    BY <2>1, <2>2, BeforeOneWay
<1> QED
  BY <1>1, <1>2

-----------------------------------------------------------------------------
(* The order of the slots is that of their objects.                        *)

LEMMA SlotBefore ==
  ASSUME TreeInv, NEW s \in DOMAIN slots, NEW t \in DOMAIN slots, s # t
  PROVE  /\ Before(s, t) <=> Before(slots[s], slots[t])
         /\ Before(s, t) \/ Before(t, s)
         /\ slots[s] # slots[t]
<1> DEFINE g == slots[s]
           h == slots[t]
<1>1. /\ s \in Paths /\ t \in Paths /\ g \in Hashes /\ h \in Hashes /\ g \in Paths /\ h \in Paths
      /\ IsPrefix(s, g) /\ IsPrefix(t, h) /\ Len(g) = HashLength /\ Len(h) = HashLength
      /\ HashLength \in Nat /\ Len(s) \in Nat /\ Len(t) \in Nat
  BY HashIsPath, PathParts, TreeAssumption DEF TreeInv, SlotsOK
<1> HIDE DEF g, h
<1>2. Len(s) <= HashLength /\ Len(t) <= HashLength /\ Same(s, g, Len(s)) /\ Same(t, h, Len(t))
  BY <1>1, PrefixIs
<1>3. ASSUME NEW i \in Nat, i >= 1, i <= Len(s), i <= Len(t)
      PROVE  /\ BeforeAt(s, t, i) <=> BeforeAt(g, h, i)
             /\ BeforeAt(t, s, i) <=> BeforeAt(h, g, i)
  <2>1. s[i] = g[i] /\ t[i] = h[i]
    BY <1>1, <1>2, <1>3 DEF Same
  <2>2. \A j \in 1 .. i - 1 : s[j] = g[j] /\ t[j] = h[j]
    <3>1. \A j \in 1 .. i - 1 : j \in 1 .. Len(s) /\ j \in 1 .. Len(t)
      BY <1>1, <1>3
    <3> QED
      BY <1>2, <3>1 DEF Same
  <2> QED
    BY <2>1, <2>2 DEF BeforeAt, Same
<1>4. Before(s, t) => Before(g, h)
  <2>1. SUFFICES ASSUME Before(s, t) PROVE Before(g, h)
    OBVIOUS
  <2>2. PICK i \in 1 .. Len(s) : i <= Len(t) /\ BeforeAt(s, t, i)
    BY <1>1, <2>1, BeforeIs DEF BeforeAt
  <2>3. BeforeAt(g, h, i) /\ i \in 1 .. HashLength
    BY <1>1, <1>2, <1>3, <2>2
  <2> QED
    BY <1>1, <2>3, BeforeHash
<1>5. Before(t, s) => Before(h, g)
  <2>1. SUFFICES ASSUME Before(t, s) PROVE Before(h, g)
    OBVIOUS
  <2>2. PICK i \in 1 .. Len(t) : i <= Len(s) /\ BeforeAt(t, s, i)
    BY <1>1, <2>1, BeforeIs DEF BeforeAt
  <2>3. BeforeAt(h, g, i) /\ i \in 1 .. HashLength
    BY <1>1, <1>2, <1>3, <2>2
  <2> QED
    BY <1>1, <2>3, BeforeHash
<1>6. Before(s, t) \/ Before(t, s)
  <2>1. ~ IsPrefix(s, t) /\ ~ IsPrefix(t, s)
    BY SlotsApart
  <2>2. PICK i \in Nat : /\ i >= 1 /\ i <= Len(s) /\ i <= Len(t)
                         /\ (BeforeAt(s, t, i) \/ BeforeAt(t, s, i))
    BY <1>1, <2>1, FirstDigit
  <2>3. i \in 1 .. Len(s) /\ i \in 1 .. Len(t)
    BY <1>1, <2>2
  <2> QED
    BY <1>1, <2>2, <2>3, BeforeIs DEF BeforeAt
<1>7. Before(g, h) => Before(s, t)
  BY <1>1, <1>5, <1>6, BeforeOneWay
<1>8. g # h
  BY <1>1, ObjectFound DEF g, h
<1> QED
  BY <1>4, <1>6, <1>7, <1>8 DEF g, h

Objects(among) == {slots[s] : s \in among}

LEMMA FirstIs ==
  ASSUME TreeInv, NEW among \in SUBSET DOMAIN slots, among # {}
  PROVE  /\ First(among) = Smallest(Objects(among))
         /\ \A s \in among : (\A t \in among \ {s} : Before(s, t)) => First(among) = slots[s]
<1> DEFINE O == Objects(among)
           Leads(s) == \A t \in among \ {s} : Before(s, t)
<1>1. O \in SUBSET Hashes /\ O # {}
  <2>1. PICK s \in among : TRUE
    OBVIOUS
  <2>2. slots[s] \in O
    BY <2>1 DEF Objects
  <2>3. O \subseteq Hashes
    BY DEF Objects, TreeInv, SlotsOK
  <2> QED
    BY <2>2, <2>3
<1>2. \A s \in among : slots[s] \in O
  BY DEF Objects
<1>3. \A h \in O : \E s \in among : slots[s] = h
  BY DEF Objects
<1> HIDE DEF O
<1>4. PICK s \in among : slots[s] = Smallest(O)
  BY <1>1, <1>3, SmallestIs
<1>5. Leads(s)
  <2>1. TAKE t \in among \ {s}
  <2>2. slots[t] \in O \ {slots[s]}
    BY <1>2, SlotBefore
  <2>3. Before(slots[s], slots[t])
    BY <1>1, <1>4, <2>2, SmallestIs
  <2> QED
    BY <2>3, SlotBefore
<1>6. ASSUME NEW t \in among, Leads(t) PROVE t = s
  <2>1. SUFFICES ASSUME t # s PROVE FALSE
    OBVIOUS
  <2>2. Before(s, t) /\ Before(t, s)
    BY <1>5, <1>6, <2>1
  <2>3. Before(slots[s], slots[t]) /\ Before(slots[t], slots[s])
    BY <2>1, <2>2, SlotBefore
  <2>4. slots[s] \in Hashes /\ slots[t] \in Hashes
    BY <1>1, <1>2
  <2> QED
    BY <2>3, <2>4, BeforeOneWay
<1>7. First(among) = slots[s]
  <2>1. \E t \in among : Leads(t)
    BY <1>5
  <2>2. PICK t : t = CHOOSE u \in among : \A v \in among \ {u} : Before(u, v)
    OBVIOUS
  <2>3. t \in among /\ Leads(t)
    BY <2>1, <2>2
  <2> QED
    BY <1>6, <2>2, <2>3 DEF First
<1> QED
  BY <1>4, <1>6, <1>7 DEF O

-----------------------------------------------------------------------------
(* next(): the levels of the search, from a node up to the root.           *)

Candidates(hash, node, digit, n) ==
  Below(Start(node, n), IF n = Len(node) THEN digit ELSE hash[n + 1] + 1)

LEMMA SearchIs ==
  ASSUME NEW hash, NEW node, NEW digit, Len(node) \in Nat
  PROVE  /\ \/ \A n \in 0 .. Len(node) : Candidates(hash, node, digit, n) = {}
            \/ \E n \in 0 .. Len(node) :
                 /\ Candidates(hash, node, digit, n) # {}
                 /\ \A m \in 0 .. Len(node) : Candidates(hash, node, digit, m) # {} => m <= n
         /\ (\A n \in 0 .. Len(node) : Candidates(hash, node, digit, n) = {})
              => SearchFrom(hash, node, digit) = Nothing
         /\ \A n \in 0 .. Len(node) :
              /\ Candidates(hash, node, digit, n) # {}
              /\ \A m \in 0 .. Len(node) : Candidates(hash, node, digit, m) # {} => m <= n
              => SearchFrom(hash, node, digit) = First(Candidates(hash, node, digit, n))
<1> DEFINE C(n) == Candidates(hash, node, digit, n)
           levels == {n \in 0 .. Len(node) : C(n) # {}}
<1>1. SearchFrom(hash, node, digit)
        = IF levels = {} THEN Nothing ELSE First(C(CHOOSE n \in levels : \A m \in levels : m <= n))
  BY DEF SearchFrom, Candidates
<1> HIDE DEF C
<1>2. levels \in SUBSET Nat /\ \A n \in levels : n <= Len(node)
  OBVIOUS
<1>3. levels # {} => \E n \in levels : \A m \in levels : m <= n
  BY <1>2, GreatestOf
<1>4. (\A n \in 0 .. Len(node) : C(n) = {}) => SearchFrom(hash, node, digit) = Nothing
  BY <1>1
<1>5. ASSUME NEW n \in 0 .. Len(node), C(n) # {}, \A m \in 0 .. Len(node) : C(m) # {} => m <= n
      PROVE  SearchFrom(hash, node, digit) = First(C(n))
  <2>1. n \in levels /\ \A m \in levels : m <= n
    BY <1>5
  <2>2. PICK k : k = CHOOSE i \in levels : \A m \in levels : m <= i
    OBVIOUS
  <2>3. k \in levels /\ \A m \in levels : m <= k
    BY <2>1, <2>2
  <2>4. k = n
    <3>1. k <= n /\ n <= k /\ k \in Nat /\ n \in Nat
      BY <2>1, <2>3
    <3> QED
      BY <3>1
  <2> QED
    BY <1>1, <2>1, <2>2, <2>4
<1>6. \/ \A n \in 0 .. Len(node) : C(n) = {}
      \/ \E n \in 0 .. Len(node) : C(n) # {} /\ \A m \in 0 .. Len(node) : C(m) # {} => m <= n
  BY <1>3
<1> QED
  BY <1>4, <1>5, <1>6 DEF C

-----------------------------------------------------------------------------
(* From the node of a hash: at each level are the objects that first       *)
(* differ from the hash there and are greater. *)
LEMMA AtLevel ==
  ASSUME TreeInv, NEW h \in Hashes, NEW n \in 0 .. Len(NodeOf(h)), NEW s \in DOMAIN slots
  PROVE  s \in Candidates(h, NodeOf(h), h[Len(NodeOf(h)) + 1] + 1, n)
           <=> n < Len(s) /\ BeforeAt(h, slots[s], n + 1)
<1> DEFINE N == NodeOf(h)
           p == Start(N, n)
           g == slots[s]
<1>1. /\ N \in Paths /\ IsPrefix(N, h) /\ Len(N) \in 0 .. HashLength - 1 /\ h \in Paths
      /\ Len(h) = HashLength /\ HashLength \in Nat /\ n \in Nat /\ n + 1 \in 1 .. HashLength
  BY NodeFound, HashIsPath, TreeAssumption DEF TreeInv
<1>2. /\ s \in Paths /\ g \in Hashes /\ g \in Paths /\ IsPrefix(s, g) /\ Len(s) \in Nat
      /\ Same(s, g, Len(s))
  BY PrefixIs, HashIsPath, PathParts DEF TreeInv, SlotsOK
<1>3. p \in Paths /\ Len(p) = n /\ Same(p, N, n) /\ Same(N, h, Len(N))
  BY <1>1, StartIs, PrefixIs
<1>4. Same(p, h, n)
  BY <1>1, <1>3 DEF Same
<1>5. Candidates(h, N, h[Len(N) + 1] + 1, n) = Below(p, h[n + 1] + 1)
  BY DEF Candidates
<1> HIDE DEF N, p, g
<1>6. s \in Below(p, h[n + 1] + 1) <=> IsPrefix(p, s) /\ n < Len(s) /\ s[n + 1] >= h[n + 1] + 1
  BY <1>1, <1>2, <1>3 DEF Below
<1>7. ASSUME n < Len(s)
      PROVE  IsPrefix(p, s) /\ s[n + 1] >= h[n + 1] + 1 <=> BeforeAt(h, g, n + 1)
  <2>1. n + 1 \in 1 .. Len(s) /\ \A j \in 1 .. n : j \in 1 .. Len(s)
    BY <1>1, <1>2, <1>7
  <2>2. s[n + 1] = g[n + 1] /\ \A j \in 1 .. n : s[j] = g[j] /\ p[j] = h[j]
    BY <1>2, <1>4, <2>1 DEF Same
  <2>3. IsPrefix(p, s) <=> Same(p, s, n)
    BY <1>1, <1>2, <1>3, <1>7, PrefixIs
  <2>4. Same(p, s, n) <=> Same(h, g, n)
    BY <2>2 DEF Same
  <2>5. g[n + 1] \in Nat /\ h[n + 1] \in Nat
    BY <1>1, <1>2, DigitIs
  <2>6. s[n + 1] >= h[n + 1] + 1 <=> h[n + 1] < g[n + 1]
    BY <2>2, <2>5
  <2>7. n + 1 - 1 = n
    BY <1>1
  <2> QED
    BY <2>3, <2>4, <2>6, <2>7 DEF BeforeAt
<1> QED
  BY <1>5, <1>6, <1>7 DEF N, g

(* The search from the node of a hash, from the digit after that of the    *)
(* hash on: if nobody else has its slot, no greater object is overlooked,  *)
(* and the deepest level has the smallest of them.                         *)
LEMMA SearchAfter ==
  ASSUME TreeInv, NEW h \in Hashes, h \in added \/ SlotOf(h) \notin DOMAIN slots
  PROVE  SearchFrom(h, NodeOf(h), h[Len(NodeOf(h)) + 1] + 1) = Following(h)
<1> DEFINE N == NodeOf(h)
           digit == h[Len(N) + 1] + 1
           C(n) == Candidates(h, N, digit, n)
           F == {g \in added : Before(h, g)}
<1>1. /\ N \in Paths /\ IsPrefix(N, h) /\ Len(N) \in 0 .. HashLength - 1 /\ Len(N) \in Nat
      /\ h \in Paths /\ Len(h) = HashLength /\ HashLength \in Nat
      /\ \A n \in nodes : IsPrefix(n, h) => Len(n) <= Len(N)
  BY NodeFound, HashIsPath, TreeAssumption DEF TreeInv
<1>2. added \subseteq Hashes
  BY DEF TreeInv, ObjectsOK, SlotsOK
<1>3. \A n \in 0 .. Len(N) : C(n) \subseteq DOMAIN slots
  BY DEF Candidates, Below
<1>4. \A n \in 0 .. Len(N) : \A s \in DOMAIN slots :
        s \in C(n) <=> n < Len(s) /\ BeforeAt(h, slots[s], n + 1)
  BY AtLevel
<1> HIDE DEF N, digit, C
(* No level has anything else. *)
<1>5. ASSUME NEW n \in 0 .. Len(N), NEW s \in C(n) PROVE slots[s] \in F
  <2>1. s \in DOMAIN slots /\ BeforeAt(h, slots[s], n + 1) /\ slots[s] \in added
    BY <1>3, <1>4 DEF TreeInv, ObjectsOK
  <2>2. n + 1 \in 1 .. HashLength
    BY <1>1
  <2> QED
    BY <1>2, <2>1, <2>2, BeforeHash
(* Each greater object is at a level. *)
<1>6. ASSUME NEW g \in F PROVE \E n \in 0 .. Len(N) : \E s \in C(n) : slots[s] = g
  <2>1. g \in Hashes /\ Before(h, g) /\ g \in added
    BY <1>2
  <2>2. PICK s \in DOMAIN slots : slots[s] = g
    BY <2>1 DEF TreeInv, ObjectsOK
  <2>3. PICK i \in 1 .. HashLength : BeforeAt(h, g, i)
    BY <2>1, BeforeHash
  <2>4. PICK n \in Nat : n = i - 1 /\ n + 1 = i /\ n + 1 <= HashLength
    BY <1>1, <2>3
  <2>5. Same(h, g, n) /\ BeforeAt(h, g, n + 1)
    BY <2>3, <2>4 DEF BeforeAt
  <2>6. /\ s \in Paths /\ IsPrefix(s, g) /\ g \in Paths /\ Len(s) \in Nat /\ Len(s) >= 1
        /\ Same(s, g, Len(s)) /\ Start(s, Len(s) - 1) \in nodes
    BY <2>1, <2>2, PrefixIs, HashIsPath, PathParts DEF TreeInv, SlotsOK
  <2>7. n < Len(s)
    <3>1. SUFFICES ASSUME Len(s) <= n PROVE FALSE
      BY <2>4, <2>6
    <3>2. \A j \in 1 .. Len(s) : j \in 1 .. n
      BY <2>4, <2>6, <3>1
    <3>3. Same(s, h, Len(s)) /\ Len(s) <= Len(h)
      BY <1>1, <2>4, <2>5, <2>6, <3>1, <3>2 DEF Same
    <3>4. IsPrefix(s, h)
      BY <1>1, <2>6, <3>3, PrefixIs
    <3>5. s = SlotOf(h)
      BY <2>2, <3>4, OnlySlot DEF TreeInv
    <3>6. g = h
      BY <2>2, <3>5, ObjectFound
    <3> QED
      BY <2>1, <3>6, BeforeOneWay
  <2>8. n <= Len(N)
    <3>1. n \in 0 .. Len(s) /\ Len(s) - 1 \in 0 .. Len(s) /\ n \in 0 .. Len(s) - 1
      BY <2>4, <2>6, <2>7
    <3>2. PICK m : m = Start(s, Len(s) - 1)
      OBVIOUS
    <3>3. m \in nodes /\ m \in Paths /\ Len(m) = Len(s) - 1 /\ Same(m, s, Len(s) - 1)
      BY <2>6, <3>1, <3>2, StartIs
    <3>4. PICK p : p = Start(m, n)
      OBVIOUS
    <3>5. p \in nodes /\ p \in Paths /\ Len(p) = n /\ Same(p, m, n)
      BY <3>1, <3>3, <3>4, StartIs DEF TreeInv, NodesOK
    <3>6. \A j \in 1 .. n : j \in 1 .. Len(s) - 1 /\ j \in 1 .. Len(s)
      BY <2>4, <2>6, <2>7
    <3>7. Same(p, h, n)
      <4>1. \A j \in 1 .. n : p[j] = m[j] /\ m[j] = s[j] /\ s[j] = g[j] /\ h[j] = g[j]
        BY <2>5, <2>6, <3>3, <3>5, <3>6 DEF Same
      <4> QED
        BY <4>1 DEF Same
    <3>8. IsPrefix(p, h)
      BY <1>1, <2>4, <3>5, <3>7, PrefixIs
    <3> QED
      BY <1>1, <3>5, <3>8
  <2>9. n \in 0 .. Len(N)
    BY <1>1, <2>4, <2>8
  <2> QED
    BY <1>4, <2>2, <2>5, <2>7, <2>9
<1>7. CASE \A n \in 0 .. Len(N) : C(n) = {}
  <2>1. F = {}
    BY <1>6, <1>7
  <2>2. SearchFrom(h, N, digit) = Nothing
    BY <1>1, <1>7, SearchIs DEF C
  <2> QED
    BY <2>1, <2>2 DEF Following, Smallest, N, digit
<1>8. ASSUME NEW n \in 0 .. Len(N), C(n) # {}, \A m \in 0 .. Len(N) : C(m) # {} => m <= n
      PROVE  SearchFrom(h, N, digit) = Following(h)
  <2>1. SearchFrom(h, N, digit) = First(C(n))
    BY <1>1, <1>8, SearchIs DEF C
  <2>2. C(n) \in SUBSET DOMAIN slots
    BY <1>3
  <2>3. First(C(n)) = Smallest(Objects(C(n)))
    BY <1>8, <2>2, FirstIs
  <2> DEFINE O == Objects(C(n))
             first == Smallest(O)
  <2>4. O \subseteq F /\ O # {}
    BY <1>5, <1>8 DEF Objects
  <2>5. F \in SUBSET Hashes /\ O \in SUBSET Hashes /\ F # {}
    BY <1>2, <2>4
  <2>6. first \in O /\ \A g \in O \ {first} : Before(first, g)
    BY <2>4, <2>5, SmallestIs
  <2>7. PICK s \in C(n) : slots[s] = first
    BY <2>6 DEF Objects
  <2> HIDE DEF O, first, F
  <2>8. first \in Hashes /\ first \in F /\ BeforeAt(h, first, n + 1) /\ n \in Nat /\ n + 1 \in 1 .. HashLength
    BY <1>1, <1>4, <2>2, <2>4, <2>5, <2>6, <2>7
  <2>9. ASSUME NEW g \in F \ {first} PROVE Before(first, g)
    <3>0. PICK m \in 0 .. Len(N) : \E t \in C(m) : slots[t] = g
      BY <1>6 DEF F
    <3>1. PICK t \in C(m) : slots[t] = g
      BY <3>0
    <3>2. m <= n /\ m \in Nat /\ g \in Hashes
      BY <1>8, <2>5, <3>1
    <3>3. CASE m = n
      BY <2>6, <2>9, <3>1, <3>3 DEF O, Objects
    <3>4. CASE m # n
      <4>1. BeforeAt(h, g, m + 1)
        BY <1>3, <1>4, <3>1
      <4>2. m + 1 \in 1 .. n /\ m + 1 - 1 = m /\ n + 1 - 1 = n /\ m + 1 \in 1 .. HashLength
            /\ \A j \in 1 .. m : j \in 1 .. n
        BY <1>1, <2>8, <3>2, <3>4
      <4>3. first[m + 1] = h[m + 1] /\ \A j \in 1 .. m : first[j] = h[j]
        BY <2>8, <4>2 DEF BeforeAt, Same
      <4>4. BeforeAt(first, g, m + 1)
        BY <4>1, <4>2, <4>3 DEF BeforeAt, Same
      <4> QED
        BY <2>8, <3>2, <4>2, <4>4, BeforeHash
    <3> QED
      BY <3>3, <3>4
  <2>10. Smallest(F) = first
    BY <2>5, <2>8, <2>9, SmallestIs
  <2>11. Following(h) = Smallest(F)
    BY DEF Following, F
  <2> QED
    BY <2>1, <2>3, <2>10, <2>11 DEF first, O
<1>9. \/ \A n \in 0 .. Len(N) : C(n) = {}
      \/ \E n \in 0 .. Len(N) : C(n) # {} /\ \A m \in 0 .. Len(N) : C(m) # {} => m <= n
  BY <1>1, SearchIs DEF C
<1> QED
  BY <1>7, <1>8, <1>9 DEF N, digit

(* From the first slot of all. *)
LEMMA FromTheStart ==
  ASSUME TreeInv
  PROVE  FirstObject = Smallest(added)
<1>1. Root \in Paths /\ Len(Root) = 0 /\ Start(Root, 0) = Root
  BY DEF Root, Paths, Start
<1>2. Candidates(Root, Root, 0, 0) = DOMAIN slots
  <2>1. ASSUME NEW s \in DOMAIN slots PROVE IsPrefix(Root, s) /\ Len(s) > 0 /\ s[1] >= 0
    <3>1. s \in Paths /\ Len(s) >= 1 /\ Len(s) \in Nat /\ 1 \in 1 .. Len(s)
      BY PathParts DEF TreeInv, SlotsOK
    <3>2. IsPrefix(Root, s)
      BY <1>1, <3>1, PrefixIs DEF Same
    <3>3. s[1] \in Nat
      BY <3>1, PathParts
    <3> QED
      BY <3>1, <3>2, <3>3
  <2>2. Candidates(Root, Root, 0, 0) = Below(Root, 0)
    BY <1>1 DEF Candidates
  <2>3. Below(Root, 0) = {s \in DOMAIN slots : IsPrefix(Root, s) /\ Len(s) > 0 /\ s[1] >= 0}
    BY <1>1 DEF Below
  <2> QED
    BY <2>1, <2>2, <2>3
<1>3. \A n \in 0 .. Len(Root) : n = 0
  BY <1>1
<1>4. CASE DOMAIN slots = {}
  <2>1. added = {}
    BY <1>4 DEF TreeInv, ObjectsOK
  <2>2. \A n \in 0 .. Len(Root) : Candidates(Root, Root, 0, n) = {}
    BY <1>2, <1>3, <1>4
  <2> QED
    BY <1>1, <2>1, <2>2, SearchIs DEF FirstObject, Smallest
<1>5. CASE DOMAIN slots # {}
  <2>1. 0 \in 0 .. Len(Root) /\ \A m \in 0 .. Len(Root) : m <= 0
    BY <1>1
  <2>2. SearchFrom(Root, Root, 0) = First(Candidates(Root, Root, 0, 0))
    BY <1>1, <1>2, <1>5, <2>1, SearchIs
  <2>3. First(DOMAIN slots) = Smallest(Objects(DOMAIN slots))
    BY <1>5, FirstIs
  <2>4. Objects(DOMAIN slots) = added
    BY DEF Objects, TreeInv, ObjectsOK
  <2> QED
    BY <1>2, <2>2, <2>3, <2>4 DEF FirstObject
<1> QED
  BY <1>4, <1>5

(* From a hash that is not there: the search begins with its own slot.     *)
LEMMA FromItsSlot ==
  ASSUME TreeInv, NEW h \in Hashes, h \notin added
  PROVE  IF SlotOf(h) \notin DOMAIN slots
         THEN SearchFrom(h, NodeOf(h), h[Len(NodeOf(h)) + 1]) = Following(h)
         ELSE SearchFrom(h, NodeOf(h), h[Len(NodeOf(h)) + 1]) = slots[SlotOf(h)]
<1> DEFINE N == NodeOf(h)
           slot == SlotOf(h)
           d == h[Len(N) + 1]
<1>1. /\ N \in Paths /\ IsPrefix(N, h) /\ Len(N) \in Nat /\ Len(N) + 1 \in 1 .. HashLength
      /\ h \in Paths /\ HashLength \in Nat /\ Len(h) = HashLength
  BY NodeFound, HashIsPath, TreeAssumption DEF TreeInv
<1>2. /\ slot \in Paths /\ Len(slot) = Len(N) + 1 /\ IsPrefix(slot, h) /\ IsPrefix(N, slot)
      /\ slot \notin nodes /\ Same(slot, h, Len(N) + 1) /\ slot[Len(N) + 1] = d /\ d \in Nat
  <2>1. slot \in Paths /\ Len(slot) = Len(N) + 1 /\ IsPrefix(slot, h) /\ IsPrefix(N, slot) /\ slot \notin nodes
    BY SlotFound DEF TreeInv
  <2>2. Same(slot, h, Len(N) + 1)
    BY <1>1, <2>1, PrefixIs
  <2>3. Len(N) + 1 \in 1 .. Len(N) + 1
    BY <1>1
  <2>4. slot[Len(N) + 1] = d
    BY <2>2, <2>3 DEF Same
  <2> QED
    BY <1>1, <2>1, <2>2, <2>4, DigitIs
<1>3. Start(N, Len(N)) = N
  BY <1>1 DEF Paths, Start
<1> HIDE DEF N, slot, d
(* What is below the slot. *)
<1>4. ASSUME NEW s \in DOMAIN slots, IsPrefix(N, s), Len(s) > Len(N), s[Len(N) + 1] = d
      PROVE  IsPrefix(slot, s)
  <2>1. s \in Paths /\ Len(s) \in Nat /\ Len(slot) <= Len(s) /\ Same(N, s, Len(N)) /\ Same(N, slot, Len(N))
    BY <1>1, <1>2, <1>4, PrefixIs, PathParts DEF TreeInv, SlotsOK
  <2>2. \A j \in 1 .. Len(N) + 1 : j \in 1 .. Len(N) \/ j = Len(N) + 1
    BY <1>1
  <2>3. \A j \in 1 .. Len(N) + 1 : slot[j] = s[j]
    BY <1>2, <1>4, <2>1, <2>2 DEF Same
  <2> QED
    BY <1>2, <2>1, <2>3, PrefixIs DEF Same
<1>5. CASE slot \notin DOMAIN slots
  <2>1. ASSUME NEW s \in DOMAIN slots, IsPrefix(N, s), Len(s) > Len(N) PROVE s[Len(N) + 1] # d
    <3>1. SUFFICES ASSUME s[Len(N) + 1] = d PROVE FALSE
      OBVIOUS
    <3>2. IsPrefix(slot, s) /\ s # slot
      BY <1>4, <1>5, <2>1, <3>1
    <3>3. s \in Paths /\ Len(s) \in Nat /\ Len(s) - 1 \in 0 .. Len(s) /\ Start(s, Len(s) - 1) \in nodes
      BY PathParts DEF TreeInv, SlotsOK
    <3>4. PICK m : m = Start(s, Len(s) - 1)
      OBVIOUS
    <3>5. m \in nodes /\ m \in Paths /\ Len(m) = Len(s) - 1 /\ IsPrefix(m, s)
      BY <3>3, <3>4, StartIs, StartIsPrefix
    <3>6. Len(slot) <= Len(s) /\ Len(slot) # Len(s)
      <4>1. IsPrefix(s, s)
        BY <3>3, PrefixIs DEF Same
      <4> QED
        BY <1>2, <3>2, <3>3, <4>1, PrefixIs, TwoPrefixes
    <3>7. Len(slot) <= Len(m)
      BY <1>1, <1>2, <3>3, <3>5, <3>6
    <3>8. slot = Start(m, Len(slot)) /\ Len(slot) \in 0 .. Len(m)
      BY <1>1, <1>2, <3>2, <3>3, <3>5, <3>7, TwoPrefixes, PathParts
    <3> QED
      BY <1>2, <3>5, <3>8 DEF TreeInv, NodesOK
  <2>2. Below(N, d) = Below(N, d + 1)
    <3>1. ASSUME NEW s \in DOMAIN slots, IsPrefix(N, s), Len(s) > Len(N)
          PROVE  s[Len(N) + 1] >= d <=> s[Len(N) + 1] >= d + 1
      <4>1. s \in Paths /\ Len(N) + 1 \in 1 .. Len(s)
        BY <1>1, <3>1, PathParts DEF TreeInv, SlotsOK
      <4>2. s[Len(N) + 1] \in Nat
        BY <4>1, PathParts
      <4> QED
        BY <1>2, <2>1, <3>1, <4>2
    <3> QED
      BY <3>1 DEF Below
  <2>3. \A n \in 0 .. Len(N) : Candidates(h, N, d, n) = Candidates(h, N, d + 1, n)
    BY <1>3, <2>2 DEF Candidates
  <2>4. SearchFrom(h, N, d) = SearchFrom(h, N, d + 1)
    <3>1. CASE \A n \in 0 .. Len(N) : Candidates(h, N, d, n) = {}
      BY <1>1, <2>3, <3>1, SearchIs
    <3>2. ASSUME NEW n \in 0 .. Len(N), Candidates(h, N, d, n) # {},
                 \A m \in 0 .. Len(N) : Candidates(h, N, d, m) # {} => m <= n
          PROVE  SearchFrom(h, N, d) = SearchFrom(h, N, d + 1)
      <4>1. SearchFrom(h, N, d) = First(Candidates(h, N, d, n))
        BY <1>1, <3>2, SearchIs
      <4>2. /\ Candidates(h, N, d + 1, n) # {}
            /\ \A m \in 0 .. Len(N) : Candidates(h, N, d + 1, m) # {} => m <= n
        BY <2>3, <3>2
      <4>3. SearchFrom(h, N, d + 1) = First(Candidates(h, N, d + 1, n))
        BY <1>1, <4>2, SearchIs
      <4> QED
        BY <2>3, <4>1, <4>3
    <3>3. \/ \A n \in 0 .. Len(N) : Candidates(h, N, d, n) = {}
          \/ \E n \in 0 .. Len(N) : /\ Candidates(h, N, d, n) # {}
                                    /\ \A m \in 0 .. Len(N) : Candidates(h, N, d, m) # {} => m <= n
      BY <1>1, SearchIs
    <3> QED
      BY <3>1, <3>2, <3>3
  <2>5. SearchFrom(h, N, d + 1) = Following(h)
    BY <1>5, SearchAfter DEF N, slot, d
  <2> QED
    BY <1>5, <2>4, <2>5 DEF N, slot, d
<1>6. CASE slot \in DOMAIN slots
  <2> DEFINE C == Candidates(h, N, d, Len(N))
  <2>1. C = Below(N, d)
    BY <1>3 DEF Candidates
  <2> HIDE DEF C
  <2>2. slot \in C
    BY <1>1, <1>2, <1>6, <2>1 DEF Below
  <2>3. ASSUME NEW t \in C \ {slot} PROVE Before(slot, t)
    <3>1. /\ t \in DOMAIN slots /\ IsPrefix(N, t) /\ Len(t) > Len(N) /\ t[Len(N) + 1] >= d
          /\ t \in Paths /\ Len(t) \in Nat
      BY <2>1, PathParts DEF Below, TreeInv, SlotsOK
    <3>2. t[Len(N) + 1] # d
      BY <1>4, <1>6, <2>3, <3>1, SlotsApart
    <3>3. t[Len(N) + 1] \in Nat /\ Len(N) + 1 \in 1 .. Len(t)
      <4>1. Len(N) + 1 \in 1 .. Len(t)
        BY <1>1, <3>1
      <4> QED
        BY <3>1, <4>1, PathParts
    <3>4. slot[Len(N) + 1] < t[Len(N) + 1]
      BY <1>2, <3>1, <3>2, <3>3
    <3>5. Same(slot, t, Len(N))
      <4>1. Same(N, t, Len(N)) /\ Same(N, slot, Len(N))
        BY <1>1, <1>2, <3>1, PrefixIs
      <4> QED
        BY <4>1 DEF Same
    <3>6. Len(N) + 1 - 1 = Len(N) /\ Len(N) + 1 \in 1 .. Len(slot) /\ Len(N) + 1 <= Len(t)
      BY <1>1, <1>2, <3>1
    <3> QED
      BY <1>2, <3>1, <3>4, <3>5, <3>6, BeforeIs
  <2>4. C \in SUBSET DOMAIN slots
    BY <2>1 DEF Below
  <2>5. First(C) = slots[slot]
    BY <2>2, <2>3, <2>4, FirstIs
  <2>6. Len(N) \in 0 .. Len(N) /\ \A m \in 0 .. Len(N) : m <= Len(N)
    BY <1>1
  <2>7. SearchFrom(h, N, d) = First(C)
    BY <1>1, <2>2, <2>6, SearchIs DEF C
  <2> QED
    BY <1>6, <2>5, <2>7 DEF N, slot, d
<1> QED
  BY <1>5, <1>6 DEF slot

LEMMA TreeWalk ==
  ASSUME TreeInv
  PROVE  WalkInOrder
<1>1. \A h \in Hashes : (FindObject(h) # Nothing) = (h \in added)
  BY ObjectFound
<1>2. ASSUME NEW h \in Hashes
      PROVE  IF h \in added \/ SlotOf(h) \notin DOMAIN slots
             THEN NextObject(h) = Following(h) /\ NextFromHint(h, NodeOf(h)) = Following(h)
             ELSE NextObject(h) = slots[SlotOf(h)]
  <2> DEFINE d == h[Len(NodeOf(h)) + 1]
  <2>1. d \in Nat
    BY NodeFound, DigitIs, TreeAssumption DEF TreeInv
  <2>2. h \in added => NextObject(h) = SearchFrom(h, NodeOf(h), d + 1)
    BY <1>1 DEF NextObject
  <2>3. h \notin added => NextObject(h) = SearchFrom(h, NodeOf(h), d)
    BY <1>1, <2>1 DEF NextObject
  <2>4. NextFromHint(h, NodeOf(h)) = SearchFrom(h, NodeOf(h), d + 1)
    BY DEF NextFromHint
  <2> HIDE DEF d
  <2>5. h \in added \/ SlotOf(h) \notin DOMAIN slots => SearchFrom(h, NodeOf(h), d + 1) = Following(h)
    BY SearchAfter DEF d
  <2>6. h \notin added => IF SlotOf(h) \notin DOMAIN slots
                          THEN SearchFrom(h, NodeOf(h), d) = Following(h)
                          ELSE SearchFrom(h, NodeOf(h), d) = slots[SlotOf(h)]
    BY FromItsSlot DEF d
  <2> QED
    BY <2>2, <2>3, <2>4, <2>5, <2>6
<1> QED
  BY <1>1, <1>2, FromTheStart DEF WalkInOrder, TreeInv, NodesUsed

-----------------------------------------------------------------------------
(* The parts side by side: none of them disturbs another.                  *)

LEMMA PartsMove ==
  ASSUME [Next]_vars
  PROVE  [MutexNext]_mutexVars /\ [ShareNext]_shareVars /\ [TreeNext]_treeVars
<1>1. CASE OnLines \/ OnConfiguration
  BY <1>1 DEF OnLines, OnConfiguration
<1>2. CASE OnTree
  BY <1>2 DEF OnTree
<1>3. CASE OnMutex
  BY <1>3 DEF OnMutex
<1>4. CASE OnShare
  BY <1>4 DEF OnShare
<1>5. CASE UNCHANGED vars
  BY <1>5 DEF vars
<1> QED
  BY <1>1, <1>2, <1>3, <1>4, <1>5 DEF Next

(* Whatever was added and removed, in hashes of any length, the tree has   *)
(* the objects that it is said to have and next() walks through them in    *)
(* the order of their hashes, with a hint and without, also from an object *)
(* that is gone (hash_tree.h, 42-181).                                     *)
THEOREM WalksInOrder == Spec => []TreeInOrder
<1>1. Init => TreeInv
  BY TreeInitially DEF Init
<1>2. TreeInv /\ [Next]_vars => TreeInv'
  BY PartsMove, TreeSteps
<1>3. TreeInv => TreeInOrder
  BY TreeWalk DEF TreeInOrder
<1> QED
  BY <1>1, <1>2, <1>3, PTL DEF Spec

(* The mount point, next to the other parts: the theorem about it holds of *)
(* the program that has them all (src/src/share.cpp).                      *)
THEOREM ShareAmongParts == Spec => []PointBelieved
<1>1. Init => ShareInit
  BY DEF Init
<1>2. [Next]_vars => [ShareNext]_shareVars
  BY PartsMove
<1>3. Spec => ShareSpec
  BY <1>1, <1>2, PTL DEF Spec, ShareSpec
<1> QED
  BY <1>3, OnlyThatShare, PTL

(* And so does the one about the lock, for the addresses there are.        *)
THEOREM LockAmongParts == Spec => []HolderBelieved
<1>1. Init => MutexInit
  BY DEF Init
<1>2. [Next]_vars => [MutexNext]_mutexVars
  BY PartsMove
<1>3. Spec => MutexSpec
  BY <1>1, <1>2, PTL DEF Spec, MutexSpec
<1> QED
  BY <1>3, OneHolderOfAnAddress, PTL
===========================================================================
