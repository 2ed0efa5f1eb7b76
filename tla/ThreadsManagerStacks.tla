------------------------ MODULE ThreadsManagerStacks ------------------------
(***************************************************************************)
(* Lemmas about the operators ThreadsManager is built from: the stacks of  *)
(* workers, the two queues seen as sequences without repetition, and the   *)
(* arithmetic of its size_t counter.                                       *)
(***************************************************************************)
EXTENDS ThreadsManager, FiniteSetTheorems, SequenceTheorems, TLAPS

Distinct(stack) ==
  \A i, j \in 1 .. Len(stack) : stack[i] = stack[j] => i = j

-----------------------------------------------------------------------------
(* Stack::push() puts the worker on top and disturbs no other.             *)
LEMMA PushedStack ==
  ASSUME NEW S, NEW stack \in Seq(S), NEW w \in S
  PROVE  /\ Pushed(stack, w) \in Seq(S)
         /\ Pushed(stack, w) # <<>>
         /\ Len(Pushed(stack, w)) = Len(stack) + 1
         /\ Head(Pushed(stack, w)) = w
         /\ InStack(Pushed(stack, w)) = InStack(stack) \cup {w}
         /\ Distinct(stack) /\ w \notin InStack(stack) =>
              Distinct(Pushed(stack, w))
<1> DEFINE new == Pushed(stack, w)
<1>1. new \in Seq(S) /\ Len(new) = Len(stack) + 1 /\ Len(stack) \in Nat
  BY DEF Pushed
<1>2. /\ new[1] = w
      /\ \A i \in 1 .. Len(stack) : new[i + 1] = stack[i]
      /\ \A i \in 2 .. Len(new) : new[i] = stack[i - 1]
  BY DEF Pushed
<1>3. Head(new) = w /\ new # <<>>
  BY <1>1, <1>2
<1>4. InStack(new) = InStack(stack) \cup {w}
  <2>1. \A x \in InStack(new) : x \in InStack(stack) \cup {w}
    <3>1. TAKE x \in InStack(new)
    <3>2. PICK i \in 1 .. Len(new) : x = new[i]
      BY <3>1 DEF InStack
    <3>3. CASE i = 1
      BY <3>2, <3>3, <1>2
    <3>4. CASE i # 1
      <4>1. i - 1 \in 1 .. Len(stack) /\ x = stack[i - 1]
        BY <3>2, <3>4, <1>1, <1>2
      <4>2. QED
        BY <4>1 DEF InStack
    <3>5. QED
      BY <3>3, <3>4
  <2>2. \A x \in InStack(stack) : x \in InStack(new)
    <3>1. TAKE x \in InStack(stack)
    <3>2. PICK i \in 1 .. Len(stack) : x = stack[i]
      BY <3>1 DEF InStack
    <3>3. i + 1 \in 1 .. Len(new) /\ x = new[i + 1]
      BY <3>2, <1>1, <1>2
    <3>4. QED
      BY <3>3 DEF InStack
  <2>3. 1 \in 1 .. Len(new)
    BY <1>1
  <2>4. w \in InStack(new)
    BY <2>3, <1>2 DEF InStack
  <2>5. QED
    BY <2>1, <2>2, <2>4
<1>5. ASSUME Distinct(stack), w \notin InStack(stack) PROVE Distinct(new)
  <2>1. \A i \in 2 .. Len(new) : new[i] # w
    <3>1. TAKE i \in 2 .. Len(new)
    <3>2. i - 1 \in 1 .. Len(stack) /\ new[i] = stack[i - 1]
      BY <1>1, <1>2
    <3>3. QED
      BY <3>2, <1>5 DEF InStack
  <2>2. \A i, j \in 1 .. Len(new) : new[i] = new[j] => i = j
    <3>1. TAKE i, j \in 1 .. Len(new)
    <3>2. CASE i = 1 \/ j = 1
      BY <3>2, <2>1, <1>1, <1>2
    <3>3. CASE i # 1 /\ j # 1
      <4>1. /\ i - 1 \in 1 .. Len(stack) /\ j - 1 \in 1 .. Len(stack)
            /\ new[i] = stack[i - 1] /\ new[j] = stack[j - 1]
        BY <3>3, <1>1, <1>2
      <4>2. new[i] = new[j] => i - 1 = j - 1
        BY <4>1, <1>5 DEF Distinct
      <4>3. QED
        BY <4>2
    <3>4. QED
      BY <3>2, <3>3
  <2>3. QED
    BY <2>2 DEF Distinct
<1>6. QED
  BY <1>1, <1>3, <1>4, <1>5

(* Stack::pop() takes the top; so does a queue.                            *)
LEMMA PoppedStack ==
  ASSUME NEW S, NEW stack \in Seq(S), stack # <<>>
  PROVE  /\ Head(stack) \in S
         /\ Head(stack) \in InStack(stack)
         /\ Tail(stack) \in Seq(S)
         /\ Len(Tail(stack)) = Len(stack) - 1
         /\ Distinct(stack) =>
              /\ Distinct(Tail(stack))
              /\ InStack(Tail(stack)) = InStack(stack) \ {Head(stack)}
<1> DEFINE rest == Tail(stack)
<1>1. /\ Len(stack) \in Nat \ {0} /\ rest \in Seq(S)
      /\ Len(rest) = Len(stack) - 1
      /\ Head(stack) = stack[1]
      /\ \A i \in 1 .. Len(rest) : rest[i] = stack[i + 1]
  OBVIOUS
<1>2. 1 \in 1 .. Len(stack)
  BY <1>1
<1>3. Head(stack) \in S /\ Head(stack) \in InStack(stack)
  BY <1>1, <1>2 DEF InStack
<1>4. ASSUME Distinct(stack)
      PROVE  /\ Distinct(rest)
             /\ InStack(rest) = InStack(stack) \ {Head(stack)}
  <2>1. \A i, j \in 1 .. Len(rest) : rest[i] = rest[j] => i = j
    <3>1. TAKE i, j \in 1 .. Len(rest)
    <3>2. i + 1 \in 1 .. Len(stack) /\ j + 1 \in 1 .. Len(stack)
      BY <1>1
    <3>3. rest[i] = rest[j] => i + 1 = j + 1
      BY <3>2, <1>1, <1>4 DEF Distinct
    <3>4. QED
      BY <3>3
  <2>2. \A x \in InStack(rest) : x \in InStack(stack) \ {Head(stack)}
    <3>1. TAKE x \in InStack(rest)
    <3>2. PICK i \in 1 .. Len(rest) : x = rest[i]
      BY <3>1 DEF InStack
    <3>3. i + 1 \in 1 .. Len(stack) /\ i + 1 # 1 /\ x = stack[i + 1]
      BY <3>2, <1>1
    <3>4. x # stack[1]
      BY <3>3, <1>2, <1>4 DEF Distinct
    <3>5. QED
      BY <3>3, <3>4, <1>1 DEF InStack
  <2>3. \A x \in InStack(stack) \ {Head(stack)} : x \in InStack(rest)
    <3>1. TAKE x \in InStack(stack) \ {Head(stack)}
    <3>2. PICK i \in 1 .. Len(stack) : x = stack[i]
      BY <3>1 DEF InStack
    <3>3. i # 1
      BY <3>1, <3>2, <1>1
    <3>4. i - 1 \in 1 .. Len(rest) /\ x = rest[i - 1]
      BY <3>2, <3>3, <1>1
    <3>5. QED
      BY <3>4 DEF InStack
  <2>4. QED
    BY <2>1, <2>2, <2>3 DEF Distinct
<1>5. QED
  BY <1>1, <1>3, <1>4

(* The bottom of a stack, taken out.                                       *)
LEMMA BottomOfStack ==
  ASSUME NEW S, NEW stack \in Seq(S), stack # <<>>
  PROVE  /\ Bottom(stack) \in S
         /\ Bottom(stack) \in InStack(stack)
         /\ WithoutBottom(stack) \in Seq(S)
         /\ Len(WithoutBottom(stack)) = Len(stack) - 1
         /\ Distinct(stack) =>
              /\ Distinct(WithoutBottom(stack))
              /\ InStack(WithoutBottom(stack)) =
                   InStack(stack) \ {Bottom(stack)}
<1> DEFINE rest == WithoutBottom(stack)
           n == Len(stack)
<1>1. /\ n \in Nat \ {0} /\ rest \in Seq(S)
      /\ Len(rest) = n - 1
      /\ Bottom(stack) = stack[n]
      /\ \A i \in 1 .. Len(rest) : rest[i] = stack[i]
  <2>1. n \in Nat \ {0}
    OBVIOUS
  <2>2. \A i \in 1 .. n - 1 : i \in 1 .. n /\ stack[i] \in S
    BY <2>1
  <2>3. /\ SubSeq(stack, 1, n - 1) \in Seq(S)
        /\ Len(SubSeq(stack, 1, n - 1)) = IF 1 <= n - 1 THEN n - 1 - 1 + 1 ELSE 0
        /\ \A i \in 1 .. n - 1 - 1 + 1 :
             SubSeq(stack, 1, n - 1)[i] = stack[1 + i - 1]
    BY <2>1, <2>2, SubSeqProperties
  <2>n. \A i \in 1 .. n - 1 : i \in 1 .. n - 1 - 1 + 1 /\ 1 + i - 1 = i
    BY <2>1
  <2>m. /\ 1 <= n - 1 => n - 1 - 1 + 1 = n - 1
        /\ ~(1 <= n - 1) => n - 1 = 0
    <3>1. \A k \in Nat : k # 0 =>
            /\ 1 <= k - 1 => k - 1 - 1 + 1 = k - 1
            /\ ~(1 <= k - 1) => k - 1 = 0
      OBVIOUS
    <3>2. QED
      BY <2>1, <3>1
  <2>4. /\ rest \in Seq(S) /\ Len(rest) = n - 1
        /\ \A i \in 1 .. n - 1 : rest[i] = stack[i]
    <3>1. rest = SubSeq(stack, 1, n - 1)
      BY DEF WithoutBottom
    <3> HIDE DEF rest
    <3>2. \A i \in 1 .. n - 1 : rest[i] = stack[i]
      BY <2>3, <2>n, <3>1
    <3>3. QED
      BY <2>3, <2>m, <3>1, <3>2
  <2>5. QED
    BY <2>1, <2>4 DEF Bottom
<1>2. n \in 1 .. n
  BY <1>1
<1>3. Bottom(stack) \in S /\ Bottom(stack) \in InStack(stack)
  BY <1>1, <1>2 DEF InStack
<1>4. ASSUME Distinct(stack)
      PROVE  /\ Distinct(rest)
             /\ InStack(rest) = InStack(stack) \ {Bottom(stack)}
  <2>1. \A i, j \in 1 .. Len(rest) : rest[i] = rest[j] => i = j
    BY <1>1, <1>4 DEF Distinct
  <2>2. \A x \in InStack(rest) : x \in InStack(stack) \ {Bottom(stack)}
    <3>1. TAKE x \in InStack(rest)
    <3>2. PICK i \in 1 .. Len(rest) : x = rest[i]
      BY <3>1 DEF InStack
    <3>3. i \in 1 .. n /\ i # n /\ x = stack[i]
      BY <3>2, <1>1
    <3>4. x # stack[n]
      BY <3>3, <1>2, <1>4 DEF Distinct
    <3>5. QED
      BY <3>3, <3>4, <1>1 DEF InStack
  <2>3. \A x \in InStack(stack) \ {Bottom(stack)} : x \in InStack(rest)
    <3>1. TAKE x \in InStack(stack) \ {Bottom(stack)}
    <3>2. PICK i \in 1 .. n : x = stack[i]
      BY <3>1 DEF InStack
    <3>3. i # n
      BY <3>1, <3>2, <1>1
    <3>4. i \in 1 .. Len(rest) /\ x = rest[i]
      BY <3>2, <3>3, <1>1
    <3>5. QED
      BY <3>4 DEF InStack
  <2>4. QED
    BY <2>1, <2>2, <2>3 DEF Distinct
<1>5. QED
  BY <1>1, <1>3, <1>4

(* TaskAndReap takes both ends of a stack of two or more.                  *)
LEMMA BothEndsOfStack ==
  ASSUME NEW S, NEW stack \in Seq(S), Len(stack) > 1, Distinct(stack)
  PROVE  /\ Tail(stack) \in Seq(S) /\ Tail(stack) # <<>>
         /\ Bottom(Tail(stack)) = Bottom(stack)
         /\ Head(stack) # Bottom(stack)
<1> DEFINE n == Len(stack)
<1>1. /\ n \in Nat /\ Tail(stack) \in Seq(S) /\ Len(Tail(stack)) = n - 1
      /\ \A i \in 1 .. n - 1 : Tail(stack)[i] = stack[i + 1]
      /\ Head(stack) = stack[1]
  OBVIOUS
<1>2. n - 1 \in 1 .. n - 1 /\ n - 1 + 1 = n /\ 1 \in 1 .. n /\ n \in 1 .. n
  BY <1>1
<1>3. Tail(stack)[n - 1] = stack[n]
  BY <1>1, <1>2
<1>4. stack[1] # stack[n]
  BY <1>1, <1>2 DEF Distinct
<1>5. Tail(stack) # <<>>
  BY <1>1
<1>6. Bottom(stack) = stack[n] /\ Bottom(Tail(stack)) = Tail(stack)[n - 1]
  BY <1>1 DEF Bottom
<1>7. QED
  BY <1>1, <1>3, <1>4, <1>5, <1>6

(* Unlinking a worker from the middle of its stack.                        *)
LEMMA RemovedFromStack ==
  ASSUME NEW S, NEW stack \in Seq(S), NEW w \in InStack(stack),
         Distinct(stack)
  PROVE  /\ Removed(stack, w) \in Seq(S)
         /\ Len(Removed(stack, w)) = Len(stack) - 1
         /\ Distinct(Removed(stack, w))
         /\ InStack(Removed(stack, w)) = InStack(stack) \ {w}
<1> DEFINE n == Len(stack)
           k == CHOOSE j \in 1 .. n : stack[j] = w
           before == SubSeq(stack, 1, k - 1)
           after == SubSeq(stack, k + 1, n)
           rest == before \o after
<1>1. n \in Nat
  OBVIOUS
<1>2. k \in 1 .. n /\ stack[k] = w
  BY DEF InStack
<1>3. Removed(stack, w) = rest
  BY DEF Removed
<1> HIDE DEF k
<1>4. /\ before \in Seq(S) /\ Len(before) = k - 1
      /\ \A i \in 1 .. k - 1 : before[i] = stack[i]
  BY <1>1, <1>2
<1>5. /\ after \in Seq(S) /\ Len(after) = n - k
      /\ \A i \in 1 .. n - k : after[i] = stack[k + i]
  BY <1>1, <1>2
<1> HIDE DEF before, after
<1>6. rest \in Seq(S) /\ Len(rest) = n - 1
  <2>1. rest \in Seq(S) /\ Len(rest) = Len(before) + Len(after)
    BY <1>4, <1>5, ConcatProperties
  <2>2. k \in Int /\ (k - 1) + (n - k) = n - 1
    BY <1>1, <1>2
  <2>3. QED
    BY <2>1, <2>2, <1>4, <1>5
<1>7. \A i \in 1 .. n - 1 : rest[i] = IF i < k THEN before[i]
                                                 ELSE after[i - (k - 1)]
  BY <1>1, <1>2, <1>4, <1>5
<1>8. \A i \in 1 .. n - 1 : rest[i] = IF i < k THEN stack[i] ELSE stack[i + 1]
  <2>1. TAKE i \in 1 .. n - 1
  <2>2. CASE i < k
    BY <2>2, <1>1, <1>2, <1>4, <1>7
  <2>3. CASE ~(i < k)
    <3>1. i - (k - 1) \in 1 .. n - k /\ k + (i - (k - 1)) = i + 1
      BY <2>3, <1>1, <1>2
    <3>2. QED
      BY <2>3, <3>1, <1>5, <1>7
  <2>4. QED
    BY <2>2, <2>3
<1> HIDE DEF rest
<1>9. Distinct(rest)
  <2>1. SUFFICES ASSUME NEW i \in 1 .. n - 1, NEW j \in 1 .. n - 1,
                        rest[i] = rest[j]
                 PROVE  i = j
    BY <1>6 DEF Distinct
  <2>2. \A a, b \in 1 .. n : stack[a] = stack[b] => a = b
    BY DEF Distinct
  <2>3. QED
    BY <2>1, <2>2, <1>1, <1>2, <1>8
<1>10. \A x \in InStack(rest) : x \in InStack(stack) \ {w}
  <2>1. TAKE x \in InStack(rest)
  <2>2. PICK i \in 1 .. n - 1 : x = rest[i]
    BY <2>1, <1>6 DEF InStack
  <2>3. PICK j \in 1 .. n : j # k /\ x = stack[j]
    <3>1. CASE i < k
      BY <3>1, <2>2, <1>1, <1>2, <1>8
    <3>2. CASE ~(i < k)
      BY <3>2, <2>2, <1>1, <1>2, <1>8
    <3>3. QED
      BY <3>1, <3>2
  <2>4. x # w
    BY <2>3, <1>2 DEF Distinct
  <2>5. QED
    BY <2>3, <2>4 DEF InStack
<1>11. \A x \in InStack(stack) \ {w} : x \in InStack(rest)
  <2>1. TAKE x \in InStack(stack) \ {w}
  <2>2. PICK j \in 1 .. n : x = stack[j]
    BY <2>1 DEF InStack
  <2>3. j # k
    BY <2>1, <2>2, <1>2
  <2>4. PICK i \in 1 .. n - 1 : x = rest[i]
    <3>1. CASE j < k
      <4>1. j \in 1 .. n - 1
        BY <3>1, <1>1, <1>2
      <4>2. QED
        BY <3>1, <4>1, <2>2, <1>8
    <3>2. CASE ~(j < k)
      <4>1. j - 1 \in 1 .. n - 1 /\ ~(j - 1 < k) /\ j - 1 + 1 = j
        BY <3>2, <2>3, <1>1, <1>2
      <4>2. QED
        BY <4>1, <2>2, <1>8
    <3>3. QED
      BY <3>1, <3>2
  <2>5. QED
    BY <2>4, <1>6 DEF InStack
<1>12. QED
  BY <1>3, <1>6, <1>9, <1>10, <1>11

(* A queue of distinct objects that gets one more.                         *)
LEMMA AppendedQueue ==
  ASSUME NEW S, NEW queued \in Seq(S), NEW t \in S
  PROVE  /\ Append(queued, t) \in Seq(S)
         /\ Len(Append(queued, t)) = Len(queued) + 1
         /\ InStack(Append(queued, t)) = InStack(queued) \cup {t}
         /\ Distinct(queued) /\ t \notin InStack(queued) =>
              Distinct(Append(queued, t))
<1> DEFINE new == Append(queued, t)
           n == Len(queued)
<1>1. /\ n \in Nat /\ new \in Seq(S) /\ Len(new) = n + 1
      /\ \A i \in 1 .. n : new[i] = queued[i]
      /\ new[n + 1] = t
  OBVIOUS
<1>2. \A x \in InStack(new) : x \in InStack(queued) \cup {t}
  BY <1>1 DEF InStack
<1>3. \A x \in InStack(queued) \cup {t} : x \in InStack(new)
  <2>1. n + 1 \in 1 .. Len(new) /\ \A i \in 1 .. n : i \in 1 .. Len(new)
    BY <1>1
  <2>2. QED
    BY <1>1, <2>1 DEF InStack
<1>4. ASSUME Distinct(queued), t \notin InStack(queued) PROVE Distinct(new)
  <2>1. \A i \in 1 .. n : queued[i] # t
    BY <1>4 DEF InStack
  <2>2. \A i, j \in 1 .. n + 1 : new[i] = new[j] => i = j
    BY <1>1, <1>4, <2>1 DEF Distinct
  <2>3. QED
    BY <1>1, <2>2 DEF Distinct
<1>5. QED
  BY <1>1, <1>2, <1>3, <1>4

LEMMA EmptyStack == InStack(<<>>) = {} /\ Distinct(<<>>)
BY DEF InStack, Distinct

(* A stack is as long as the set of its workers is large.                  *)
LEMMA StackCount ==
  ASSUME NEW S, NEW stack \in Seq(S), Distinct(stack)
  PROVE  IsFiniteSet(InStack(stack))
         /\ Cardinality(InStack(stack)) = Len(stack)
<1> DEFINE n == Len(stack)
           f == [i \in 1 .. n |-> stack[i]]
<1>1. n \in Nat
  OBVIOUS
<1>2. f \in [1 .. n -> InStack(stack)]
  BY DEF InStack
<1>3. \A i, j \in 1 .. n : f[i] = f[j] => i = j
  BY DEF Distinct
<1>4. \A x \in InStack(stack) : \E i \in 1 .. n : f[i] = x
  BY DEF InStack
<1>5. f \in Bijection(1 .. n, InStack(stack))
  BY <1>2, <1>3, <1>4 DEF Bijection, Injection, Surjection, IsInjective
<1>6. ExistsBijection(1 .. n, InStack(stack))
  BY <1>5 DEF ExistsBijection
<1>7. QED
  BY <1>1, <1>6, FS_CountingElements, FS_NatBijection

(* Sets with nothing in common are counted one after the other.            *)
LEMMA DisjointCount ==
  ASSUME NEW S, NEW T, IsFiniteSet(S), IsFiniteSet(T), S \cap T = {}
  PROVE  /\ IsFiniteSet(S \cup T)
         /\ Cardinality(S \cup T) = Cardinality(S) + Cardinality(T)
<1>1. Cardinality(S) \in Nat /\ Cardinality(T) \in Nat
  BY FS_CardinalityType
<1>2. Cardinality(S \cap T) = 0
  BY FS_EmptySet
<1>3. /\ IsFiniteSet(S \cup T)
      /\ Cardinality(S \cup T)
           = Cardinality(S) + Cardinality(T) - Cardinality(S \cap T)
  BY FS_Union
<1>4. QED
  BY <1>1, <1>2, <1>3

(* What a sequence without repetition holds once, it counts once.          *)
LEMMA CountedOnce ==
  ASSUME NEW S, NEW queued \in Seq(S), Distinct(queued), NEW t
  PROVE  Cardinality({i \in 1 .. Len(queued) : queued[i] = t}) =
           IF t \in InStack(queued) THEN 1 ELSE 0
<1>1. CASE t \in InStack(queued)
  <2>1. PICK i \in 1 .. Len(queued) : queued[i] = t
    BY <1>1 DEF InStack
  <2>2. {j \in 1 .. Len(queued) : queued[j] = t} = {i}
    BY <2>1 DEF Distinct
  <2>3. QED
    BY <1>1, <2>2, FS_Singleton
<1>2. CASE t \notin InStack(queued)
  <2>1. {j \in 1 .. Len(queued) : queued[j] = t} = {}
    BY <1>2 DEF InStack
  <2>2. QED
    BY <1>2, <2>1, FS_EmptySet
<1>3. QED
  BY <1>1, <1>2

(* threads is a size_t: --threads wraps at 0 only.                         *)
LEMMA SizeTArithmetic ==
  ASSUME NEW n \in 0 .. SizeT - 1
  PROVE  /\ (n + 1) % SizeT \in 0 .. SizeT - 1
         /\ (n + SizeT - 1) % SizeT \in 0 .. SizeT - 1
         /\ n + 1 < SizeT => (n + 1) % SizeT = n + 1
         /\ n > 0 => (n + SizeT - 1) % SizeT = n - 1
<1>1. SizeT \in Nat \ {0}
  BY BoundsAssumption
<1>2. \A m \in Int : m % SizeT \in 0 .. SizeT - 1
  BY <1>1
<1>3. \A m \in 0 .. SizeT - 1 : m % SizeT = m
  BY <1>1
<1>4. \A m \in 0 .. SizeT - 1 : (m + SizeT) % SizeT = m
  BY <1>1
<1>5. n > 0 => n - 1 \in 0 .. SizeT - 1 /\ (n - 1) + SizeT = n + SizeT - 1
  BY <1>1
<1>6. QED
  BY <1>1, <1>2, <1>3, <1>4, <1>5

=============================================================================
