---------------------------- MODULE TelegramProofs ----------------------------
(***************************************************************************)
(* Proofs about the listeners of a Telegram account and their album buffers, *)
(* for every value of the constants; and, with what SourceProofs shows of    *)
(* the other sources, that the variables of all of them have their types.    *)
(***************************************************************************)
EXTENDS SourceProofs, FiniteSetTheorems

-----------------------------------------------------------------------------
(* Sorting the parts of an album.                                           *)

\* A set of natural numbers has a least one.
LEMMA LeastIs ==
  ASSUME NEW T \in SUBSET Nat, T # {}
  PROVE  \E k \in T : \A j \in T : k <= j
<1>1. PICK k \in T : \A j \in T : ~(<<j, k>> \in OpToRel(<, Nat))
  BY NatLessThanWellFounded, WFMin
<1>2. \A j \in T : ~(j < k)
  BY <1>1 DEF OpToRel
<1> QED
  BY <1>2

\* The orders that sort the first n elements of s.
Sorting(s, n) ==
  {f \in Bijection(1..n, 1..n) : \A i, j \in 1..n : i < j => s[f[i]] <= s[f[j]]}

\* An order of the first n with the next element inserted before place k.
Inserted(f, n, k) ==
  [i \in 1..n + 1 |-> IF i < k THEN f[i] ELSE IF i = k THEN n + 1 ELSE f[i - 1]]

LEMMA InsertedIs ==
  ASSUME NEW n \in Nat, NEW k \in 1..n + 1, NEW f \in Bijection(1..n, 1..n)
  PROVE  Inserted(f, n, k) \in Bijection(1..n + 1, 1..n + 1)
<1> DEFINE g == Inserted(f, n, k)
<1>1. /\ f \in [1..n -> 1..n]
      /\ \A i, j \in 1..n : f[i] = f[j] => i = j
      /\ \A v \in 1..n : \E i \in 1..n : f[i] = v
  BY DEF Bijection, Injection, Surjection, IsInjective
<1>2. \A i \in 1..n + 1 :
        /\ i < k => i \in 1..n /\ g[i] = f[i]
        /\ i = k => g[i] = n + 1
        /\ i > k => i - 1 \in 1..n /\ g[i] = f[i - 1]
  BY DEF Inserted
<1>3. g \in [1..n + 1 -> 1..n + 1]
  <2>1. \A i \in 1..n : f[i] \in 1..n + 1
    BY <1>1
  <2>2. \A i \in 1..n + 1 : g[i] \in 1..n + 1
    BY <1>2, <2>1
  <2>3. DOMAIN g = 1..n + 1 /\ g = [i \in DOMAIN g |-> g[i]]
    BY DEF Inserted
  <2> QED
    BY <2>2, <2>3
<1> HIDE DEF g
<1>4. ASSUME NEW i \in 1..n + 1, NEW j \in 1..n + 1, g[i] = g[j]
      PROVE  i = j
  <2>1. \A m \in 1..n : f[m] \in 1..n /\ f[m] # n + 1
    BY <1>1
  <2>2. (i = k) <=> (j = k)
    BY <1>2, <1>4, <2>1
  <2>3. CASE i < k /\ j < k
    BY <1>1, <1>2, <1>4, <2>3
  <2>4. CASE i > k /\ j > k
    <3>1. i - 1 = j - 1
      BY <1>1, <1>2, <1>4, <2>4
    <3> QED
      BY <3>1
  <2>5. CASE i < k /\ j > k
    <3>1. i = j - 1
      BY <1>1, <1>2, <1>4, <2>5
    <3> QED
      BY <2>5, <3>1
  <2>6. CASE i > k /\ j < k
    <3>1. i - 1 = j
      BY <1>1, <1>2, <1>4, <2>6
    <3> QED
      BY <2>6, <3>1
  <2> QED
    BY <2>2, <2>3, <2>4, <2>5, <2>6
<1>5. ASSUME NEW v \in 1..n + 1
      PROVE  \E i \in 1..n + 1 : g[i] = v
  <2>1. CASE v = n + 1
    BY <1>2, <2>1
  <2>2. CASE v \in 1..n
    <3>1. PICK i \in 1..n : f[i] = v
      BY <1>1, <2>2
    <3>2. CASE i < k
      <4>1. i \in 1..n + 1
        OBVIOUS
      <4> QED
        BY <1>2, <3>1, <3>2, <4>1
    <3>3. CASE i >= k
      <4>1. i + 1 \in 1..n + 1 /\ i + 1 > k /\ i + 1 - 1 = i
        BY <3>3
      <4>2. g[i + 1] = f[i]
        BY <1>2, <4>1
      <4> QED
        BY <3>1, <4>1, <4>2
    <3> QED
      BY <3>2, <3>3
  <2> QED
    BY <2>1, <2>2
<1>6. g \in Bijection(1..n + 1, 1..n + 1)
  BY <1>3, <1>4, <1>5 DEF Bijection, Injection, Surjection, IsInjective
<1> QED
  BY <1>6 DEF g

\* Inserting the next element before the first that is greater sorts that too.
LEMMA NextSorted ==
  ASSUME NEW s \in Seq(Nat), NEW n \in Nat, n < Len(s), Sorting(s, n) # {}
  PROVE  Sorting(s, n + 1) # {}
<1>1. PICK f \in Bijection(1..n, 1..n) : \A i, j \in 1..n : i < j => s[f[i]] <= s[f[j]]
  BY DEF Sorting
<1>2. f \in [1..n -> 1..n]
  BY DEF Bijection, Injection
<1>3. \A i \in 1..n + 1 : s[i] \in Nat
  BY LenProperties, ElementOfSeq
<1> DEFINE T == {k \in 1..n + 1 : k = n + 1 \/ s[f[k]] > s[n + 1]}
<1>4. PICK k \in T : \A j \in T : k <= j
  <2>1. n + 1 \in T /\ T \subseteq Nat
    OBVIOUS
  <2> QED
    BY <2>1, LeastIs
<1>5. /\ k \in 1..n + 1
      /\ \A i \in 1..n : i < k => s[f[i]] <= s[n + 1]
      /\ k <= n => s[f[k]] > s[n + 1]
  <2>1. k \in 1..n + 1 /\ (k = n + 1 \/ s[f[k]] > s[n + 1])
    OBVIOUS
  <2>2. ASSUME NEW i \in 1..n, i < k PROVE s[f[i]] <= s[n + 1]
    <3>1. ~(i \in T)
      BY <1>4, <2>1, <2>2
    <3>2. i \in 1..n + 1 /\ f[i] \in 1..n /\ f[i] \in 1..n + 1 /\ n + 1 \in 1..n + 1
      BY <1>2
    <3>3. ~(s[f[i]] > s[n + 1])
      BY <3>1, <3>2
    <3> QED
      BY <1>3, <3>2, <3>3
  <2> QED
    BY <2>1, <2>2
<1> HIDE DEF T
<1> DEFINE g == Inserted(f, n, k)
<1>6. g \in Bijection(1..n + 1, 1..n + 1)
  BY <1>5, InsertedIs
<1>7. \A i \in 1..n + 1 :
        /\ i < k => i \in 1..n /\ g[i] = f[i]
        /\ i = k => g[i] = n + 1
        /\ i > k => i - 1 \in 1..n /\ g[i] = f[i - 1]
  BY <1>5 DEF Inserted
<1> HIDE DEF g
<1>8. \A i \in 1..n : s[f[i]] \in Nat
  BY <1>2, <1>3
<1>9. \A i \in 1..n : i >= k => s[f[i]] >= s[n + 1]
  <2> SUFFICES ASSUME NEW i \in 1..n, i >= k PROVE s[f[i]] >= s[n + 1]
    OBVIOUS
  <2>1. k \in 1..n /\ s[f[k]] > s[n + 1]
    BY <1>5
  <2>2. s[n + 1] \in Nat
    BY <1>3
  <2>3. i = k \/ s[f[k]] <= s[f[i]]
    BY <1>1, <2>1
  <2> QED
    BY <1>8, <2>1, <2>2, <2>3
<1>10. ASSUME NEW i \in 1..n + 1, NEW j \in 1..n + 1, i < j
       PROVE  s[g[i]] <= s[g[j]]
  <2>1. CASE j < k
    <3>1. i < k
      BY <1>5, <1>10, <2>1
    <3>2. i \in 1..n /\ j \in 1..n /\ g[i] = f[i] /\ g[j] = f[j]
      BY <1>7, <2>1, <3>1
    <3> QED
      BY <1>1, <1>10, <3>2
  <2>2. CASE j = k
    <3>1. i \in 1..n /\ g[i] = f[i] /\ g[j] = n + 1
      BY <1>7, <1>10, <2>2
    <3> QED
      BY <1>5, <1>10, <2>2, <3>1
  <2>3. CASE j > k /\ i > k
    <3>1. /\ i - 1 \in 1..n /\ j - 1 \in 1..n /\ i - 1 < j - 1
          /\ g[i] = f[i - 1] /\ g[j] = f[j - 1]
      BY <1>7, <1>10, <2>3
    <3> QED
      BY <1>1, <3>1
  <2>4. CASE j > k /\ i = k
    <3>1. j - 1 \in 1..n /\ j - 1 >= k /\ g[j] = f[j - 1] /\ g[i] = n + 1
      BY <1>5, <1>7, <2>4
    <3>2. s[f[j - 1]] >= s[n + 1] /\ s[n + 1] \in Nat /\ s[f[j - 1]] \in Nat
      BY <1>3, <1>8, <1>9, <3>1
    <3> QED
      BY <3>1, <3>2
  <2>5. CASE j > k /\ i < k
    <3>1. /\ i \in 1..n /\ j - 1 \in 1..n /\ i <= j - 1
          /\ g[i] = f[i] /\ g[j] = f[j - 1]
      BY <1>5, <1>7, <2>5
    <3>2. i \in 1..n /\ j - 1 \in 1..n
      BY <1>7, <2>5
    <3> QED
      BY <1>1, <1>8, <3>1, <3>2
  <2> QED
    BY <1>5, <2>1, <2>2, <2>3, <2>4, <2>5
<1>11. g \in Sorting(s, n + 1)
  BY <1>6, <1>10 DEF Sorting
<1> QED
  BY <1>11

\* Every sequence of numbers can be sorted: no length is the least at which it cannot.
LEMMA SortingExists ==
  ASSUME NEW s \in Seq(Nat)
  PROVE  Sorting(s, Len(s)) # {}
<1>1. Len(s) \in Nat
  BY LenProperties
<1> DEFINE T == {n \in 0..Len(s) : Sorting(s, n) = {}}
<1>2. SUFFICES ASSUME T # {} PROVE FALSE
  BY <1>1
<1>3. PICK n \in T : \A j \in T : n <= j
  <2>1. T \subseteq Nat
    BY <1>1
  <2> QED
    BY <1>2, <2>1, LeastIs
<1>4. n \in 0..Len(s) /\ Sorting(s, n) = {}
  OBVIOUS
<1>5. CASE n = 0
  <2> DEFINE f == [i \in 1..0 |-> i]
  <2>1. f \in Bijection(1..0, 1..0)
    BY DEF Bijection, Injection, Surjection, IsInjective
  <2>2. f \in Sorting(s, 0)
    BY <2>1 DEF Sorting
  <2> QED
    BY <1>4, <1>5, <2>2
<1>6. CASE n > 0
  <2>1. n - 1 \in 0..Len(s) /\ n - 1 \in Nat /\ n - 1 < Len(s) /\ n - 1 + 1 = n
    BY <1>1, <1>4, <1>6
  <2>2. Sorting(s, n - 1) # {}
    BY <1>1, <1>3, <2>1
  <2>3. Sorting(s, n - 1 + 1) # {}
    BY <2>1, <2>2, NextSorted
  <2> QED
    BY <1>4, <2>1, <2>3
<1> QED
  BY <1>1, <1>4, <1>5, <1>6

LEMMA SameLength ==
  ASSUME NEW a \in Nat, NEW b \in Nat, 1..a = 1..b
  PROVE  a = b
<1>1. a \in 1..b \/ a = 0
  OBVIOUS
<1>2. b \in 1..a \/ b = 0
  OBVIOUS
<1> QED
  BY <1>1, <1>2

\* The parts one after the other come in the order of the chat.
InOrder(parts) == \A j \in 1..Len(parts) - 1 : parts[j] <= parts[j + 1]

\* Merging keeps every part and puts them in order.
LEMMA MergedIs ==
  ASSUME NEW parts \in Seq(TgMessages)
  PROVE  /\ Merged(parts) \in Seq(TgMessages) /\ Range(Merged(parts)) = Range(parts)
         /\ InOrder(Merged(parts))
<1> DEFINE n == Len(parts)
           order == CHOOSE f \in Bijection(DOMAIN parts, DOMAIN parts) :
                      \A i, j \in DOMAIN parts : i < j => parts[f[i]] <= parts[f[j]]
           merged == [i \in 1..n |-> parts[order[i]]]
<1>1. n \in Nat /\ DOMAIN parts = 1..n /\ parts \in [1..n -> TgMessages]
  BY LenProperties
<1>2. parts \in Seq(Nat)
  BY ListenerAssumption, SeqMonotonic
<1>3. /\ order \in Bijection(1..n, 1..n)
      /\ \A i, j \in 1..n : i < j => parts[order[i]] <= parts[order[j]]
  <2>1. \E f \in Bijection(DOMAIN parts, DOMAIN parts) :
          \A i, j \in DOMAIN parts : i < j => parts[f[i]] <= parts[f[j]]
    BY <1>1, <1>2, SortingExists DEF Sorting
  <2> QED
    BY <1>1, <2>1
<1>4. Merged(parts) = merged
  BY <1>1 DEF Merged
<1> HIDE DEF order
<1>5. order \in [1..n -> 1..n] /\ \A v \in 1..n : \E i \in 1..n : order[i] = v
  BY <1>3 DEF Bijection, Injection, Surjection
<1>6. merged \in [1..n -> TgMessages]
  BY <1>1, <1>5
<1>7. merged \in Seq(TgMessages)
  BY <1>1, <1>6, SeqDef
<1>8. DOMAIN merged = 1..n /\ \A i \in 1..n : merged[i] = parts[order[i]]
  OBVIOUS
<1> HIDE DEF merged
<1>9. Len(merged) = n
  <2>1. Len(merged) \in Nat /\ DOMAIN merged = 1..Len(merged)
    BY <1>7, LenProperties
  <2> QED
    BY <1>1, <1>8, <2>1, SameLength
<1>10. Range(merged) = Range(parts)
  <2>1. ASSUME NEW i \in 1..n PROVE merged[i] \in Range(parts)
    BY <1>1, <1>5, <1>8 DEF Range
  <2>2. ASSUME NEW v \in 1..n PROVE parts[v] \in Range(merged)
    <3>1. PICK i \in 1..n : order[i] = v
      BY <1>5
    <3> QED
      BY <1>8, <3>1 DEF Range
  <2> QED
    BY <1>1, <1>8, <2>1, <2>2 DEF Range
<1>11. InOrder(merged)
  <2> SUFFICES ASSUME NEW j \in 1..n - 1 PROVE merged[j] <= merged[j + 1]
    BY <1>9 DEF InOrder
  <2>1. j \in 1..n /\ j + 1 \in 1..n /\ j < j + 1
    BY <1>1
  <2> QED
    BY <1>3, <1>8, <2>1
<1> QED
  BY <1>4, <1>7, <1>10, <1>11

\* The sequence made of a finite set has each element once.
LEMMA SequenceOfSet ==
  ASSUME NEW S, IsFiniteSet(S)
  PROVE  /\ SetToSeq(S) \in Seq(S) /\ Range(SetToSeq(S)) = S
         /\ IsInjective(SetToSeq(S))
<1> DEFINE n == Cardinality(S)
           s == SetToSeq(S)
<1>1. n \in Nat /\ Bijection(1..n, S) # {}
  BY FS_CardinalityType DEF ExistsBijection
<1>2. \E f \in [1..n -> S] : IsInjective(f)
  BY <1>1 DEF Bijection, Injection
<1>3. s \in [1..n -> S] /\ IsInjective(s)
  BY <1>2 DEF SetToSeq
<1> HIDE DEF s
<1>4. s \in Seq(S)
  BY <1>1, <1>3, SeqDef
<1>5. Cardinality(1..n) = n
  BY <1>1, FS_Interval
<1>6. s \in Surjection(1..n, S)
  BY <1>3, <1>5, FS_Injection DEF Injection
<1>7. Range(s) = S
  BY <1>3, <1>6 DEF Surjection, Range
<1> QED
  BY <1>3, <1>4, <1>7 DEF s

-----------------------------------------------------------------------------
(* The invariants of the listeners.                                         *)

TgTypes ==
  /\ watch \in Watch /\ created \in 0..MaxListeners /\ current \in 0..created
  /\ connected \subseteq 1..created /\ halfStarted \subseteq 1..created
  /\ written \subseteq TgMessages /\ handlers \subseteq Listeners \X TgMessages
  /\ group \in [Listeners -> [Albums -> Seq(TgMessages)]]
  /\ timers \in [Listeners -> [Albums -> SUBSET Nat]]
  /\ tgQueue \in Seq(Seq(TgMessages))

\* The manager holds the last listener it created while it listens, and no other.
WatchPlaced ==
  /\ watch \in {"first_get_me", "again_get_me", "listening"} => created > 0
  /\ current = IF watch = "listening" THEN created ELSE 0

Waiting(l) == {k \in Albums : group[l][k] # <<>>}

\* A group that waits has one timer, which was started with its last part.
BuffersExact ==
  \A l \in Listeners :
    /\ IsFiniteSet(Waiting(l))
    /\ \A k \in Albums :
         timers[l][k] = IF group[l][k] = <<>> THEN {} ELSE {Len(group[l][k])}

QueueInOrder == \A i \in DOMAIN tgQueue : InOrder(tgQueue[i])

\* Only the listener that is started or watched gets messages.
LoneListener ==
  Running => connected \subseteq
    IF watch \in {"first_get_me", "again_get_me", "listening"} THEN {created} ELSE {}

\* Where a message is.
Heard(p) == \E l \in Listeners : <<l, p>> \in handlers
Parked(p) == \E l \in Listeners, k \in Albums : p \in Range(group[l][k])
Queued(p) == \E i \in DOMAIN tgQueue : p \in Range(tgQueue[i])

\* A message that was written is in one handler, one group or one message of the queue.
OnePlace(p) ==
  /\ Heard(p) \/ Parked(p) \/ Queued(p) => p \in written
  /\ Heard(p) => ~Parked(p) /\ ~Queued(p)
  /\ Parked(p) => ~Queued(p)
  /\ \A l, m \in Listeners : <<l, p>> \in handlers /\ <<m, p>> \in handlers => l = m
  /\ \A l, m \in Listeners, j, k \in Albums :
       p \in Range(group[l][j]) /\ p \in Range(group[m][k]) => l = m /\ j = k
  /\ \A i, j \in DOMAIN tgQueue :
       p \in Range(tgQueue[i]) /\ p \in Range(tgQueue[j]) => i = j

HandledOnce == halfStarted = {} => LoneListener /\ \A p \in TgMessages : OnePlace(p)

TgInv == TgTypes /\ WatchPlaced /\ BuffersExact /\ QueueInOrder /\ HandledOnce

-----------------------------------------------------------------------------
(* The manager.                                                             *)

\* Whatever the step, the manager's variables keep their types and its listener its place.
LEMMA WatchKeeps ==
  ASSUME TgTypes, WatchPlaced, TgInNext
  PROVE  /\ watch' \in Watch /\ created' \in 0..MaxListeners /\ current' \in 0..created'
         /\ connected' \subseteq 1..created' /\ halfStarted' \subseteq 1..created'
         /\ written' \subseteq TgMessages /\ handlers' \subseteq Listeners \X TgMessages
         /\ WatchPlaced'
<1>1. /\ watch \in Watch /\ created \in 0..MaxListeners /\ current \in 0..created
      /\ connected \subseteq 1..created /\ halfStarted \subseteq 1..created
      /\ written \subseteq TgMessages /\ handlers \subseteq Listeners \X TgMessages
      /\ MaxListeners \in Nat
  BY ListenerAssumption DEF TgTypes
<1>2. connected \subseteq Listeners
  BY <1>1 DEF Listeners
<1>3. ASSUME NEW p \in TgMessages, WriteMessage(p)
      PROVE  /\ UNCHANGED <<watch, created, current, connected, halfStarted>>
             /\ written' \subseteq TgMessages /\ handlers' \subseteq Listeners \X TgMessages
  BY <1>1, <1>2, <1>3 DEF WriteMessage, manager
<1>4. ASSUME NEW h \in handlers, HandlerEnds(h[1], h[2]) \/ HandlerFails(h[1], h[2])
      PROVE  /\ UNCHANGED <<watch, created, current, connected, halfStarted, written>>
             /\ handlers' \subseteq Listeners \X TgMessages
  BY <1>1, <1>4 DEF HandlerEnds, HandlerFails, EndHandler, manager
<1>5. ASSUME NEW l \in Listeners, NEW k \in Albums, TimerEnds(l, k)
      PROVE  UNCHANGED <<watch, created, current, connected, halfStarted, written, handlers>>
  BY <1>5 DEF TimerEnds, manager
<1>6. CASE StartListener
  <2>1. /\ created < MaxListeners /\ created' = created + 1 /\ current' = current
        /\ connected' = connected \cup {created + 1} /\ halfStarted' = halfStarted
        /\ written' = written /\ handlers' = handlers
        /\ watch \in {"first", "again"} /\ watch' \in {"first_get_me", "again_get_me"}
    BY <1>6 DEF StartListener
  <2>2. created' \in 0..MaxListeners /\ 1..created \subseteq 1..created' /\ created' > 0
    BY <1>1, <2>1
  <2>3. connected' \subseteq 1..created' /\ halfStarted' \subseteq 1..created'
    BY <1>1, <2>1, <2>2
  <2>4. current' = 0
    BY <2>1 DEF WatchPlaced
  <2> QED
    BY <1>1, <2>1, <2>2, <2>3, <2>4 DEF WatchPlaced, Watch
<1>7. CASE ConnectFails \/ GetMeFails \/ PauseEnds
  <2>1. /\ UNCHANGED <<created, current, connected, written, handlers>>
        /\ watch' \in {"over", "pause", "again"} /\ watch # "listening"
    BY <1>7 DEF ConnectFails, GetMeFails, PauseEnds, StartFailed
  <2>2. halfStarted' = halfStarted \/ (halfStarted' = halfStarted \cup {created} /\ created > 0)
    BY <1>7 DEF ConnectFails, GetMeFails, PauseEnds, WatchPlaced
  <2>3. halfStarted' \subseteq 1..created
    <3>1. created > 0 => created \in 1..created
      BY <1>1
    <3> QED
      BY <1>1, <2>2, <3>1, Zenon
  <2> QED
    BY <1>1, <2>1, <2>3 DEF WatchPlaced, Watch
<1>8. CASE ListenerStarted
  <2>1. /\ UNCHANGED <<created, connected, written, handlers, halfStarted>>
        /\ watch' = "listening" /\ current' = created /\ created > 0
    BY <1>8 DEF ListenerStarted, WatchPlaced
  <2> QED
    BY <1>1, <2>1 DEF WatchPlaced, Watch
<1>9. ASSUME NEW l \in connected, ConnectionLost(l)
      PROVE  /\ UNCHANGED <<watch, created, current, halfStarted, written, handlers>>
             /\ connected' \subseteq connected
  BY <1>9 DEF ConnectionLost, manager
<1>10. CASE ReplaceListener \/ StopProcess
  <2>1. /\ UNCHANGED <<created, written, handlers, halfStarted>>
        /\ connected' \subseteq connected
        /\ current' = 0 /\ watch' \in {"over", "pause"}
    BY <1>10 DEF ReplaceListener, StopProcess
  <2> QED
    BY <1>1, <2>1 DEF WatchPlaced, Watch
<1> QED
  <2>1. CASE \/ \E p \in TgMessages : WriteMessage(p)
             \/ \E h \in handlers : HandlerEnds(h[1], h[2]) \/ HandlerFails(h[1], h[2])
             \/ \E l \in Listeners, k \in Albums : TimerEnds(l, k)
             \/ \E l \in connected : ConnectionLost(l)
    <3>1. /\ UNCHANGED <<watch, created, current, halfStarted>>
          /\ connected' \subseteq connected
          /\ written' \subseteq TgMessages /\ handlers' \subseteq Listeners \X TgMessages
      BY <1>1, <1>3, <1>4, <1>5, <1>9, <2>1
    <3> QED
      BY <1>1, <3>1 DEF WatchPlaced
  <2> QED
    BY <1>6, <1>7, <1>8, <1>10, <2>1 DEF TgInNext

\* No second listener gets messages beside the first, unless a start fails half-way.
LEMMA LoneKeeps ==
  ASSUME TgTypes, WatchPlaced, LoneListener, TgInNext, halfStarted' = {}
  PROVE  LoneListener'
<1>1. SUFFICES ASSUME watch' # "over"
               PROVE  connected' \subseteq
                        IF watch' \in {"first_get_me", "again_get_me", "listening"}
                          THEN {created'} ELSE {}
  BY DEF LoneListener, Running
<1>2. CASE watch = "over"
  <2>1. \/ StartListener \/ ConnectFails \/ ListenerStarted \/ GetMeFails
        \/ ReplaceListener \/ PauseEnds \/ StopProcess \/ watch' = watch
    BY DEF TgInNext, WriteMessage, HandlerEnds, HandlerFails, EndHandler, TimerEnds,
           ConnectionLost, manager
  <2> QED
    BY <1>1, <1>2, <2>1 DEF StartListener, ConnectFails, ListenerStarted, GetMeFails,
       ReplaceListener, PauseEnds, StopProcess
<1>3. CASE watch # "over"
  <2>1. connected \subseteq
          IF watch \in {"first_get_me", "again_get_me", "listening"} THEN {created} ELSE {}
    BY <1>3 DEF LoneListener, Running
  <2>2. CASE StartListener \/ ConnectFails \/ ListenerStarted \/ PauseEnds
    BY <2>1, <2>2 DEF StartListener, ConnectFails, ListenerStarted, PauseEnds, StartFailed
  <2>3. CASE GetMeFails
    BY <2>3 DEF GetMeFails
  <2>4. CASE ReplaceListener
    <3>1. current = created /\ created \notin connected
      BY <2>4 DEF ReplaceListener, WatchPlaced
    <3> QED
      BY <2>1, <2>4, <3>1 DEF ReplaceListener
  <2>5. CASE StopProcess
    BY <1>1, <2>5 DEF StopProcess
  <2>6. CASE \/ \E p \in TgMessages : WriteMessage(p)
             \/ \E h \in handlers : HandlerEnds(h[1], h[2]) \/ HandlerFails(h[1], h[2])
             \/ \E l \in Listeners, k \in Albums : TimerEnds(l, k)
             \/ \E l \in connected : ConnectionLost(l)
    <3>1. UNCHANGED <<watch, created>> /\ connected' \subseteq connected
      BY <2>6 DEF WriteMessage, HandlerEnds, HandlerFails, EndHandler, TimerEnds,
                  ConnectionLost, manager
    <3> QED
      BY <2>1, <3>1
  <2> QED
    BY <2>2, <2>3, <2>4, <2>5, <2>6 DEF TgInNext
<1> QED
  BY <1>2, <1>3

-----------------------------------------------------------------------------
(* The buffers.                                                             *)

LEMMA SetAt ==
  ASSUME NEW S, NEW f \in [Listeners -> [Albums -> S]],
         NEW l \in Listeners, NEW k \in Albums, NEW v \in S, NEW g,
         g = [f EXCEPT ![l][k] = v]
  PROVE  /\ g \in [Listeners -> [Albums -> S]]
         /\ g[l][k] = v
         /\ \A m \in Listeners, j \in Albums : m # l \/ j # k => g[m][j] = f[m][j]
<1>1. f[l] \in [Albums -> S]
  OBVIOUS
<1> DEFINE row == [f[l] EXCEPT ![k] = v]
<1>2. row \in [Albums -> S] /\ row[k] = v /\ \A j \in Albums : j # k => row[j] = f[l][j]
  BY <1>1
<1>3. g = [f EXCEPT ![l] = row]
  OBVIOUS
<1> HIDE DEF row
<1>4. /\ g \in [Listeners -> [Albums -> S]] /\ g[l] = row
      /\ \A m \in Listeners : m # l => g[m] = f[m]
  BY <1>2, <1>3
<1> QED
  BY <1>2, <1>4

LEMMA OneIs ==
  ASSUME NEW S, NEW p \in S
  PROVE  <<p>> \in Seq(S) /\ Range(<<p>>) = {p} /\ Len(<<p>>) = 1
<1> DEFINE one == <<p>>
<1>1. one \in Seq(S) /\ DOMAIN one = {1} /\ one[1] = p /\ Len(one) = 1
  <2>1. one \in Seq(S) /\ DOMAIN one = 1..1 /\ one[1] = p /\ Len(one) = 1
    OBVIOUS
  <2>2. 1..1 = {1}
    OBVIOUS
  <2> QED
    BY <2>1, <2>2
<1> HIDE DEF one
<1>2. Range(one) = {p}
  BY <1>1 DEF Range
<1> QED
  BY <1>1, <1>2 DEF one

\* A part is appended to those that wait.
LEMMA AppendedIs ==
  ASSUME NEW S, NEW old \in Seq(S), NEW p \in S
  PROVE  /\ Append(old, p) \in Seq(S) /\ Append(old, p) # <<>>
         /\ Len(Append(old, p)) \in Nat /\ Range(Append(old, p)) = Range(old) \cup {p}
<1>1. Append(old, p) \in Seq(S) /\ Append(old, p) # <<>>
  BY AppendProperties
<1>2. Append(old, p) = old \o <<p>>
  BY AppendIsConcat
<1>3. <<p>> \in Seq(S) /\ Range(<<p>>) = {p}
  BY OneIs
<1>4. Range(old \o <<p>>) = Range(old) \cup Range(<<p>>)
  BY <1>3, RangeConcatenation
<1>5. Len(Append(old, p)) \in Nat
  BY <1>1, LenProperties
<1> QED
  BY <1>1, <1>2, <1>3, <1>4, <1>5

\* A part that is buffered restarts the timer of its group.
LEMMA PartBuffered ==
  ASSUME TgTypes, BuffersExact, NEW l \in Listeners, NEW p \in TgMessages, Buffer(l, p),
         AlbumOf[p] # NoAlbum
  PROVE  /\ group' \in [Listeners -> [Albums -> Seq(TgMessages)]]
         /\ timers' \in [Listeners -> [Albums -> SUBSET Nat]]
         /\ BuffersExact' /\ tgQueue' = tgQueue
         /\ Range(group'[l][AlbumOf[p]]) = Range(group[l][AlbumOf[p]]) \cup {p}
         /\ \A m \in Listeners, j \in Albums :
              m # l \/ j # AlbumOf[p] => group'[m][j] = group[m][j]
<1> DEFINE k == AlbumOf[p]
           parts == Append(group[l][k], p)
<1>1. k \in Albums
  BY ListenerAssumption
<1>2. /\ group \in [Listeners -> [Albums -> Seq(TgMessages)]]
      /\ timers \in [Listeners -> [Albums -> SUBSET Nat]]
      /\ group[l][k] \in Seq(TgMessages)
  BY <1>1 DEF TgTypes
<1>3. /\ parts \in Seq(TgMessages) /\ parts # <<>> /\ Len(parts) \in Nat
      /\ Range(parts) = Range(group[l][k]) \cup {p}
  BY <1>2, AppendedIs
<1>4. /\ group' = [group EXCEPT ![l][k] = parts] /\ tgQueue' = tgQueue
      /\ timers' = [timers EXCEPT ![l][k] = {Len(group'[l][k])}]
  BY DEF Buffer, Restarted
<1> HIDE DEF k, parts
<1>5. /\ group' \in [Listeners -> [Albums -> Seq(TgMessages)]] /\ group'[l][k] = parts
      /\ \A m \in Listeners, j \in Albums : m # l \/ j # k => group'[m][j] = group[m][j]
  BY <1>1, <1>2, <1>3, <1>4, SetAt
<1>6. /\ timers' \in [Listeners -> [Albums -> SUBSET Nat]] /\ timers'[l][k] = {Len(parts)}
      /\ \A m \in Listeners, j \in Albums : m # l \/ j # k => timers'[m][j] = timers[m][j]
  <2>1. timers' = [timers EXCEPT ![l][k] = {Len(parts)}] /\ {Len(parts)} \in SUBSET Nat
    BY <1>3, <1>4, <1>5
  <2> QED
    BY <1>1, <1>2, <2>1, SetAt
<1>7. BuffersExact'
  <2> SUFFICES ASSUME NEW m \in Listeners
               PROVE  /\ IsFiniteSet(Waiting(m)')
                      /\ \A j \in Albums :
                           timers'[m][j] = IF group'[m][j] = <<>> THEN {}
                                           ELSE {Len(group'[m][j])}
    BY DEF BuffersExact
  <2>1. /\ IsFiniteSet(Waiting(m))
        /\ \A j \in Albums :
             timers[m][j] = IF group[m][j] = <<>> THEN {} ELSE {Len(group[m][j])}
    BY DEF BuffersExact
  <2>2. Waiting(m)' \subseteq Waiting(m) \cup {k}
    BY <1>5 DEF Waiting
  <2>3. IsFiniteSet(Waiting(m)')
    BY <2>1, <2>2, FS_AddElement, FS_Subset
  <2> QED
    BY <1>3, <1>5, <1>6, <2>1, <2>3
<1> QED
  BY <1>3, <1>4, <1>5, <1>6, <1>7 DEF k

\* The albums of a listener that a step hands on, one after the other.
HandsOn(l, full) ==
  /\ full \in Seq(Albums) /\ IsInjective(full)
  /\ tgQueue' = tgQueue \o [i \in DOMAIN full |-> Merged(group[l][full[i]])]
  /\ group' \in [Listeners -> [Albums -> Seq(TgMessages)]]
  /\ \A m \in Listeners, k \in Albums :
       group'[m][k] = IF m = l /\ k \in Range(full) THEN <<>> ELSE group[m][k]

LEMMA TimerHandsOn ==
  ASSUME TgTypes, BuffersExact, NEW l \in Listeners, NEW k \in Albums, TimerEnds(l, k)
  PROVE  /\ HandsOn(l, <<k>>)
         /\ timers' \in [Listeners -> [Albums -> SUBSET Nat]] /\ BuffersExact'
         /\ group[l][k] # <<>> /\ Len(group[l][k]) \in timers[l][k] \ timers'[l][k]
         /\ \A m \in Listeners, j \in Albums :
              group[m][j] # <<>> /\ group'[m][j] = <<>> => m = l /\ j = k
<1>1. /\ group \in [Listeners -> [Albums -> Seq(TgMessages)]]
      /\ timers \in [Listeners -> [Albums -> SUBSET Nat]]
      /\ group[l][k] \in Seq(TgMessages)
      /\ tgQueue \in Seq(Seq(TgMessages))
  BY DEF TgTypes
<1>2. PICK n \in timers[l][k] : timers' = [timers EXCEPT ![l][k] = timers[l][k] \ {n}]
  BY DEF TimerEnds
<1>3. group[l][k] # <<>> /\ timers[l][k] = {Len(group[l][k])} /\ n = Len(group[l][k])
  BY <1>2 DEF BuffersExact
<1>4. timers[l][k] \ {n} = {}
  BY <1>3
<1>5. /\ timers' \in [Listeners -> [Albums -> SUBSET Nat]] /\ timers'[l][k] = {}
      /\ \A m \in Listeners, j \in Albums : m # l \/ j # k => timers'[m][j] = timers[m][j]
  <2>1. timers' = [timers EXCEPT ![l][k] = {}] /\ {} \in SUBSET Nat
    BY <1>2, <1>4
  <2> QED
    BY <1>1, <2>1, SetAt
<1>6. /\ group' \in [Listeners -> [Albums -> Seq(TgMessages)]] /\ group'[l][k] = <<>>
      /\ \A m \in Listeners, j \in Albums : m # l \/ j # k => group'[m][j] = group[m][j]
  <2>1. group' = [group EXCEPT ![l][k] = <<>>] /\ <<>> \in Seq(TgMessages)
    BY EmptySeq DEF TimerEnds, Popped
  <2> QED
    BY <1>1, <2>1, SetAt
<1>7. HandsOn(l, <<k>>)
  <2>1. /\ <<k>> \in Seq(Albums) /\ IsInjective(<<k>>) /\ Range(<<k>>) = {k}
        /\ DOMAIN <<k>> = 1..1
    BY DEF IsInjective, Range
  <2>2. [i \in DOMAIN <<k>> |-> Merged(group[l][<<k>>[i]])] = <<Merged(group[l][k])>>
    BY <2>1
  <2>3. tgQueue' = Append(tgQueue, Merged(group[l][k]))
    BY <1>3 DEF TimerEnds
  <2>4. tgQueue' = tgQueue \o <<Merged(group[l][k])>>
    BY <1>1, <2>3, MergedIs, AppendIsConcat
  <2> QED
    BY <1>6, <2>1, <2>2, <2>4 DEF HandsOn
<1>8. BuffersExact'
  <2> SUFFICES ASSUME NEW m \in Listeners
               PROVE  /\ IsFiniteSet(Waiting(m)')
                      /\ \A j \in Albums :
                           timers'[m][j] = IF group'[m][j] = <<>> THEN {}
                                           ELSE {Len(group'[m][j])}
    BY DEF BuffersExact
  <2>1. /\ IsFiniteSet(Waiting(m))
        /\ \A j \in Albums :
             timers[m][j] = IF group[m][j] = <<>> THEN {} ELSE {Len(group[m][j])}
    BY DEF BuffersExact
  <2>2. Waiting(m)' \subseteq Waiting(m)
    BY <1>6 DEF Waiting
  <2> QED
    BY <1>5, <1>6, <2>1, <2>2, FS_Subset
<1> QED
  BY <1>3, <1>5, <1>6, <1>7, <1>8

LEMMA FlushHandsOn ==
  ASSUME TgTypes, BuffersExact, NEW l \in Listeners, FlushAll(l)
  PROVE  /\ HandsOn(l, SetToSeq(Waiting(l)))
         /\ timers' \in [Listeners -> [Albums -> SUBSET Nat]] /\ BuffersExact'
<1> DEFINE full == SetToSeq(Waiting(l))
<1>1. /\ group \in [Listeners -> [Albums -> Seq(TgMessages)]]
      /\ timers \in [Listeners -> [Albums -> SUBSET Nat]]
  BY DEF TgTypes
<1>2. IsFiniteSet(Waiting(l)) /\ Waiting(l) \subseteq Albums
  BY DEF BuffersExact, Waiting
<1>3. full \in Seq(Albums) /\ IsInjective(full) /\ Range(full) = Waiting(l)
  BY <1>2, SequenceOfSet, SeqMonotonic
<1>4. /\ tgQueue' = tgQueue \o [i \in DOMAIN full |-> Merged(group[l][full[i]])]
      /\ group' = [group EXCEPT ![l] = [k \in Albums |-> <<>>]]
      /\ timers' = [timers EXCEPT ![l] = [k \in Albums |-> {}]]
  BY DEF FlushAll, Waiting
<1> HIDE DEF full
<1>5. /\ group' \in [Listeners -> [Albums -> Seq(TgMessages)]]
      /\ \A k \in Albums : group'[l][k] = <<>>
      /\ \A m \in Listeners : m # l => group'[m] = group[m]
  <2>1. [k \in Albums |-> <<>>] \in [Albums -> Seq(TgMessages)]
    BY EmptySeq
  <2> QED
    BY <1>1, <1>4, <2>1
<1>6. /\ timers' \in [Listeners -> [Albums -> SUBSET Nat]]
      /\ \A k \in Albums : timers'[l][k] = {}
      /\ \A m \in Listeners : m # l => timers'[m] = timers[m]
  BY <1>1, <1>4
<1>7. ASSUME NEW m \in Listeners, NEW k \in Albums
      PROVE  group'[m][k] = IF m = l /\ k \in Range(full) THEN <<>> ELSE group[m][k]
  <2>1. k \notin Range(full) => group[l][k] = <<>>
    BY <1>3 DEF Waiting
  <2> QED
    BY <1>5, <2>1
<1>8. HandsOn(l, full)
  BY <1>3, <1>4, <1>5, <1>7 DEF HandsOn
<1>9. BuffersExact'
  <2> SUFFICES ASSUME NEW m \in Listeners
               PROVE  /\ IsFiniteSet(Waiting(m)')
                      /\ \A j \in Albums :
                           timers'[m][j] = IF group'[m][j] = <<>> THEN {}
                                           ELSE {Len(group'[m][j])}
    BY DEF BuffersExact
  <2>1. /\ IsFiniteSet(Waiting(m))
        /\ \A j \in Albums :
             timers[m][j] = IF group[m][j] = <<>> THEN {} ELSE {Len(group[m][j])}
    BY DEF BuffersExact
  <2>2. Waiting(m)' \subseteq Waiting(m)
    BY <1>5 DEF Waiting
  <2> QED
    BY <1>5, <1>6, <2>1, <2>2, FS_Subset
<1> QED
  BY <1>6, <1>8, <1>9 DEF full

\* The queue after albums were handed on.
LEMMA QueueAfter ==
  ASSUME TgTypes, NEW l \in Listeners, NEW full, HandsOn(l, full)
  PROVE  /\ Len(tgQueue) \in Nat /\ Len(full) \in Nat
         /\ tgQueue' \in Seq(Seq(TgMessages))
         /\ DOMAIN tgQueue = 1..Len(tgQueue) /\ DOMAIN full = 1..Len(full)
         /\ DOMAIN tgQueue' = 1..Len(tgQueue) + Len(full)
         /\ \A i \in 1..Len(tgQueue) : tgQueue'[i] = tgQueue[i]
         /\ \A j \in 1..Len(full) :
              /\ full[j] \in Albums /\ group[l][full[j]] \in Seq(TgMessages)
              /\ tgQueue'[Len(tgQueue) + j] = Merged(group[l][full[j]])
<1> DEFINE new == [i \in DOMAIN full |-> Merged(group[l][full[i]])]
<1>1. /\ full \in Seq(Albums) /\ tgQueue \in Seq(Seq(TgMessages))
      /\ group \in [Listeners -> [Albums -> Seq(TgMessages)]] /\ tgQueue' = tgQueue \o new
  BY DEF TgTypes, HandsOn
<1>2. /\ Len(full) \in Nat /\ DOMAIN full = 1..Len(full) /\ Len(tgQueue) \in Nat
      /\ DOMAIN tgQueue = 1..Len(tgQueue)
  BY <1>1, LenProperties
<1>3. \A j \in 1..Len(full) : full[j] \in Albums /\ group[l][full[j]] \in Seq(TgMessages)
  BY <1>1, ElementOfSeq
<1>4. \A j \in 1..Len(full) : Merged(group[l][full[j]]) \in Seq(TgMessages)
  BY <1>3, MergedIs
<1>5. new \in [1..Len(full) -> Seq(TgMessages)]
  BY <1>2, <1>4
<1>6. \A j \in 1..Len(full) : new[j] = Merged(group[l][full[j]])
  BY <1>2
<1> HIDE DEF new
<1>7. new \in Seq(Seq(TgMessages))
  BY <1>2, <1>5, SeqDef
<1>8. Len(new) = Len(full)
  <2>1. Len(new) \in Nat /\ DOMAIN new = 1..Len(new)
    BY <1>7, LenProperties
  <2>2. 1..Len(new) = 1..Len(full)
    BY <1>5, <2>1
  <2> QED
    BY <1>2, <2>1, <2>2, SameLength
<1>9. /\ tgQueue' \in Seq(Seq(TgMessages)) /\ Len(tgQueue') = Len(tgQueue) + Len(full)
      /\ \A i \in 1..Len(tgQueue) + Len(full) :
           tgQueue'[i] = IF i <= Len(tgQueue) THEN tgQueue[i] ELSE new[i - Len(tgQueue)]
  <2> DEFINE q == tgQueue'
  <2>1. q = tgQueue \o new
    BY <1>1
  <2> HIDE DEF q
  <2>2. /\ q \in Seq(Seq(TgMessages)) /\ Len(q) = Len(tgQueue) + Len(new)
        /\ \A i \in 1..Len(tgQueue) + Len(new) :
             q[i] = IF i <= Len(tgQueue) THEN tgQueue[i] ELSE new[i - Len(tgQueue)]
    BY <1>1, <1>7, <2>1, ConcatProperties
  <2> QED
    BY <1>8, <2>2 DEF q
<1>10. DOMAIN tgQueue' = 1..Len(tgQueue) + Len(full)
  BY <1>9, LenProperties
<1>11. \A i \in 1..Len(tgQueue) : tgQueue'[i] = tgQueue[i]
  BY <1>2, <1>9
<1>12. ASSUME NEW j \in 1..Len(full)
       PROVE  tgQueue'[Len(tgQueue) + j] = Merged(group[l][full[j]])
  <2>1. /\ Len(tgQueue) + j \in 1..Len(tgQueue) + Len(full)
        /\ ~(Len(tgQueue) + j <= Len(tgQueue)) /\ Len(tgQueue) + j - Len(tgQueue) = j
    BY <1>2
  <2>2. tgQueue'[Len(tgQueue) + j] = new[j]
    BY <1>9, <2>1
  <2> QED
    BY <1>6, <2>2
<1> QED
  BY <1>2, <1>3, <1>9, <1>10, <1>11, <1>12

LEMMA OrderHandedOn ==
  ASSUME TgTypes, QueueInOrder, NEW l \in Listeners, NEW full, HandsOn(l, full)
  PROVE  QueueInOrder'
<1> SUFFICES ASSUME NEW i \in DOMAIN tgQueue' PROVE InOrder(tgQueue'[i])
  BY DEF QueueInOrder, InOrder
<1>1. /\ Len(tgQueue) \in Nat /\ Len(full) \in Nat
      /\ i \in 1..Len(tgQueue) + Len(full) /\ DOMAIN tgQueue = 1..Len(tgQueue)
  BY QueueAfter
<1>2. CASE i \in 1..Len(tgQueue)
  <2>1. tgQueue'[i] = tgQueue[i]
    BY <1>2, QueueAfter
  <2> QED
    BY <1>1, <1>2, <2>1 DEF QueueInOrder
<1>3. CASE i > Len(tgQueue)
  <2> DEFINE j == i - Len(tgQueue)
  <2>1. j \in 1..Len(full) /\ i = Len(tgQueue) + j
    BY <1>1, <1>3
  <2> HIDE DEF j
  <2>2. group[l][full[j]] \in Seq(TgMessages) /\ tgQueue'[i] = Merged(group[l][full[j]])
    BY <2>1, QueueAfter
  <2> QED
    BY <2>2, MergedIs
<1> QED
  BY <1>1, <1>2, <1>3

\* A part that is handed on leaves its group for one message of the queue.
LEMMA PlaceHandedOn ==
  ASSUME TgTypes, NEW l \in Listeners, NEW full, HandsOn(l, full), UNCHANGED <<written, handlers>>,
         NEW p \in TgMessages, OnePlace(p)
  PROVE  OnePlace(p)'
<1> DEFINE n == Len(tgQueue)
           Joins(j) == p \in Range(group[l][full[j]])
<1>1. /\ n \in Nat /\ Len(full) \in Nat
      /\ DOMAIN tgQueue = 1..n /\ DOMAIN full = 1..Len(full)
      /\ DOMAIN tgQueue' = 1..n + Len(full)
      /\ \A i \in 1..n : tgQueue'[i] = tgQueue[i]
      /\ \A j \in 1..Len(full) :
           /\ full[j] \in Albums /\ group[l][full[j]] \in Seq(TgMessages)
           /\ tgQueue'[n + j] = Merged(group[l][full[j]])
  BY QueueAfter
<1>2. ASSUME NEW i \in DOMAIN tgQueue', p \in Range(tgQueue'[i])
      PROVE  \/ i \in DOMAIN tgQueue /\ p \in Range(tgQueue[i])
             \/ \E j \in 1..Len(full) : i = n + j /\ Joins(j)
  <2>1. CASE i \in 1..n
    BY <1>1, <1>2, <2>1
  <2>2. CASE i > n
    <3> DEFINE j == i - n
    <3>1. j \in 1..Len(full) /\ i = n + j
      BY <1>1, <2>2
    <3> HIDE DEF j, n
    <3>2. Range(tgQueue'[i]) = Range(group[l][full[j]])
      BY <1>1, <3>1, MergedIs
    <3> QED
      BY <1>2, <3>1, <3>2
  <2> QED
    BY <1>1, <2>1, <2>2
<1>3. \A j \in 1..Len(full) : Joins(j) => Parked(p)
  BY <1>1 DEF Parked
<1>4. ASSUME NEW m \in Listeners, NEW k \in Albums, p \in Range(group'[m][k])
      PROVE  p \in Range(group[m][k]) /\ ~(m = l /\ k \in Range(full))
  <2>1. Range(<<>>) = {}
    BY EmptySeq DEF Range
  <2> QED
    BY <1>4, <2>1 DEF HandsOn
<1>5. Parked(p)' => Parked(p)
  BY <1>4 DEF Parked
<1>6. Queued(p)' => Queued(p) \/ \E j \in 1..Len(full) : Joins(j)
  BY <1>2 DEF Queued
<1>7. ASSUME NEW j \in 1..Len(full), Joins(j)
      PROVE  ~Parked(p)' /\ ~Queued(p)
  <2>1. full[j] \in Albums /\ full[j] \in Range(full)
    BY <1>1 DEF Range
  <2>2. \A m \in Listeners, k \in Albums : p \in Range(group[m][k]) => m = l /\ k = full[j]
    BY <1>7, <2>1 DEF OnePlace
  <2>3. ~Parked(p)'
    BY <1>4, <2>1, <2>2 DEF Parked
  <2>4. ~Queued(p)
    BY <1>3, <1>7 DEF OnePlace
  <2> QED
    BY <2>3, <2>4
<1>8. Heard(p)' <=> Heard(p)
  BY DEF Heard
<1>9. ASSUME NEW i \in DOMAIN tgQueue', NEW j \in DOMAIN tgQueue',
             p \in Range(tgQueue'[i]), p \in Range(tgQueue'[j])
      PROVE  i = j
  <2>1. CASE Queued(p)
    <3>1. \A x \in 1..Len(full) : ~Joins(x)
      BY <1>7, <2>1
    <3>2. i \in DOMAIN tgQueue /\ p \in Range(tgQueue[i])
      BY <1>2, <1>9, <3>1
    <3>3. j \in DOMAIN tgQueue /\ p \in Range(tgQueue[j])
      BY <1>2, <1>9, <3>1
    <3> QED
      BY <3>2, <3>3 DEF OnePlace
  <2>2. CASE ~Queued(p)
    <3>1. PICK x \in 1..Len(full) : i = n + x /\ Joins(x)
      BY <1>2, <1>9, <2>2 DEF Queued
    <3>2. PICK y \in 1..Len(full) : j = n + y /\ Joins(y)
      BY <1>2, <1>9, <2>2 DEF Queued
    <3>3. full[x] = full[y]
      BY <1>1, <3>1, <3>2 DEF OnePlace
    <3>4. x = y
      BY <1>1, <3>3 DEF HandsOn, IsInjective
    <3> QED
      BY <3>1, <3>2, <3>4
  <2> QED
    BY <2>1, <2>2
<1>10. /\ Heard(p)' \/ Parked(p)' \/ Queued(p)' => p \in written'
       /\ Heard(p)' => ~Parked(p)' /\ ~Queued(p)'
       /\ Parked(p)' => ~Queued(p)'
  <2> HIDE DEF Joins
  <2>1. /\ Heard(p) \/ Parked(p) \/ Queued(p) => p \in written
        /\ Heard(p) => ~Parked(p) /\ ~Queued(p)
        /\ Parked(p) => ~Queued(p)
    BY DEF OnePlace
  <2> QED
    BY <1>3, <1>5, <1>6, <1>7, <1>8, <2>1
<1>11. \A m, k \in Listeners :
         <<m, p>> \in handlers' /\ <<k, p>> \in handlers' => m = k
  BY DEF OnePlace
<1>12. \A m, o \in Listeners, j, k \in Albums :
         p \in Range(group'[m][j]) /\ p \in Range(group'[o][k]) => m = o /\ j = k
  BY <1>4 DEF OnePlace
<1> QED
  BY <1>9, <1>10, <1>11, <1>12 DEF OnePlace

\* A message that is no part of an album is put into the queue alone.
LEMMA AloneQueued ==
  ASSUME TgTypes, NEW l \in Listeners, NEW q \in TgMessages, Buffer(l, q), AlbumOf[q] = NoAlbum
  PROVE  /\ UNCHANGED <<group, timers>> /\ tgQueue' \in Seq(Seq(TgMessages))
         /\ QueueInOrder => QueueInOrder'
         /\ \A p \in TgMessages : \A i \in DOMAIN tgQueue' : p \in Range(tgQueue'[i]) =>
              \/ i \in DOMAIN tgQueue /\ p \in Range(tgQueue[i])
              \/ i = Len(tgQueue) + 1 /\ p = q
<1>1. /\ UNCHANGED <<group, timers>> /\ tgQueue' = Append(tgQueue, <<q>>)
      /\ tgQueue \in Seq(Seq(TgMessages))
  BY DEF Buffer, TgTypes
<1>2. <<q>> \in Seq(TgMessages) /\ Range(<<q>>) = {q} /\ Len(<<q>>) = 1
  BY OneIs
<1>3. InOrder(<<q>>)
  BY <1>2 DEF InOrder
<1> DEFINE one == <<q>>
<1> HIDE DEF one
<1>4. one \in Seq(TgMessages) /\ Range(one) = {q} /\ InOrder(one)
      /\ tgQueue' = Append(tgQueue, one)
  BY <1>1, <1>2, <1>3 DEF one
<1>5. /\ tgQueue' \in Seq(Seq(TgMessages)) /\ Len(tgQueue') = Len(tgQueue) + 1
      /\ \A i \in 1..Len(tgQueue) : tgQueue'[i] = tgQueue[i]
      /\ tgQueue'[Len(tgQueue) + 1] = one
  <2> DEFINE longer == tgQueue'
  <2>1. longer = Append(tgQueue, one)
    BY <1>4
  <2> HIDE DEF longer
  <2>2. /\ longer \in Seq(Seq(TgMessages)) /\ Len(longer) = Len(tgQueue) + 1
        /\ \A i \in 1..Len(tgQueue) : longer[i] = tgQueue[i]
        /\ longer[Len(tgQueue) + 1] = one
    BY <1>1, <1>4, <2>1, AppendProperties
  <2> QED
    BY <2>2 DEF longer
<1>6. /\ Len(tgQueue) \in Nat /\ DOMAIN tgQueue = 1..Len(tgQueue)
      /\ DOMAIN tgQueue' = 1..Len(tgQueue) + 1
  BY <1>1, <1>5, LenProperties
<1>7. ASSUME NEW i \in DOMAIN tgQueue'
      PROVE  \/ i \in DOMAIN tgQueue /\ tgQueue'[i] = tgQueue[i]
             \/ i = Len(tgQueue) + 1 /\ tgQueue'[i] = one
  <2>1. i \in 1..Len(tgQueue) \/ i = Len(tgQueue) + 1
    BY <1>6
  <2> QED
    BY <1>5, <1>6, <2>1
<1>8. QueueInOrder => QueueInOrder'
  <2> SUFFICES ASSUME QueueInOrder, NEW i \in DOMAIN tgQueue' PROVE InOrder(tgQueue'[i])
    BY DEF QueueInOrder, InOrder
  <2> QED
    BY <1>4, <1>7 DEF QueueInOrder
<1> QED
  BY <1>1, <1>4, <1>5, <1>7, <1>8

\* Nothing but the end of handlers.
LEMMA PlaceStays ==
  ASSUME UNCHANGED <<written, group, tgQueue>>, handlers' \subseteq handlers,
         NEW p \in TgMessages, OnePlace(p)
  PROVE  OnePlace(p)'
<1>1. (Parked(p)' <=> Parked(p)) /\ (Queued(p)' <=> Queued(p)) /\ (Heard(p)' => Heard(p))
  BY DEF Parked, Queued, Heard
<1> QED
  BY <1>1 DEF OnePlace

\* The listener that is alone starts one handler for a message.
LEMMA PlaceWritten ==
  ASSUME LoneListener, NEW q \in TgMessages, WriteMessage(q), NEW p \in TgMessages, OnePlace(p)
  PROVE  OnePlace(p)'
<1>1. /\ watch # "over" /\ q \notin written /\ written' = written \cup {q}
      /\ handlers' = handlers \cup (connected \X {q}) /\ UNCHANGED <<group, tgQueue>>
  BY DEF WriteMessage, Running, buffers
<1>2. \A l, m \in connected : l = m
  BY <1>1 DEF LoneListener, Running
<1>3. (Parked(p)' <=> Parked(p)) /\ (Queued(p)' <=> Queued(p))
  BY <1>1 DEF Parked, Queued
<1>4. \A l, m \in Listeners, j, k \in Albums :
        p \in Range(group'[l][j]) /\ p \in Range(group'[m][k]) => l = m /\ j = k
  BY <1>1 DEF OnePlace
<1>5. \A i, j \in DOMAIN tgQueue' :
        p \in Range(tgQueue'[i]) /\ p \in Range(tgQueue'[j]) => i = j
  BY <1>1 DEF OnePlace
<1>6. CASE p = q
  <2>1. ~Heard(p) /\ ~Parked(p) /\ ~Queued(p)
    BY <1>1, <1>6 DEF OnePlace
  <2>2. \A l \in Listeners : <<l, p>> \in handlers' => l \in connected
    BY <1>1, <2>1 DEF Heard
  <2> QED
    BY <1>1, <1>2, <1>3, <1>4, <1>5, <1>6, <2>1, <2>2 DEF OnePlace
<1>7. CASE p # q
  <2>1. \A l \in Listeners : <<l, p>> \in handlers' <=> <<l, p>> \in handlers
    BY <1>1, <1>7
  <2>2. Heard(p)' <=> Heard(p)
    BY <2>1 DEF Heard
  <2> QED
    BY <1>1, <1>3, <1>4, <1>5, <2>1, <2>2 DEF OnePlace
<1> QED
  BY <1>6, <1>7

\* The message of a handler that ends goes into its group or into the queue.
LEMMA PlaceBuffered ==
  ASSUME TgTypes, BuffersExact, NEW l \in Listeners, NEW q \in TgMessages, HandlerEnds(l, q),
         NEW p \in TgMessages, OnePlace(p)
  PROVE  OnePlace(p)'
<1>1. /\ <<l, q>> \in handlers /\ handlers' = handlers \ {<<l, q>>} /\ written' = written
      /\ Buffer(l, q)
  BY DEF HandlerEnds, EndHandler
<1>2. /\ Heard(p)' => Heard(p)
      /\ p = q => Heard(p) /\ ~Heard(p)'
  <2>1. Heard(p)' => Heard(p)
    BY <1>1 DEF Heard
  <2>2. p = q => Heard(p)
    BY <1>1 DEF Heard
  <2>3. ASSUME p = q, NEW m \in Listeners, <<m, p>> \in handlers' PROVE FALSE
    <3>1. m = l
      BY <1>1, <2>3 DEF OnePlace
    <3> QED
      BY <1>1, <2>3, <3>1
  <2>4. p = q => ~Heard(p)'
    BY <2>3 DEF Heard
  <2> QED
    BY <2>1, <2>2, <2>4
<1>3. \A m, o \in Listeners : <<m, p>> \in handlers' /\ <<o, p>> \in handlers' => m = o
  BY <1>1 DEF OnePlace
<1>4. /\ Heard(p) \/ Parked(p) \/ Queued(p) => p \in written
      /\ Heard(p) => ~Parked(p) /\ ~Queued(p)
      /\ Parked(p) => ~Queued(p)
  BY DEF OnePlace
<1>5. CASE AlbumOf[q] = NoAlbum
  <2>1. /\ group' = group
        /\ \A i \in DOMAIN tgQueue' : p \in Range(tgQueue'[i]) =>
             \/ i \in DOMAIN tgQueue /\ p \in Range(tgQueue[i])
             \/ i = Len(tgQueue) + 1 /\ p = q
    BY <1>1, <1>5, AloneQueued
  <2>2. (Parked(p)' <=> Parked(p)) /\ (Queued(p)' => Queued(p) \/ p = q)
    BY <2>1 DEF Parked, Queued
  <2>3. ASSUME NEW i \in DOMAIN tgQueue', NEW j \in DOMAIN tgQueue',
               p \in Range(tgQueue'[i]), p \in Range(tgQueue'[j])
        PROVE  i = j
    <3>1. p = q => ~Queued(p)
      BY <1>2, <1>4
    <3> QED
      BY <2>1, <2>3, <3>1 DEF Queued, OnePlace
  <2>4. \A m, o \in Listeners, j, k \in Albums :
          p \in Range(group'[m][j]) /\ p \in Range(group'[o][k]) => m = o /\ j = k
    BY <2>1 DEF OnePlace
  <2>5. /\ Heard(p)' \/ Parked(p)' \/ Queued(p)' => p \in written'
        /\ Heard(p)' => ~Parked(p)' /\ ~Queued(p)'
        /\ Parked(p)' => ~Queued(p)'
    BY <1>1, <1>2, <1>4, <2>2
  <2> QED
    BY <1>3, <2>3, <2>4, <2>5 DEF OnePlace
<1>6. CASE AlbumOf[q] # NoAlbum
  <2>1. /\ tgQueue' = tgQueue
        /\ Range(group'[l][AlbumOf[q]]) = Range(group[l][AlbumOf[q]]) \cup {q}
        /\ \A m \in Listeners, j \in Albums :
             m # l \/ j # AlbumOf[q] => group'[m][j] = group[m][j]
    BY <1>1, <1>6, PartBuffered
  <2>2. ASSUME NEW m \in Listeners, NEW j \in Albums, p \in Range(group'[m][j])
        PROVE  p \in Range(group[m][j]) \/ (p = q /\ m = l /\ j = AlbumOf[q])
    BY <2>1, <2>2
  <2>3. (Queued(p)' <=> Queued(p)) /\ (Parked(p)' => Parked(p) \/ p = q)
    BY <2>1, <2>2 DEF Queued, Parked
  <2>4. ASSUME NEW m \in Listeners, NEW o \in Listeners, NEW j \in Albums, NEW k \in Albums,
               p \in Range(group'[m][j]), p \in Range(group'[o][k])
        PROVE  m = o /\ j = k
    <3>1. p = q => ~Parked(p)
      BY <1>2, <1>4
    <3> QED
      BY <2>2, <2>4, <3>1 DEF Parked, OnePlace
  <2>5. \A i, j \in DOMAIN tgQueue' :
          p \in Range(tgQueue'[i]) /\ p \in Range(tgQueue'[j]) => i = j
    BY <2>1 DEF OnePlace
  <2>6. /\ Heard(p)' \/ Parked(p)' \/ Queued(p)' => p \in written'
        /\ Heard(p)' => ~Parked(p)' /\ ~Queued(p)'
        /\ Parked(p)' => ~Queued(p)'
    BY <1>1, <1>2, <1>4, <2>3
  <2> QED
    BY <1>3, <2>4, <2>5, <2>6 DEF OnePlace
<1> QED
  BY <1>5, <1>6

-----------------------------------------------------------------------------
(* The steps of the listeners.                                              *)

\* What a step that leaves the buffers alone keeps.
LEMMA BuffersStay ==
  ASSUME TgTypes, BuffersExact, QueueInOrder, UNCHANGED buffers
  PROVE  /\ group' \in [Listeners -> [Albums -> Seq(TgMessages)]]
         /\ timers' \in [Listeners -> [Albums -> SUBSET Nat]]
         /\ tgQueue' \in Seq(Seq(TgMessages)) /\ BuffersExact' /\ QueueInOrder'
<1>1. group' = group /\ timers' = timers /\ tgQueue' = tgQueue
  BY DEF buffers
<1>2. \A l \in Listeners : Waiting(l)' = Waiting(l)
  BY <1>1 DEF Waiting
<1> QED
  BY <1>1, <1>2 DEF TgTypes, BuffersExact, QueueInOrder

\* A step hands on albums of one listener, ends a handler, or leaves the buffers alone; a
\* timer that ends hands on one album, and other steps that hand on end the watch of the
\* listener.
LEMMA StepKinds ==
  ASSUME TgTypes, WatchPlaced, TgInNext
  PROVE  \/ UNCHANGED buffers
         \/ /\ \E l \in Listeners, p \in TgMessages : HandlerEnds(l, p)
            /\ UNCHANGED <<watch, created, current, connected, halfStarted, written>>
         \/ /\ \E l \in Listeners, k \in Albums : TimerEnds(l, k)
            /\ UNCHANGED <<watch, created, current, connected, halfStarted, written, handlers>>
         \/ /\ \E l \in Listeners : current = l /\ current' = 0 /\ FlushAll(l)
            /\ UNCHANGED <<created, halfStarted, written, handlers>>
<1>1. \A h \in handlers : h[1] \in Listeners /\ h[2] \in TgMessages
  BY DEF TgTypes
<1>2. current # 0 => current \in Listeners
  BY ListenerAssumption DEF TgTypes, Listeners
<1>3. CASE \E h \in handlers : HandlerEnds(h[1], h[2])
  BY <1>1, <1>3 DEF HandlerEnds, EndHandler, manager
<1>4. CASE \E l \in Listeners, k \in Albums : TimerEnds(l, k)
  BY <1>4 DEF TimerEnds, manager
<1>5. CASE ReplaceListener
  <2>1. current # 0
    BY <1>5 DEF ReplaceListener, WatchPlaced, TgTypes
  <2> QED
    BY <1>2, <1>5, <2>1 DEF ReplaceListener
<1>6. CASE StopProcess
  BY <1>2, <1>6 DEF StopProcess
<1>7. CASE \/ \E p \in TgMessages : WriteMessage(p)
           \/ \E h \in handlers : HandlerFails(h[1], h[2])
           \/ StartListener \/ ConnectFails \/ ListenerStarted \/ GetMeFails \/ PauseEnds
           \/ \E l \in connected : ConnectionLost(l)
  BY <1>7 DEF WriteMessage, HandlerFails, StartListener, ConnectFails, ListenerStarted,
              GetMeFails, PauseEnds, ConnectionLost
<1> QED
  BY <1>3, <1>4, <1>5, <1>6, <1>7 DEF TgInNext

LEMMA BuffersKeep ==
  ASSUME TgTypes, WatchPlaced, BuffersExact, QueueInOrder, TgInNext
  PROVE  /\ group' \in [Listeners -> [Albums -> Seq(TgMessages)]]
         /\ timers' \in [Listeners -> [Albums -> SUBSET Nat]]
         /\ tgQueue' \in Seq(Seq(TgMessages)) /\ BuffersExact' /\ QueueInOrder'
<1>1. CASE UNCHANGED buffers
  BY <1>1, BuffersStay
<1>2. ASSUME NEW l \in Listeners, NEW p \in TgMessages, HandlerEnds(l, p)
      PROVE  /\ group' \in [Listeners -> [Albums -> Seq(TgMessages)]]
             /\ timers' \in [Listeners -> [Albums -> SUBSET Nat]]
             /\ tgQueue' \in Seq(Seq(TgMessages)) /\ BuffersExact' /\ QueueInOrder'
  <2>1. Buffer(l, p)
    BY <1>2 DEF HandlerEnds
  <2>2. CASE AlbumOf[p] = NoAlbum
    <3>1. /\ group' = group /\ timers' = timers
          /\ tgQueue' \in Seq(Seq(TgMessages)) /\ QueueInOrder'
      BY <2>1, <2>2, AloneQueued
    <3>2. \A m \in Listeners : Waiting(m)' = Waiting(m)
      BY <3>1 DEF Waiting
    <3> QED
      BY <3>1, <3>2 DEF TgTypes, BuffersExact
  <2>3. CASE AlbumOf[p] # NoAlbum
    <3>1. tgQueue' = tgQueue
      BY <2>1, <2>3, PartBuffered
    <3>2. QueueInOrder'
      BY <3>1 DEF QueueInOrder
    <3> QED
      BY <2>1, <2>3, <3>1, <3>2, PartBuffered DEF TgTypes
  <2> QED
    BY <2>2, <2>3
<1>3. ASSUME NEW l \in Listeners, NEW full, HandsOn(l, full)
      PROVE  /\ group' \in [Listeners -> [Albums -> Seq(TgMessages)]]
             /\ tgQueue' \in Seq(Seq(TgMessages)) /\ QueueInOrder'
  BY <1>3, QueueAfter, OrderHandedOn DEF HandsOn
<1>4. ASSUME NEW l \in Listeners, NEW k \in Albums, TimerEnds(l, k)
      PROVE  /\ \E full : HandsOn(l, full)
             /\ timers' \in [Listeners -> [Albums -> SUBSET Nat]] /\ BuffersExact'
  BY <1>4, TimerHandsOn
<1>5. ASSUME NEW l \in Listeners, FlushAll(l)
      PROVE  /\ \E full : HandsOn(l, full)
             /\ timers' \in [Listeners -> [Albums -> SUBSET Nat]] /\ BuffersExact'
  BY <1>5, FlushHandsOn
<1> QED
  BY <1>1, <1>2, <1>3, <1>4, <1>5, StepKinds

LEMMA PlacesKeep ==
  ASSUME TgInv, TgInNext, halfStarted = {}, LoneListener, NEW p \in TgMessages, OnePlace(p)
  PROVE  OnePlace(p)'
<1>1. TgTypes /\ WatchPlaced /\ BuffersExact
  BY DEF TgInv
<1>2. ASSUME NEW l \in Listeners, NEW full, HandsOn(l, full), UNCHANGED <<written, handlers>>
      PROVE  OnePlace(p)'
  BY <1>1, <1>2, PlaceHandedOn
<1>3. CASE \E q \in TgMessages : WriteMessage(q)
  BY <1>3, PlaceWritten
<1>4. ASSUME NEW h \in handlers, HandlerEnds(h[1], h[2])
      PROVE  OnePlace(p)'
  <2>1. h[1] \in Listeners /\ h[2] \in TgMessages
    BY <1>1 DEF TgTypes
  <2> QED
    BY <1>1, <1>4, <2>1, PlaceBuffered
<1>5. CASE \E l \in Listeners, k \in Albums : TimerEnds(l, k)
  <2>1. PICK l \in Listeners, k \in Albums : TimerEnds(l, k)
    BY <1>5
  <2>2. HandsOn(l, <<k>>) /\ UNCHANGED <<written, handlers>>
    BY <1>1, <2>1, TimerHandsOn DEF TimerEnds
  <2> QED
    BY <1>2, <2>2
<1>6. ASSUME NEW l \in Listeners, FlushAll(l), UNCHANGED <<written, handlers>>
      PROVE  OnePlace(p)'
  <2>1. HandsOn(l, SetToSeq(Waiting(l)))
    BY <1>1, <1>6, FlushHandsOn
  <2> QED
    BY <1>2, <1>6, <2>1
<1>7. CASE UNCHANGED <<written, group, tgQueue>> /\ handlers' \subseteq handlers
  BY <1>7, PlaceStays
<1>8. CASE \/ \E h \in handlers : HandlerFails(h[1], h[2])
           \/ StartListener \/ ConnectFails \/ ListenerStarted \/ GetMeFails \/ PauseEnds
           \/ \E l \in connected : ConnectionLost(l)
  <2>1. UNCHANGED <<written, group, tgQueue>> /\ handlers' \subseteq handlers
    BY <1>8 DEF HandlerFails, EndHandler, StartListener, ConnectFails, ListenerStarted,
                GetMeFails, PauseEnds, ConnectionLost, buffers
  <2> QED
    BY <1>7, <2>1
<1>9. CASE ReplaceListener \/ StopProcess
  <2>1. /\ UNCHANGED <<written, handlers>>
        /\ UNCHANGED buffers \/ (current # 0 /\ FlushAll(current))
    <3>1. CASE ReplaceListener
      BY <1>1, <3>1 DEF ReplaceListener, WatchPlaced
    <3>2. CASE StopProcess
      BY <3>2 DEF StopProcess
    <3> QED
      BY <1>9, <3>1, <3>2
  <2>2. current # 0 => current \in Listeners
    BY <1>1, ListenerAssumption DEF TgTypes, Listeners
  <2>3. CASE UNCHANGED buffers
    BY <1>7, <2>1, <2>3 DEF buffers
  <2> QED
    BY <1>6, <2>1, <2>2, <2>3
<1> QED
  BY <1>3, <1>4, <1>5, <1>8, <1>9 DEF TgInNext

LEMMA TgKept ==
  ASSUME TgInv, TgInNext \/ UNCHANGED tgInVars
  PROVE  TgInv'
<1>1. CASE UNCHANGED tgInVars
  <2>1. /\ UNCHANGED <<watch, created, current, connected, written, handlers, halfStarted>>
        /\ UNCHANGED buffers
    BY <1>1 DEF tgInVars, buffers
  <2>2. /\ TgTypes' /\ BuffersExact' /\ QueueInOrder'
    BY <2>1, BuffersStay DEF TgInv, TgTypes
  <2>3. WatchPlaced' /\ (LoneListener => LoneListener')
    BY <2>1 DEF TgInv, WatchPlaced, LoneListener, Running
  <2>4. \A p \in TgMessages : OnePlace(p) => OnePlace(p)'
    BY <2>1, PlaceStays DEF buffers
  <2> QED
    BY <2>1, <2>2, <2>3, <2>4 DEF TgInv, HandledOnce
<1>2. CASE TgInNext
  <2>1. TgTypes /\ WatchPlaced /\ BuffersExact /\ QueueInOrder /\ HandledOnce
    BY DEF TgInv
  <2>2. TgTypes' /\ WatchPlaced' /\ BuffersExact' /\ QueueInOrder'
    BY <1>2, <2>1, WatchKeeps, BuffersKeep DEF TgTypes
  <2>3. HandledOnce'
    <3> SUFFICES ASSUME halfStarted' = {}
                 PROVE  LoneListener' /\ \A p \in TgMessages : OnePlace(p)'
      BY DEF HandledOnce
    <3>1. halfStarted \subseteq halfStarted'
      BY <1>2 DEF TgInNext, WriteMessage, HandlerEnds, HandlerFails, EndHandler, TimerEnds,
         StartListener, ConnectFails, ListenerStarted, GetMeFails, ConnectionLost,
         ReplaceListener, PauseEnds, StopProcess, manager
    <3>2. LoneListener /\ \A p \in TgMessages : OnePlace(p)
      BY <2>1, <3>1 DEF HandledOnce
    <3> QED
      BY <1>2, <2>1, <3>1, <3>2, LoneKeeps, PlacesKeep
  <2> QED
    BY <2>2, <2>3 DEF TgInv
<1> QED
  BY <1>1, <1>2

LEMMA TgStarts ==
  ASSUME TgInInit
  PROVE  TgInv
<1>1. /\ watch = "first" /\ created = 0 /\ current = 0 /\ connected = {}
      /\ written = {} /\ handlers = {} /\ tgQueue = <<>> /\ halfStarted = {}
      /\ group = [l \in Listeners |-> [k \in Albums |-> <<>>]]
      /\ timers = [l \in Listeners |-> [k \in Albums |-> {}]]
  BY DEF TgInInit
<1>2. \A S : <<>> \in Seq(S) /\ Range(<<>>) = {} /\ DOMAIN <<>> = {}
  BY EmptySeq DEF Range
<1>3. TgTypes
  BY <1>1, <1>2, ListenerAssumption DEF TgTypes, Watch
<1>4. WatchPlaced /\ QueueInOrder
  BY <1>1, <1>2 DEF WatchPlaced, QueueInOrder
<1>5. BuffersExact
  <2>1. \A l \in Listeners : Waiting(l) = {}
    BY <1>1 DEF Waiting
  <2> QED
    BY <1>1, <2>1, FS_EmptySet DEF BuffersExact
<1>6. HandledOnce
  <2>1. LoneListener
    BY <1>1 DEF LoneListener
  <2>2. ASSUME NEW p \in TgMessages PROVE OnePlace(p)
    <3>1. ~Heard(p) /\ ~Parked(p) /\ ~Queued(p)
      BY <1>1, <1>2 DEF Heard, Parked, Queued
    <3> QED
      BY <3>1 DEF OnePlace, Heard, Parked, Queued
  <2> QED
    BY <2>1, <2>2 DEF HandledOnce
<1> QED
  BY <1>3, <1>4, <1>5, <1>6 DEF TgInv

\* The listeners keep their invariant, whichever source takes the step (Sources.tla).
THEOREM ListenerInv == Spec => []TgInv
<1>1. Init => TgInv
  BY TgStarts DEF Init
<1>2. TgInv /\ [Next]_vars => TgInv'
  <2>1. [Next]_vars => TgInNext \/ UNCHANGED tgInVars
    BY DEF Next, TelegramStep, QQStep, WeixinStep, vars
  <2> QED
    BY <2>1, TgKept
<1> QED
  BY <1>1, <1>2, PTL DEF Spec

\* A message of Telegram is handed on once, alone or in an album, whatever connections
\* are lost and listeners replaced, unless the start of one had failed half-way
\* (client.py:66-85, accounts.py:210-230, album_buffer.py:49-64).
THEOREM TelegramHandedOnce == Spec => []TelegramOnce
<1>1. TgInv => TelegramOnce
  <2> SUFFICES ASSUME TgInv, NEW p \in TgMessages, halfStarted = {}
               PROVE  ~(Times(p) > 1)
    BY DEF TelegramOnce
  <2> DEFINE places == {i \in DOMAIN tgQueue : p \in Range(tgQueue[i])}
  <2>1. \A i, j \in places : i = j
    BY DEF TgInv, HandledOnce, OnePlace
  <2>2. Times(p) = Cardinality(places)
    BY DEF Times
  <2> HIDE DEF places
  <2>3. CASE places = {}
    BY <2>2, <2>3, FS_EmptySet
  <2>4. CASE places # {}
    <3>1. PICK i : places = {i}
      BY <2>1, <2>4
    <3> QED
      BY <2>2, <3>1, FS_Singleton
  <2> QED
    BY <2>3, <2>4
<1> QED
  BY <1>1, ListenerInv, PTL

\* A message of the queue has its parts in the order of the chat, and an album is split
\* only by a delay in which nothing came or by the end of its listener
\* (album_buffer.py:23-64).
THEOREM AlbumsStayWhole == Spec => AlbumWhole
<1>1. TgInv /\ TgInv' /\ [Next]_vars =>
        [/\ \A i \in DOMAIN tgQueue' :
              \A j \in 1..Len(tgQueue'[i]) - 1 : tgQueue'[i][j] <= tgQueue'[i][j + 1]
         /\ \A l \in Listeners, k \in Albums :
              group[l][k] # <<>> /\ group'[l][k] = <<>> /\ current' = current =>
                Len(group[l][k]) \in timers[l][k] \ timers'[l][k]]_tgInVars
  <2> SUFFICES ASSUME TgInv, TgInv', TgInNext
               PROVE  /\ \A i \in DOMAIN tgQueue' :
                           \A j \in 1..Len(tgQueue'[i]) - 1 :
                             tgQueue'[i][j] <= tgQueue'[i][j + 1]
                      /\ \A l \in Listeners, k \in Albums :
                           group[l][k] # <<>> /\ group'[l][k] = <<>> /\ current' = current =>
                             Len(group[l][k]) \in timers[l][k] \ timers'[l][k]
    BY DEF Next, TelegramStep, QQStep, WeixinStep, vars
  <2>1. TgTypes /\ WatchPlaced /\ BuffersExact
    BY DEF TgInv
  <2>2. \A i \in DOMAIN tgQueue' :
          \A j \in 1..Len(tgQueue'[i]) - 1 : tgQueue'[i][j] <= tgQueue'[i][j + 1]
    BY DEF TgInv, QueueInOrder, InOrder
  <2>3. ASSUME NEW l \in Listeners, NEW k \in Albums,
               group[l][k] # <<>>, group'[l][k] = <<>>, current' = current
        PROVE  Len(group[l][k]) \in timers[l][k] \ timers'[l][k]
    <3>1. ~UNCHANGED buffers
      BY <2>3 DEF buffers
    <3>2. ASSUME NEW m \in Listeners, current = m, current' = 0 PROVE FALSE
      BY <2>3, <3>2 DEF Listeners
    <3>3. ASSUME NEW m \in Listeners, NEW p \in TgMessages, HandlerEnds(m, p) PROVE FALSE
      <4>1. Buffer(m, p)
        BY <3>3 DEF HandlerEnds
      <4>2. AlbumOf[p] # NoAlbum
        BY <2>3, <4>1 DEF Buffer
      <4>3. m = l /\ k = AlbumOf[p]
        BY <2>1, <2>3, <4>1, <4>2, PartBuffered
      <4>4. p \in Range(group'[l][k])
        BY <2>1, <4>1, <4>2, <4>3, PartBuffered
      <4> QED
        BY <2>3, <4>4, EmptySeq DEF Range
    <3>4. PICK m \in Listeners, j \in Albums : TimerEnds(m, j)
      BY <2>1, <3>1, <3>2, <3>3, StepKinds
    <3>5. /\ \A a \in Listeners, b \in Albums :
               group[a][b] # <<>> /\ group'[a][b] = <<>> => a = m /\ b = j
          /\ Len(group[m][j]) \in timers[m][j] \ timers'[m][j]
      BY <2>1, <3>4, TimerHandsOn
    <3>6. m = l /\ j = k
      BY <2>3, <3>5
    <3> QED
      BY <3>5, <3>6
  <2> QED
    BY <2>2, <2>3
<1> QED
  BY <1>1, ListenerInv, PTL DEF Spec, AlbumWhole

\* The variables of all sources have their types; a QR code is refreshed as often as the
\* limit says, and once more when a request of the panel was on its way
\* (service.py:325-375).
THEOREM SourcesTyped == Spec => []TypeOK
<1>1. TgInv /\ WxInv /\ RewoundInv /\ QQInv /\ QrInv /\ FilterTypes => TypeOK
  <2> SUFFICES ASSUME TgInv, WxInv, RewoundInv, QQInv, QrInv, FilterTypes PROVE TypeOK
    OBVIOUS
  <2>1. /\ TgTypes /\ WxTypes /\ Len(qqRecent) \in 0..RecentLimit
        /\ Len(wxRecent) \in 0..RecentLimit
    BY DEF TgInv, WxInv, FilterTypes
  <2> QED
    BY <2>1 DEF TypeOK, TgTypes, WxTypes, RewoundInv, QQInv, QrInv, FilterTypes
<1> QED
  BY <1>1, ListenerInv, SourceInv, PTL
=============================================================================
