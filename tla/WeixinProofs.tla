---------------------------- MODULE WeixinProofs -----------------------------
(***************************************************************************)
(* Proofs about the parked Weixin messages, for every value of the          *)
(* constants.                                                              *)
(***************************************************************************)
EXTENDS WeixinProperties, SequenceTheorems, WellFoundedInduction, TLAPS

\* Queues of messages: what appending, taking the tail and taking a suffix do
\* to their type, their elements and their order.
LEMMA QueueAppend ==
  ASSUME NEW q \in Seq(Messages), NEW m \in Messages
  PROVE  /\ Append(q, m) \in Seq(Messages)
         /\ Len(Append(q, m)) = Len(q) + 1
         /\ Elems(Append(q, m)) = Elems(q) \cup {m}
         /\ Increasing(q) /\ (\A k \in Elems(q) : k < m)
              => Increasing(Append(q, m))
<1> DEFINE r == Append(q, m)
<1>1. /\ r \in Seq(Messages) /\ Len(r) = Len(q) + 1
      /\ \A i \in 1..Len(q) : r[i] = q[i]
      /\ r[Len(q) + 1] = m
  BY AppendProperties
<1>2. /\ Len(q) \in Nat /\ DOMAIN q = 1..Len(q)
      /\ DOMAIN r = 1..(Len(q) + 1)
  BY <1>1, LenProperties
<1> HIDE DEF r
<1>3. Elems(r) = Elems(q) \cup {m}
  BY <1>1, <1>2 DEF Elems
<1>4. ASSUME Increasing(q), \A k \in Elems(q) : k < m
      PROVE  Increasing(r)
  <2> SUFFICES ASSUME NEW i \in 1..(Len(q) + 1), NEW j \in 1..(Len(q) + 1), i < j
               PROVE  r[i] < r[j]
    BY <1>2 DEF Increasing
  <2>1. i \in 1..Len(q)
    BY <1>2
  <2>2. CASE j \in 1..Len(q)
    BY <2>1, <2>2, <1>1, <1>2, <1>4 DEF Increasing
  <2>3. CASE j = Len(q) + 1
    BY <2>1, <2>3, <1>1, <1>2, <1>4 DEF Elems
  <2> QED
    BY <1>2, <2>2, <2>3
<1> QED
  BY <1>1, <1>3, <1>4 DEF r

LEMMA QueueSuffix ==
  ASSUME NEW q \in Seq(Messages), NEW k \in 0..Len(q)
  PROVE  LET s == SubSeq(q, k + 1, Len(q))
         IN /\ s \in Seq(Messages) /\ Len(s) = Len(q) - k
            /\ \A i \in 1..Len(s) : s[i] = q[k + i]
            /\ Elems(s) \subseteq Elems(q)
            /\ Elems(q) \subseteq Elems(s) \cup {q[i] : i \in 1..k}
            /\ Increasing(q) => Increasing(s)
<1> DEFINE s == SubSeq(q, k + 1, Len(q))
<1>1. /\ Len(q) \in Nat /\ k \in Nat /\ k <= Len(q) /\ DOMAIN q = 1..Len(q)
      /\ \A i \in 1..Len(q) : q[i] \in Messages
  BY LenProperties, ElementOfSeq
<1>2. /\ s \in Seq(Messages)
      /\ Len(s) = IF k + 1 <= Len(q) THEN Len(q) - (k + 1) + 1 ELSE 0
      /\ \A i \in 1..(Len(q) - (k + 1) + 1) : s[i] = q[(k + 1) + i - 1]
  <2>1. \A i \in (k + 1)..Len(q) : q[i] \in Messages
    BY <1>1
  <2>2. k + 1 \in Int /\ Len(q) \in Int
    BY <1>1
  <2> QED
    BY <2>1, <2>2, SubSeqProperties
<1> HIDE DEF s
<1>3. Len(s) = Len(q) - k
  <2>1. CASE k < Len(q)
    <3>1. k + 1 <= Len(q) /\ Len(q) - (k + 1) + 1 = Len(q) - k
      BY <1>1, <2>1
    <3> QED
      BY <3>1, <1>2
  <2>2. CASE k = Len(q)
    <3>1. ~(k + 1 <= Len(q)) /\ Len(q) - k = 0
      BY <1>1, <2>2
    <3> QED
      BY <3>1, <1>2
  <2>3. k < Len(q) \/ k = Len(q)
    <3>1. \A i, n \in Nat : i <= n => i < n \/ i = n
      OBVIOUS
    <3> QED
      BY <3>1, <1>1
  <2> QED
    BY <2>1, <2>2, <2>3
<1>4. \A i \in 1..Len(s) : s[i] = q[k + i]
  <2> TAKE i \in 1..Len(s)
  <2>1. i \in 1..(Len(q) - (k + 1) + 1) /\ (k + 1) + i - 1 = k + i
    BY <1>1, <1>3
  <2> QED
    BY <2>1, <1>2
<1>5. DOMAIN s = 1..Len(s)
  BY <1>2, LenProperties
<1>6. Elems(s) \subseteq Elems(q)
  <2> SUFFICES ASSUME NEW i \in 1..Len(s) PROVE s[i] \in Elems(q)
    BY <1>5 DEF Elems
  <2>1. k + i \in 1..Len(q)
    BY <1>1, <1>3
  <2> QED
    BY <2>1, <1>1, <1>4 DEF Elems
<1>7. Elems(q) \subseteq Elems(s) \cup {q[i] : i \in 1..k}
  <2> SUFFICES ASSUME NEW i \in 1..Len(q), ~(i \in 1..k) PROVE q[i] \in Elems(s)
    BY <1>1 DEF Elems
  <2>1. i - k \in 1..Len(s) /\ k + (i - k) = i
    BY <1>1, <1>3
  <2> QED
    BY <2>1, <1>4, <1>5 DEF Elems
<1>8. ASSUME Increasing(q) PROVE Increasing(s)
  <2> SUFFICES ASSUME NEW i \in 1..Len(s), NEW j \in 1..Len(s), i < j
               PROVE  s[i] < s[j]
    BY <1>5 DEF Increasing
  <2>1. k + i \in 1..Len(q) /\ k + j \in 1..Len(q) /\ k + i < k + j
    BY <1>1, <1>3
  <2> QED
    BY <2>1, <1>1, <1>4, <1>8 DEF Increasing
<1> QED
  BY <1>2, <1>3, <1>4, <1>6, <1>7, <1>8 DEF s

LEMMA QueueTail ==
  ASSUME NEW q \in Seq(Messages), q # <<>>
  PROVE  /\ Head(q) \in Messages /\ Tail(q) \in Seq(Messages)
         /\ Len(q) \in Nat \ {0} /\ Len(Tail(q)) = Len(q) - 1
         /\ Elems(q) = {Head(q)} \cup Elems(Tail(q))
         /\ Increasing(q) => Increasing(Tail(q)) /\ Head(q) \notin Elems(Tail(q))
<1>1. /\ Len(q) \in Nat \ {0} /\ DOMAIN q = 1..Len(q)
      /\ Head(q) \in Messages /\ Head(q) = q[1]
      /\ Tail(q) = SubSeq(q, 1 + 1, Len(q))
  BY EmptySeq, LenProperties, HeadTailProperties, TailIsSubSeq
<1>2. /\ Tail(q) \in Seq(Messages) /\ Len(Tail(q)) = Len(q) - 1
      /\ \A i \in 1..Len(Tail(q)) : Tail(q)[i] = q[1 + i]
      /\ Elems(Tail(q)) \subseteq Elems(q)
      /\ Elems(q) \subseteq Elems(Tail(q)) \cup {q[i] : i \in 1..1}
      /\ Increasing(q) => Increasing(Tail(q))
  <2> DEFINE s == SubSeq(q, 1 + 1, Len(q))
  <2>1. 1 \in 0..Len(q)
    BY <1>1
  <2>2. /\ s \in Seq(Messages) /\ Len(s) = Len(q) - 1
        /\ \A i \in 1..Len(s) : s[i] = q[1 + i]
        /\ Elems(s) \subseteq Elems(q)
        /\ Elems(q) \subseteq Elems(s) \cup {q[i] : i \in 1..1}
        /\ Increasing(q) => Increasing(s)
    BY <2>1, QueueSuffix, Zenon
  <2> QED
    BY <2>2, <1>1
<1>3. Elems(q) = {Head(q)} \cup Elems(Tail(q))
  BY <1>1, <1>2 DEF Elems
<1>4. ASSUME Increasing(q) PROVE Head(q) \notin Elems(Tail(q))
  <2> SUFFICES ASSUME NEW i \in 1..Len(Tail(q)) PROVE q[1] < Tail(q)[i]
    <3>1. DOMAIN Tail(q) = 1..Len(Tail(q)) /\ q[1] \in Int
      BY <1>1, <1>2, LenProperties DEF Messages
    <3> QED
      BY <3>1, <1>1 DEF Elems
  <2>1. 1 \in 1..Len(q) /\ 1 + i \in 1..Len(q) /\ 1 < 1 + i
    BY <1>1, <1>2
  <2> QED
    BY <2>1, <1>1, <1>2, <1>4 DEF Increasing
<1> QED
  BY <1>1, <1>2, <1>3, <1>4

LEMMA QueueEmpty ==
  /\ <<>> \in Seq(Messages) /\ Len(<<>>) = 0 /\ Elems(<<>>) = {}
  /\ Increasing(<<>>)
  BY EmptySeq DEF Elems, Increasing

\* The loop over a batch has a first message to go on with, or none.
LEMMA FreshFacts ==
  ASSUME NEW rest \in Seq(Messages)
  PROVE  /\ Fresh(rest) \in Seq(Messages) /\ Len(Fresh(rest)) <= Len(rest)
         /\ Elems(Fresh(rest)) \subseteq Elems(rest)
         /\ Increasing(rest) => Increasing(Fresh(rest))
         /\ Fresh(rest) # <<>> => Head(Fresh(rest)) \notin aged
<1> DEFINE Stop(k) == /\ \A i \in 1..k : rest[i] \in aged
                      /\ k < Len(rest) => rest[k + 1] \notin aged
           T == {k \in 0..Len(rest) : k < Len(rest) => rest[k + 1] \notin aged}
<1>1. Len(rest) \in Nat
  BY LenProperties
<1>2. \E k \in 0..Len(rest) : Stop(k)
  <2>1. T \subseteq Nat /\ T # {}
    <3>1. Len(rest) \in T
      BY <1>1
    <3> QED
      BY <3>1, <1>1
  <2>2. PICK k \in T : \A j \in T : ~(<<j, k>> \in OpToRel(<, Nat))
    BY <2>1, NatLessThanWellFounded, WFMin
  <2>3. \A j \in T : ~(j < k)
    BY <2>1, <2>2 DEF OpToRel
  <2>4. \A i \in 1..k : rest[i] \in aged
    <3> SUFFICES ASSUME NEW i \in 1..k, rest[i] \notin aged PROVE FALSE
      OBVIOUS
    <3>1. i - 1 \in T /\ i - 1 < k
      BY <1>1
    <3> QED
      BY <3>1, <2>3
  <2> QED
    BY <2>4
<1>3. PICK k \in 0..Len(rest) : Stop(k) /\ Fresh(rest) = SubSeq(rest, k + 1, Len(rest))
  BY <1>2 DEF Fresh
<1> HIDE DEF T
<1>4. /\ Fresh(rest) \in Seq(Messages) /\ Len(Fresh(rest)) = Len(rest) - k
      /\ \A i \in 1..Len(Fresh(rest)) : Fresh(rest)[i] = rest[k + i]
      /\ Elems(Fresh(rest)) \subseteq Elems(rest)
      /\ Increasing(rest) => Increasing(Fresh(rest))
  BY <1>3, QueueSuffix
<1>5. ASSUME Fresh(rest) # <<>> PROVE Head(Fresh(rest)) \notin aged
  <2>1. /\ Len(Fresh(rest)) \in Nat \ {0} /\ Head(Fresh(rest)) = Fresh(rest)[1]
    BY <1>4, <1>5, EmptySeq, HeadTailProperties
  <2> DEFINE n == Len(Fresh(rest))
  <2>2. n \in Nat \ {0} /\ n = Len(rest) - k
    BY <1>4, <2>1
  <2> HIDE DEF n
  <2>3. k < Len(rest) /\ 1 \in 1..n
    BY <1>1, <2>2
  <2> QED
    BY <2>1, <2>3, <1>3, <1>4 DEF n
<1> QED
  BY <1>1, <1>4, <1>5

\* Making room and appending.
LEMMA QueuePendingFacts ==
  ASSUME NEW q \in Seq(Messages), NEW m \in Messages
  PROVE  LET r == QueuePending(q, m)
         IN /\ r \in Seq(Messages)
            /\ Elems(r) \subseteq Elems(q) \cup {m} /\ m \in Elems(r)
            /\ Len(q) <= Limit => Len(r) <= Limit
            /\ Increasing(q) /\ (\A k \in Elems(q) : k < m) => Increasing(r)
<1>1. Limit \in Nat \ {0} /\ Len(q) \in Nat
  BY WeixinAssumption, LenProperties
<1>2. CASE Len(q) >= Limit
  <2>1. q # <<>>
    BY <1>1, <1>2, QueueEmpty
  <2>2. QueuePending(q, m) = Append(Tail(q), m)
    BY <1>2 DEF QueuePending
  <2>3. /\ Tail(q) \in Seq(Messages) /\ Len(Tail(q)) = Len(q) - 1
        /\ Elems(q) = {Head(q)} \cup Elems(Tail(q))
        /\ Increasing(q) => Increasing(Tail(q))
    BY <2>1, QueueTail
  <2>4. /\ Append(Tail(q), m) \in Seq(Messages)
        /\ Len(Append(Tail(q), m)) = Len(Tail(q)) + 1
        /\ Elems(Append(Tail(q), m)) = Elems(Tail(q)) \cup {m}
        /\ Increasing(Tail(q)) /\ (\A k \in Elems(Tail(q)) : k < m)
             => Increasing(Append(Tail(q), m))
    BY <2>3, QueueAppend
  <2> QED
    BY <1>1, <2>2, <2>3, <2>4
<1>3. CASE ~(Len(q) >= Limit)
  <2>1. QueuePending(q, m) = Append(q, m)
    BY <1>3 DEF QueuePending
  <2> QED
    BY <1>1, <1>3, <2>1, QueueAppend
<1> QED
  BY <1>2, <1>3

-----------------------------------------------------------------------------
(* Types.                                                                  *)

Progresses == [msg: 0..N, part: Nat, tries: 0..Retries, bad: BOOLEAN]

LEMMA ProgressTypes ==
  /\ Idle \in Progresses
  /\ \A m \in Messages : Sending(m) \in Progresses
  /\ \A p \in Progresses, reply \in Replies :
       /\ Progress(p, reply) \in Progresses
       /\ Progress(p, reply).msg = p.msg
<1>1. N \in Nat /\ Retries \in Nat
  BY WeixinAssumption
<1>2. Idle \in Progresses /\ \A m \in Messages : Sending(m) \in Progresses
  BY <1>1 DEF Idle, Sending, Progresses, Messages
<1>3. ASSUME NEW p \in Progresses, NEW reply \in Replies
      PROVE  Progress(p, reply) \in Progresses /\ Progress(p, reply).msg = p.msg
  <2>1. CASE Again(p, reply)
    BY <1>1, <2>1 DEF Again, Progress, Progresses
  <2>2. CASE ~Again(p, reply)
    <3> DEFINE bad == p.bad \/ reply # "ok"
    <3>1. Progress(p, reply) = [p EXCEPT !.part = @ + 1, !.tries = 0, !.bad = bad]
      BY <2>2 DEF Progress, Progresses
    <3>2. bad \in BOOLEAN /\ p.part + 1 \in Nat /\ 0 \in 0..Retries
      BY <1>1 DEF Progresses
    <3> HIDE DEF bad
    <3> QED
      BY <3>1, <3>2 DEF Progresses
  <2> QED
    BY <2>1, <2>2
<1> QED
  BY <1>2, <1>3

\* The end of send() keeps the types.
LEMMA DirectEndsType ==
  ASSUME TypeOK, NEW m \in Messages, NEW v, DirectEnds(m, v)
  PROVE  /\ lane' \in [Lanes -> Progresses]
         /\ pending' \in [Contacts -> Seq(Messages)]
         /\ fate' \in [Messages -> Fates]
<1>1. lane' \in [Lanes -> Progresses]
  BY ProgressTypes DEF TypeOK, DirectEnds, Progresses
<1>2. Target[m] \in Contacts
  BY WeixinAssumption
<1>3. QueuePending(pending[Target[m]], m) \in Seq(Messages)
  BY <1>2, QueuePendingFacts DEF TypeOK
<1>4. pending' \in [Contacts -> Seq(Messages)]
  BY <1>2, <1>3 DEF TypeOK, DirectEnds
<1>5. fate' \in [Messages -> Fates]
  BY DEF TypeOK, DirectEnds, Fates
<1> QED
  BY <1>1, <1>4, <1>5

LEMMA FlushEndsType ==
  ASSUME TypeOK, NEW u \in Contacts, NEW kept \in Seq(Messages),
         NEW f \in [Messages -> Fates], FlushEnds(u, kept, f)
  PROVE  /\ lane' \in [Lanes -> Progresses]
         /\ pending' \in [Contacts -> Seq(Messages)]
         /\ flushing' \in Contacts \cup {None} /\ batch' \in Seq(Messages)
         /\ fate' \in [Messages -> Fates]
<1>1. lane' \in [Lanes -> Progresses]
  BY ProgressTypes DEF TypeOK, FlushEnds, Progresses
<1>2. fate' \in [Messages -> Fates]
  BY DEF TypeOK, FlushEnds, Fates
<1> QED
  BY <1>1, <1>2, QueueEmpty DEF TypeOK, FlushEnds

LEMMA FlushGoesOnType ==
  ASSUME TypeOK, NEW u \in Contacts, NEW rest \in Seq(Messages),
         NEW f \in [Messages -> Fates], FlushGoesOn(u, rest, f)
  PROVE  /\ lane' \in [Lanes -> Progresses]
         /\ pending' \in [Contacts -> Seq(Messages)]
         /\ flushing' \in Contacts \cup {None} /\ batch' \in Seq(Messages)
         /\ fate' \in [Messages -> Fates]
<1> DEFINE fresh == Fresh(rest)
           left == [m \in Messages |->
                      IF m \in Elems(rest) \ Elems(fresh) THEN "expired" ELSE f[m]]
           off == [m \in Messages |->
                     IF m \notin Elems(fresh) THEN left[m]
                     ELSE IF m \in aged THEN "expired" ELSE "offline"]
<1>1. fresh \in Seq(Messages)
  BY FreshFacts
<1>2. left \in [Messages -> Fates]
  BY DEF Fates
<1> HIDE DEF left
<1>3. off \in [Messages -> Fates]
  BY <1>2 DEF Fates
<1>4. CASE fresh = <<>>
  <2>1. FlushEnds(u, <<>>, left)
    BY <1>4 DEF FlushGoesOn, left
  <2> QED
    BY <2>1, <1>2, FlushEndsType, QueueEmpty
<1>5. CASE fresh # <<>> /\ ~loggedIn
  <2>1. FlushEnds(u, <<>>, off)
    BY <1>5 DEF FlushGoesOn, left
  <2> HIDE DEF off
  <2> QED
    BY <2>1, <1>3, FlushEndsType, QueueEmpty
<1>6. CASE fresh # <<>> /\ loggedIn /\ u \notin token'
  <2>1. FlushEnds(u, fresh, left)
    BY <1>6 DEF FlushGoesOn, left
  <2> QED
    BY <2>1, <1>1, <1>2, FlushEndsType
<1>7. CASE fresh # <<>> /\ loggedIn /\ u \in token'
  <2>1. /\ flushing' = u /\ batch' = fresh /\ fate' = left
        /\ lane' = [lane EXCEPT !.flush = Sending(Head(fresh))]
        /\ UNCHANGED pending
    BY <1>7 DEF FlushGoesOn, left
  <2>2. Sending(Head(fresh)) \in Progresses
    BY <1>1, <1>7, QueueTail, ProgressTypes
  <2> QED
    BY <2>1, <2>2, <1>1, <1>2 DEF TypeOK, Progresses
<1> QED
  BY <1>4, <1>5, <1>6, <1>7

\* What is learnt from a response keeps the types.
LEMMA LearnType ==
  ASSUME TypeOK, NEW u \in Contacts, NEW learns, Learn(u, learns)
  PROVE  /\ loggedIn' \in BOOLEAN /\ polling' \in BOOLEAN
         /\ token' \subseteq Contacts
         /\ file' \in [login: BOOLEAN, tokens: SUBSET Contacts]
  BY DEF TypeOK, Learn

LEMMA DirectReplyType ==
  ASSUME TypeOK, DirectTaken, NEW reply \in Replies, NEW learns \in BOOLEAN,
         DirectReply(reply, learns)
  PROVE  TypeOK'
<1> DEFINE p == lane["direct"]
<1>1. p \in Progresses /\ p.msg \in Messages
  BY DEF TypeOK, Lanes, Progresses, DirectTaken, DirectReply
<1>2. Target[p.msg] \in Contacts
  BY <1>1, WeixinAssumption
<1>3. /\ loggedIn' \in BOOLEAN /\ polling' \in BOOLEAN
      /\ token' \subseteq Contacts
      /\ file' \in [login: BOOLEAN, tokens: SUBSET Contacts]
  BY <1>2, LearnType DEF DirectReply
<1>4. /\ lane' \in [Lanes -> Progresses]
      /\ pending' \in [Contacts -> Seq(Messages)]
      /\ fate' \in [Messages -> Fates]
  <2>1. CASE Verdict(p, reply) = "none"
    <3>1. lane' = [lane EXCEPT !.direct = Progress(p, reply)]
      BY <2>1 DEF DirectReply
    <3> QED
      BY <3>1, <2>1, <1>1, ProgressTypes DEF TypeOK, DirectReply, Progresses
  <2>2. CASE Verdict(p, reply) # "none"
    <3>1. DirectEnds(p.msg, Verdict(p, reply))
      BY <2>2 DEF DirectReply
    <3> QED
      BY <3>1, <1>1, DirectEndsType
  <2> QED
    BY <2>1, <2>2
<1> QED
  BY <1>3, <1>4 DEF TypeOK, DirectReply, Progresses

LEMMA FlushReplyType ==
  ASSUME TypeOK, FlushShape, NEW reply \in Replies, NEW learns \in BOOLEAN,
         FlushReply(reply, learns)
  PROVE  TypeOK'
<1> DEFINE p == lane["flush"]
           v == Verdict(p, reply)
           after == [fate EXCEPT ![p.msg] = IF v = "ok" THEN "delivered"
                                                        ELSE "refused"]
<1>1. p \in Progresses /\ flushing \in Contacts /\ flushing # None
  BY DEF TypeOK, Lanes, Progresses, FlushReply
<1>2. /\ loggedIn' \in BOOLEAN /\ polling' \in BOOLEAN
      /\ token' \subseteq Contacts
      /\ file' \in [login: BOOLEAN, tokens: SUBSET Contacts]
  BY <1>1, LearnType DEF FlushReply
<1>3. after \in [Messages -> Fates]
  BY DEF TypeOK, Fates
<1>4. batch \in Seq(Messages) /\ batch # <<>> /\ Tail(batch) \in Seq(Messages)
  BY <1>1, QueueTail DEF TypeOK, FlushShape
<1>5. /\ lane' \in [Lanes -> Progresses]
      /\ pending' \in [Contacts -> Seq(Messages)]
      /\ flushing' \in Contacts \cup {None} /\ batch' \in Seq(Messages)
      /\ fate' \in [Messages -> Fates]
  <2>1. CASE v = "none"
    <3>1. /\ lane' = [lane EXCEPT !.flush = Progress(p, reply)]
          /\ UNCHANGED <<pending, flushing, batch, fate>>
      BY <2>1 DEF FlushReply
    <3> QED
      BY <3>1, <1>1, ProgressTypes DEF TypeOK, Progresses
  <2>2. CASE v \in {"prepare", "expired"}
    <3>1. FlushEnds(flushing, batch, fate)
      BY <2>2 DEF FlushReply, Kept
    <3> QED
      BY <3>1, <1>1, <1>4, FlushEndsType DEF TypeOK
  <2>3. CASE v # "none" /\ v \notin {"prepare", "expired"}
    <3>1. FlushGoesOn(flushing, Tail(batch), after)
      BY <2>3 DEF FlushReply
    <3> HIDE DEF after
    <3> QED
      BY <3>1, <1>1, <1>3, <1>4, FlushGoesOnType
  <2> QED
    BY <2>1, <2>2, <2>3
<1> QED
  BY <1>2, <1>5 DEF TypeOK, FlushReply, Progresses

LEMMA StepType ==
  ASSUME IInv, [Next]_vars
  PROVE  TypeOK'
<1> USE DEF IInv, Safe
<1>1. ASSUME NEW m \in Messages, DirectSend(m) PROVE TypeOK'
  <2>1. CASE Obstacle(m) = "none"
    <3>1. /\ lane' = [lane EXCEPT !.direct = Sending(m)]
          /\ fate' = [fate EXCEPT ![m] = "taken"]
      BY <1>1, <2>1 DEF DirectSend
    <3> QED
      BY <3>1, <1>1, <2>1, ProgressTypes
      DEF TypeOK, DirectSend, session, Progresses, Fates
  <2>2. CASE Obstacle(m) # "none"
    <3>1. DirectEnds(m, Obstacle(m))
      BY <1>1, <2>2 DEF DirectSend
    <3>2. /\ lane' \in [Lanes -> Progresses]
          /\ pending' \in [Contacts -> Seq(Messages)]
          /\ fate' \in [Messages -> Fates]
      BY <3>1, DirectEndsType
    <3> QED
      BY <3>2, <1>1 DEF TypeOK, DirectSend, session, Progresses
  <2> QED
    BY <2>1, <2>2
<1>2. CASE DirectTimeout
  BY <1>2, ProgressTypes DEF DirectTimeout, TypeOK, session, Progresses, Fates
<1>3. ASSUME NEW u \in Contacts, FlushStart(u) PROVE TypeOK'
  <2>1. pending[u] \in Seq(Messages) /\ fate \in [Messages -> Fates]
    BY DEF TypeOK
  <2>2. FlushGoesOn(u, pending[u], fate)
    BY <1>3 DEF FlushStart
  <2>3. /\ lane' \in [Lanes -> Progresses]
        /\ pending' \in [Contacts -> Seq(Messages)]
        /\ flushing' \in Contacts \cup {None} /\ batch' \in Seq(Messages)
        /\ fate' \in [Messages -> Fates]
    BY <2>1, <2>2, FlushGoesOnType
  <2> QED
    BY <1>3, <2>3 DEF TypeOK, FlushStart, session, Progresses
<1>4. ASSUME NEW u \in Contacts, NEW i \in 1..Limit, Age(u, i) PROVE TypeOK'
  <2>1. pending[u][i] \in Messages
    <3>1. pending[u] \in Seq(Messages) /\ i \in DOMAIN pending[u]
      BY <1>4 DEF TypeOK, Age
    <3> QED
      BY <3>1, LenProperties, ElementOfSeq
  <2> QED
    BY <1>4, <2>1 DEF TypeOK, Age, session
<1>5. ASSUME NEW u \in Contacts, Inbound(u) PROVE TypeOK'
  BY <1>5 DEF Inbound, TypeOK
<1>6. CASE Login
  BY <1>6 DEF Login, TypeOK
<1>7. CASE Logout
  BY <1>7 DEF Logout, TypeOK
<1>8. CASE Poll
  BY <1>8 DEF Poll, TypeOK
<1>9. CASE PollEnds
  BY <1>9 DEF PollEnds, TypeOK
<1>10. CASE Restart
  <2>1. fate' \in [Messages -> Fates]
    BY <1>10 DEF Restart, TypeOK, Fates
  <2> QED
    BY <1>10, <2>1, ProgressTypes, QueueEmpty DEF Restart, TypeOK, Progresses
<1>11. CASE Reply
  BY <1>11, DirectReplyType, FlushReplyType DEF Reply
<1>12. CASE UNCHANGED vars
  BY <1>12 DEF TypeOK, vars
<1> QED
  BY <1>1, <1>2, <1>3, <1>4, <1>5, <1>6, <1>7, <1>8, <1>9, <1>10, <1>11, <1>12
  DEF Next

-----------------------------------------------------------------------------
(* The inductive invariant.                                                *)

\* What is known of a message the direct lane may handle now: all later ones
\* are still to come, no earlier one is, and no queue holds it.
LEMMA DirectPlace ==
  ASSUME TypeOK, Safe, NEW m \in Messages,
         \/ fate[m] = "new" /\ \A k \in 1..m - 1 : fate[k] # "new"
         \/ lane["direct"] # Idle /\ m = lane["direct"].msg
  PROVE  /\ fate[m] \in {"new", "taken"}
         /\ \A k \in Messages : k > m => fate[k] = "new"
         /\ \A k \in Messages : k < m => fate[k] # "new"
         /\ \A u \in Contacts : \A k \in Elems(pending[u]) :
              k \in Messages /\ k < m
         /\ m \notin Elems(batch)
<1>1. /\ fate[m] \in {"new", "taken"}
      /\ \A k \in Messages : k > m => fate[k] = "new"
      /\ \A k \in Messages : k < m => fate[k] # "new"
  <2>1. CASE fate[m] = "new" /\ \A k \in 1..m - 1 : fate[k] # "new"
    <3>1. \A k \in Messages : k > m => fate[k] = "new"
      BY <2>1 DEF Safe, NewLast, Messages
    <3>2. \A k \in Messages : k < m => fate[k] # "new"
      BY <2>1 DEF Messages
    <3> QED
      BY <2>1, <3>1, <3>2
  <2>2. CASE lane["direct"] # Idle /\ m = lane["direct"].msg
    <3>1. fate[m] = "taken" /\ \A k \in Messages : k > m => fate[k] = "new"
      BY <2>2 DEF Safe, DirectTaken
    <3>2. \A k \in Messages : k < m => fate[k] # "new"
      BY <3>1 DEF Safe, NewLast
    <3> QED
      BY <3>1, <3>2
  <2> QED
    BY <2>1, <2>2
<1>2. ASSUME NEW u \in Contacts, NEW k \in Elems(pending[u])
      PROVE  k \in Messages /\ k < m
  <2>1. k \in Messages
    BY LenProperties, ElementOfSeq DEF TypeOK, Elems
  <2>2. fate[k] \notin {"new", "taken"}
    BY DEF Safe, QueueFates
  <2>3. k # m /\ ~(k > m)
    BY <2>1, <2>2, <1>1
  <2> QED
    BY <2>1, <2>3 DEF Messages
<1>3. m \notin Elems(batch)
  BY <1>1 DEF Safe, BatchFates
<1> QED
  BY <1>1, <1>2, <1>3

\* send() ends: what it parks is the youngest of its contact and "late" for a
\* flush under way.
LEMMA DirectEndsSafe ==
  ASSUME TypeOK, Safe, TypeOK', NEW m \in Messages, NEW v, DirectEnds(m, v),
         \/ fate[m] = "new" /\ \A k \in 1..m - 1 : fate[k] # "new"
         \/ lane["direct"] # Idle /\ m = lane["direct"].msg,
         UNCHANGED <<flushing, batch>>
  PROVE  Safe'
<1> DEFINE u == Target[m]
           parks == v \in {"missing", "prepare"}
           kept == QueuePending(pending[u], m)
<1> USE DEF Safe
<1>1. /\ fate[m] \in {"new", "taken"}
      /\ \A k \in Messages : k > m => fate[k] = "new"
      /\ \A k \in Messages : k < m => fate[k] # "new"
      /\ \A w \in Contacts : \A k \in Elems(pending[w]) : k \in Messages /\ k < m
      /\ m \notin Elems(batch)
  BY DirectPlace
<1>2. u \in Contacts /\ pending[u] \in Seq(Messages)
  BY WeixinAssumption DEF TypeOK
<1>3. /\ kept \in Seq(Messages)
      /\ Elems(kept) \subseteq Elems(pending[u]) \cup {m} /\ m \in Elems(kept)
      /\ Len(pending[u]) <= Limit => Len(kept) <= Limit
      /\ Increasing(pending[u]) => Increasing(kept)
  BY <1>1, <1>2, QueuePendingFacts, Zenon
<1> HIDE DEF kept
<1>4. /\ lane' = [lane EXCEPT !.direct = Idle]
      /\ pending' = IF parks THEN [pending EXCEPT ![u] = kept] ELSE pending
  BY DEF DirectEnds, kept
<1>5. /\ fate'[m] = IF parks THEN IF flushing = u THEN "late" ELSE "parked"
                    ELSE IF v = "ok" THEN "delivered" ELSE "failed"
      /\ \A k \in Messages : k # m =>
           fate'[k] = IF parks /\ k \in Elems(pending[u]) \ Elems(kept)
                         /\ fate[k] \in Queued
                        THEN "overflow" ELSE fate[k]
  BY DEF DirectEnds, kept
<1> HIDE DEF parks, u
<1>6. /\ \A w \in Contacts : w # u \/ ~parks => pending'[w] = pending[w]
      /\ parks => pending'[u] = kept
  BY <1>2, <1>4 DEF TypeOK
<1>7. /\ lane'["flush"] = lane["flush"] /\ lane'["direct"] = Idle
      /\ flushing' = flushing /\ batch' = batch
  BY <1>4 DEF TypeOK, Lanes
<1>8. WithinLimit' /\ InOrder'
  BY <1>3, <1>6, <1>7 DEF WithinLimit, InOrder
<1>9. ParkedIsHeld'
  <2> SUFFICES ASSUME NEW k \in Messages, fate'[k] = "parked"
               PROVE  k \in Elems(pending'[Target[k]])
    BY DEF ParkedIsHeld
  <2>1. CASE k = m
    BY <2>1, <1>3, <1>5, <1>6 DEF u
  <2>2. CASE k # m
    <3>1. fate[k] = "parked" /\ k \in Elems(pending[Target[k]])
      BY <2>2, <1>5 DEF ParkedIsHeld
    <3>2. CASE parks /\ Target[k] = u
      BY <2>2, <3>1, <3>2, <1>5, <1>6 DEF Queued
    <3>3. CASE ~(parks /\ Target[k] = u)
      BY <3>1, <3>3, <1>6, WeixinAssumption
    <3> QED
      BY <3>2, <3>3
  <2> QED
    BY <2>1, <2>2
<1>10. FlushShape' /\ BatchWithinLimit'
  BY <1>7 DEF FlushShape, BatchWithinLimit
<1>11. Owned'
  BY <1>3, <1>6, <1>7 DEF Owned, u
<1>12. BatchHasParked'
  BY <1>5, <1>7 DEF BatchHasParked, u
<1>13. QueueFates'
  <2> SUFFICES ASSUME NEW w \in Contacts, NEW k \in Elems(pending'[w])
               PROVE  /\ fate'[k] \notin {"new", "taken"}
                      /\ flushing # w => fate'[k] = "parked"
    BY <1>7 DEF QueueFates
  <2>1. k = m \/ k \in Elems(pending[w])
    BY <1>3, <1>6
  <2>2. CASE k = m
    <3>1. parks /\ w = u
      BY <2>2, <1>1, <1>3, <1>6 DEF Messages
    <3> QED
      BY <2>2, <3>1, <1>5
  <2>3. CASE k # m /\ k \in Elems(pending[w])
    <3>1. k \in Messages /\ Target[k] = w
      BY <2>3, <1>1 DEF Owned
    <3>2. ~(parks /\ k \in Elems(pending[u]) \ Elems(kept))
      BY <2>3, <3>1, <1>2, <1>6 DEF Owned
    <3> QED
      BY <2>3, <3>1, <3>2, <1>5 DEF QueueFates
  <2> QED
    BY <2>1, <2>2, <2>3
<1>14. BatchFates'
  <2> SUFFICES ASSUME NEW k \in Elems(batch)
               PROVE  fate'[k] \in {"parked", "overflow"}
    BY <1>7 DEF BatchFates
  <2>1. k \in Messages /\ k # m /\ fate[k] \in {"parked", "overflow"}
    BY <1>1, LenProperties, ElementOfSeq DEF BatchFates, TypeOK, Elems
  <2> QED
    BY <2>1, <1>5
<1>15. DirectTaken'
  BY <1>7 DEF DirectTaken
<1>16. NewLast'
  <2> SUFFICES ASSUME NEW k \in Messages, NEW l \in Messages, k < l,
                      fate'[k] = "new"
               PROVE  fate'[l] = "new"
    BY DEF NewLast
  <2>1. k # m /\ fate[k] = "new"
    BY <1>5
  <2>2. k > m
    BY <2>1, <1>1 DEF Messages
  <2>3. l # m /\ fate[l] = "new"
    BY <2>1, <2>2 DEF NewLast, Messages
  <2> QED
    BY <2>3, <1>5 DEF Queued
<1> QED
  BY <1>8, <1>9, <1>10, <1>11, <1>12, <1>13, <1>14, <1>15, <1>16

\* What a flush of u may have made of the fates when it comes to the messages
\* in rest: only its own messages ended, and the parked ones are all in rest.
FlushState(u, rest, f) ==
  /\ flushing \in {None, u}
  /\ Len(rest) <= Limit /\ Increasing(rest)
  /\ \A m \in Elems(rest) : Target[m] = u /\ f[m] \in {"parked", "overflow"}
  /\ \A m \in Messages :
       \/ f[m] = fate[m]
       \/ /\ Target[m] = u /\ fate[m] \in {"parked", "overflow"}
          /\ f[m] \in {"delivered", "refused", "expired", "offline"}
  /\ \A m \in Messages :
       f[m] = "parked" /\ Target[m] = u => m \in Elems(rest)

LEMMA FlushEndsSafe ==
  ASSUME TypeOK, Safe, NEW u \in Contacts, NEW kept \in Seq(Messages),
         NEW f \in [Messages -> Fates], FlushEnds(u, kept, f),
         FlushState(u, kept, f)
  PROVE  Safe'
<1> USE DEF Safe
<1>1. /\ pending' = [pending EXCEPT ![u] = kept]
      /\ flushing' = None /\ batch' = <<>>
      /\ lane' = [lane EXCEPT !.flush = Idle]
  BY DEF FlushEnds
<1>2. /\ pending'[u] = kept
      /\ \A w \in Contacts : w # u => pending'[w] = pending[w]
      /\ lane'["flush"] = Idle /\ lane'["direct"] = lane["direct"]
  BY <1>1 DEF TypeOK, Lanes
<1>3. /\ \A m \in Elems(kept) :
           m \in Messages /\ Target[m] = u /\ fate'[m] = "parked"
      /\ \A m \in Messages : m \notin Elems(kept) => fate'[m] = f[m]
  <2>1. \A m \in Elems(kept) : m \in Messages
    BY LenProperties, ElementOfSeq DEF Elems
  <2> QED
    BY <2>1 DEF FlushEnds, FlushState
<1>4. \A m \in Messages :
        fate[m] \in {"new", "taken"} \/ fate'[m] \in {"new", "taken"}
          => fate'[m] = fate[m]
  BY <1>3 DEF FlushState
<1>5. WithinLimit' /\ InOrder'
  BY <1>1, <1>2, QueueEmpty DEF WithinLimit, InOrder, FlushState
<1>6. ParkedIsHeld'
  <2> SUFFICES ASSUME NEW m \in Messages, fate'[m] = "parked"
               PROVE  m \in Elems(pending'[Target[m]])
    BY DEF ParkedIsHeld
  <2>1. CASE m \in Elems(kept)
    BY <2>1, <1>2, <1>3
  <2>2. CASE m \notin Elems(kept)
    <3>1. f[m] = "parked" /\ Target[m] # u /\ fate[m] = "parked"
      BY <2>2, <1>3 DEF FlushState
    <3> QED
      BY <3>1, <1>2, WeixinAssumption DEF ParkedIsHeld
  <2> QED
    BY <2>1, <2>2
<1>7. FlushShape' /\ BatchWithinLimit' /\ BatchHasParked' /\ BatchFates'
  BY <1>1, <1>2, QueueEmpty, WeixinAssumption
  DEF FlushShape, BatchWithinLimit, BatchHasParked, BatchFates
<1>8. Owned'
  BY <1>1, <1>2, <1>3, QueueEmpty DEF Owned
<1>9. QueueFates'
  <2> SUFFICES ASSUME NEW w \in Contacts, NEW m \in Elems(pending'[w])
               PROVE  fate'[m] = "parked"
    BY DEF QueueFates
  <2>1. CASE w = u
    BY <2>1, <1>2, <1>3
  <2>2. CASE w # u
    <3>1. m \in Elems(pending[w]) /\ m \in Messages
      BY <2>2, <1>2, LenProperties, ElementOfSeq DEF TypeOK, Elems
    <3>2. Target[m] # u /\ fate[m] = "parked"
      BY <2>2, <3>1, WeixinAssumption DEF Owned, QueueFates, FlushState
    <3> QED
      BY <3>1, <3>2, <1>3 DEF FlushState
  <2> QED
    BY <2>1, <2>2
<1>10. DirectTaken'
  BY <1>2, <1>4 DEF DirectTaken
<1>11. NewLast'
  BY <1>4 DEF NewLast
<1> QED
  BY <1>5, <1>6, <1>7, <1>8, <1>9, <1>10, <1>11

LEMMA FlushGoesOnSafe ==
  ASSUME TypeOK, Safe, NEW u \in Contacts, NEW rest \in Seq(Messages),
         NEW f \in [Messages -> Fates], FlushGoesOn(u, rest, f),
         FlushState(u, rest, f)
  PROVE  Safe'
<1> DEFINE fresh == Fresh(rest)
           left == [m \in Messages |->
                      IF m \in Elems(rest) \ Elems(fresh) THEN "expired" ELSE f[m]]
           off == [m \in Messages |->
                     IF m \notin Elems(fresh) THEN left[m]
                     ELSE IF m \in aged THEN "expired" ELSE "offline"]
<1>1. /\ fresh \in Seq(Messages) /\ Len(fresh) <= Len(rest)
      /\ Elems(fresh) \subseteq Elems(rest)
      /\ Increasing(rest) => Increasing(fresh)
  BY FreshFacts
<1>2. \A m \in Elems(rest) : m \in Messages
  BY LenProperties, ElementOfSeq DEF Elems
<1>3. Limit \in Nat /\ Len(rest) \in Nat /\ Len(fresh) \in Nat
  BY <1>1, WeixinAssumption, LenProperties
<1>4. left \in [Messages -> Fates] /\ FlushState(u, fresh, left)
  BY <1>1, <1>2, <1>3 DEF FlushState, Fates
<1>5. off \in [Messages -> Fates] /\ FlushState(u, <<>>, off)
  BY <1>1, <1>2, <1>3, <1>4, QueueEmpty DEF FlushState, Fates
<1>6. CASE fresh = <<>>
  <2>1. FlushEnds(u, <<>>, left)
    BY <1>6 DEF FlushGoesOn
  <2> HIDE DEF left
  <2> QED
    BY <2>1, <1>4, <1>6, FlushEndsSafe, QueueEmpty
<1>7. CASE fresh # <<>> /\ ~loggedIn
  <2>1. FlushEnds(u, <<>>, off)
    BY <1>7 DEF FlushGoesOn
  <2> HIDE DEF off
  <2> QED
    BY <2>1, <1>5, FlushEndsSafe, QueueEmpty
<1>8. CASE fresh # <<>> /\ loggedIn /\ u \notin token'
  <2>1. FlushEnds(u, fresh, left)
    BY <1>8 DEF FlushGoesOn
  <2> HIDE DEF left
  <2> QED
    BY <2>1, <1>1, <1>4, FlushEndsSafe
<1>9. CASE fresh # <<>> /\ loggedIn /\ u \in token'
  <2>1. /\ flushing' = u /\ batch' = fresh /\ fate' = left
        /\ lane' = [lane EXCEPT !.flush = Sending(Head(fresh))]
        /\ pending' = pending
    BY <1>9 DEF FlushGoesOn
  <2> HIDE DEF left, fresh
  <2>2. /\ lane'["flush"].msg = Head(fresh) /\ lane'["direct"] = lane["direct"]
    BY <2>1 DEF TypeOK, Lanes, Sending
  <2>3. /\ \A m \in Messages : left[m] = "parked" => fate[m] = "parked"
        /\ \A m \in Messages :
             fate[m] \in {"new", "taken"} \/ left[m] \in {"new", "taken"}
               => left[m] = fate[m]
    BY <1>4 DEF FlushState
  <2>4. WithinLimit' /\ InOrder' /\ BatchWithinLimit'
    BY <1>4, <2>1 DEF Safe, WithinLimit, InOrder, BatchWithinLimit, FlushState
  <2>5. ParkedIsHeld'
    BY <2>1, <2>3 DEF Safe, ParkedIsHeld
  <2>6. FlushShape'
    BY <1>9, <2>1, <2>2, WeixinAssumption DEF FlushShape
  <2>7. Owned' /\ BatchHasParked' /\ BatchFates'
    BY <1>4, <2>1 DEF Safe, Owned, BatchHasParked, BatchFates, FlushState
  <2>8. QueueFates'
    <3> SUFFICES ASSUME NEW w \in Contacts, NEW m \in Elems(pending[w])
                 PROVE  /\ left[m] \notin {"new", "taken"}
                        /\ u # w => left[m] = "parked"
      BY <2>1 DEF QueueFates
    <3>1. m \in Messages /\ Target[m] = w
      BY LenProperties, ElementOfSeq DEF TypeOK, Elems, Safe, Owned
    <3>2. fate[m] \notin {"new", "taken"}
      BY DEF Safe, QueueFates
    <3>3. ASSUME u # w PROVE left[m] = "parked"
      <4>1. flushing # w
        BY <3>3, <1>4, WeixinAssumption DEF FlushState
      <4>2. fate[m] = "parked"
        BY <4>1 DEF Safe, QueueFates
      <4> QED
        BY <4>2, <3>1, <3>3, <1>4 DEF FlushState
    <3> QED
      BY <3>1, <3>2, <3>3, <2>3
  <2>9. DirectTaken' /\ NewLast'
    BY <2>1, <2>2, <2>3 DEF Safe, DirectTaken, NewLast
  <2> QED
    BY <2>4, <2>5, <2>6, <2>7, <2>8, <2>9 DEF Safe
<1> QED
  BY <1>6, <1>7, <1>8, <1>9

LEMMA FlushStartSafe ==
  ASSUME TypeOK, Safe, NEW u \in Contacts, FlushStart(u)
  PROVE  Safe'
<1>1. /\ flushing = None /\ FlushGoesOn(u, pending[u], fate)
      /\ pending[u] \in Seq(Messages) /\ fate \in [Messages -> Fates]
  BY DEF FlushStart, TypeOK
<1>2. FlushState(u, pending[u], fate)
  <2>1. Len(pending[u]) <= Limit /\ Increasing(pending[u])
    BY DEF Safe, WithinLimit, InOrder
  <2>2. \A m \in Elems(pending[u]) : Target[m] = u /\ fate[m] = "parked"
    BY <1>1, WeixinAssumption DEF Safe, Owned, QueueFates
  <2>3. \A m \in Messages :
          fate[m] = "parked" /\ Target[m] = u => m \in Elems(pending[u])
    BY DEF Safe, ParkedIsHeld
  <2> QED
    BY <2>1, <2>2, <2>3, <1>1 DEF FlushState
<1> QED
  BY <1>1, <1>2, FlushGoesOnSafe

LEMMA FlushReplySafe ==
  ASSUME TypeOK, Safe, NEW reply \in Replies, NEW learns \in BOOLEAN,
         FlushReply(reply, learns)
  PROVE  Safe'
<1> DEFINE p == lane["flush"]
           v == Verdict(p, reply)
           after == [fate EXCEPT ![p.msg] = IF v = "ok" THEN "delivered"
                                                        ELSE "refused"]
<1>1. /\ flushing \in Contacts /\ flushing # None /\ p \in Progresses
      /\ batch \in Seq(Messages) /\ batch # <<>> /\ p.msg = Head(batch)
      /\ fate \in [Messages -> Fates]
  BY DEF FlushReply, TypeOK, Lanes, Progresses, Safe, FlushShape
<1>2. /\ Len(batch) <= Limit /\ Increasing(batch)
      /\ \A m \in Elems(batch) :
           Target[m] = flushing /\ fate[m] \in {"parked", "overflow"}
      /\ \A m \in Messages :
           fate[m] = "parked" /\ Target[m] = flushing => m \in Elems(batch)
  BY <1>1 DEF Safe, BatchWithinLimit, InOrder, Owned, BatchFates, BatchHasParked
<1>3. CASE v = "none"
  <2>1. /\ lane' = [lane EXCEPT !.flush = Progress(p, reply)]
        /\ UNCHANGED <<pending, flushing, batch, fate>>
    BY <1>3 DEF FlushReply
  <2>2. /\ lane'["flush"].msg = p.msg /\ lane'["direct"] = lane["direct"]
    BY <2>1, <1>1, ProgressTypes DEF TypeOK, Lanes
  <2> QED
    BY <2>1, <2>2, <1>1
    DEF Safe, WithinLimit, ParkedIsHeld, InOrder, FlushShape, Owned,
        BatchWithinLimit, BatchHasParked, QueueFates, BatchFates, DirectTaken,
        NewLast
<1>4. CASE v \in {"prepare", "expired"}
  <2>1. FlushEnds(flushing, batch, fate)
    BY <1>4 DEF FlushReply, Kept
  <2>2. FlushState(flushing, batch, fate)
    BY <1>2 DEF FlushState
  <2> QED
    BY <2>1, <2>2, <1>1, FlushEndsSafe
<1>5. CASE v # "none" /\ v \notin {"prepare", "expired"}
  <2>1. FlushGoesOn(flushing, Tail(batch), after)
    BY <1>5 DEF FlushReply
  <2>2. /\ p.msg \in Messages /\ Tail(batch) \in Seq(Messages)
        /\ Len(batch) \in Nat \ {0} /\ Len(Tail(batch)) = Len(batch) - 1
        /\ Elems(batch) = {p.msg} \cup Elems(Tail(batch))
        /\ Increasing(Tail(batch)) /\ p.msg \notin Elems(Tail(batch))
    BY <1>1, <1>2, QueueTail
  <2>3. /\ after \in [Messages -> Fates]
        /\ after[p.msg] \in {"delivered", "refused"}
        /\ \A m \in Messages : m # p.msg => after[m] = fate[m]
    BY <1>1, <2>2 DEF Fates
  <2> HIDE DEF after
  <2>4. FlushState(flushing, Tail(batch), after)
    <3>1. Len(Tail(batch)) <= Limit
      BY <1>2, <2>2, WeixinAssumption
    <3>2. \A m \in Elems(Tail(batch)) :
            Target[m] = flushing /\ after[m] \in {"parked", "overflow"}
      <4>1. \A m \in Elems(Tail(batch)) : m \in Messages
        BY <2>2, LenProperties, ElementOfSeq DEF Elems
      <4> QED
        BY <4>1, <1>2, <2>2, <2>3
    <3> QED
      BY <3>1, <3>2, <1>2, <2>2, <2>3 DEF FlushState
  <2> QED
    BY <2>1, <2>2, <2>3, <2>4, <1>1, FlushGoesOnSafe
<1> QED
  BY <1>3, <1>4, <1>5

LEMMA DirectReplySafe ==
  ASSUME TypeOK, Safe, TypeOK', NEW reply \in Replies, NEW learns \in BOOLEAN,
         DirectReply(reply, learns)
  PROVE  Safe'
<1> DEFINE p == lane["direct"]
<1>1. p \in Progresses /\ p # Idle /\ p.msg \in Messages
  BY DEF TypeOK, Lanes, Progresses, Safe, DirectTaken, DirectReply
<1>2. CASE Verdict(p, reply) = "none"
  <2>1. /\ lane' = [lane EXCEPT !.direct = Progress(p, reply)]
        /\ UNCHANGED <<pending, fate, flushing, batch>>
    BY <1>2 DEF DirectReply
  <2>2. /\ lane'["direct"].msg = p.msg /\ lane'["flush"] = lane["flush"]
    BY <2>1, <1>1, ProgressTypes DEF TypeOK, Lanes
  <2> QED
    BY <2>1, <2>2, <1>1
    DEF Safe, WithinLimit, ParkedIsHeld, InOrder, FlushShape, Owned,
        BatchWithinLimit, BatchHasParked, QueueFates, BatchFates, DirectTaken,
        NewLast
<1>3. CASE Verdict(p, reply) # "none"
  <2>1. DirectEnds(p.msg, Verdict(p, reply)) /\ UNCHANGED <<flushing, batch>>
    BY <1>3 DEF DirectReply
  <2> QED
    BY <2>1, <1>1, DirectEndsSafe
<1> QED
  BY <1>2, <1>3

LEMMA DirectSendSafe ==
  ASSUME TypeOK, Safe, TypeOK', NEW m \in Messages, DirectSend(m)
  PROVE  Safe'
<1>1. CASE Obstacle(m) = "none"
  <2>1. /\ lane' = [lane EXCEPT !.direct = Sending(m)]
        /\ fate' = [fate EXCEPT ![m] = "taken"]
        /\ UNCHANGED <<pending, flushing, batch>>
    BY <1>1 DEF DirectSend
  <2>2. /\ lane'["direct"].msg = m /\ lane'["flush"] = lane["flush"]
    BY <2>1 DEF TypeOK, Lanes, Sending
  <2>3. /\ fate[m] \in {"new", "taken"}
        /\ \A k \in Messages : k > m => fate[k] = "new"
        /\ \A k \in Messages : k < m => fate[k] # "new"
        /\ \A u \in Contacts : \A k \in Elems(pending[u]) : k \in Messages /\ k < m
        /\ m \notin Elems(batch)
    BY DirectPlace DEF DirectSend
  <2>4. /\ fate'[m] = "taken"
        /\ \A k \in Messages : k # m => fate'[k] = fate[k]
    BY <2>1 DEF TypeOK
  <2>5. \A u \in Contacts : \A k \in Elems(pending[u]) :
          k \in Messages /\ k # m /\ fate'[k] = fate[k]
    BY <2>3, <2>4 DEF Messages
  <2>6. WithinLimit' /\ InOrder' /\ FlushShape' /\ Owned' /\ BatchWithinLimit'
    BY <2>1, <2>2 DEF Safe, WithinLimit, InOrder, FlushShape, Owned,
                      BatchWithinLimit
  <2>7. ParkedIsHeld' /\ BatchHasParked'
    BY <2>1, <2>4 DEF Safe, ParkedIsHeld, BatchHasParked
  <2>8. QueueFates'
    BY <2>1, <2>5 DEF Safe, QueueFates
  <2>9. BatchFates'
    <3>1. \A k \in Elems(batch) : k \in Messages /\ k # m
      BY <2>3, LenProperties, ElementOfSeq DEF TypeOK, Elems
    <3> QED
      BY <3>1, <2>1, <2>4 DEF Safe, BatchFates
  <2>10. DirectTaken'
    <3>1. \A k \in Messages : k > m => fate'[k] = "new"
      BY <2>3, <2>4 DEF Messages
    <3> QED
      BY <3>1, <2>2, <2>4 DEF DirectTaken
  <2>11. NewLast'
    <3> SUFFICES ASSUME NEW k \in Messages, NEW l \in Messages, k < l,
                        fate'[k] = "new"
                 PROVE  fate'[l] = "new"
      BY DEF NewLast
    <3>1. k # m /\ fate[k] = "new"
      BY <2>4
    <3>2. l # m /\ fate[l] = "new"
      BY <3>1, <2>3 DEF Messages, Safe, NewLast
    <3> QED
      BY <3>2, <2>4
  <2> QED
    BY <2>6, <2>7, <2>8, <2>9, <2>10, <2>11 DEF Safe
<1>2. CASE Obstacle(m) # "none"
  <2>1. DirectEnds(m, Obstacle(m)) /\ UNCHANGED <<flushing, batch>>
    BY <1>2 DEF DirectSend
  <2> QED
    BY <2>1, DirectEndsSafe DEF DirectSend
<1> QED
  BY <1>1, <1>2

LEMMA DirectTimeoutSafe ==
  ASSUME TypeOK, Safe, TypeOK', DirectTimeout
  PROVE  Safe'
<1> DEFINE m == lane["direct"].msg
<1>1. m \in Messages /\ fate[m] = "taken"
  BY DEF DirectTimeout, Safe, DirectTaken
<1>2. /\ lane' = [lane EXCEPT !.direct = Idle] /\ fate' = [fate EXCEPT ![m] = "failed"]
      /\ UNCHANGED <<pending, flushing, batch>>
  BY DEF DirectTimeout
<1>3. /\ lane'["direct"] = Idle /\ lane'["flush"] = lane["flush"]
      /\ fate'[m] = "failed" /\ \A k \in Messages : k # m => fate'[k] = fate[k]
  BY <1>1, <1>2 DEF TypeOK, Lanes
<1> HIDE DEF m
<1>4. WithinLimit' /\ InOrder' /\ FlushShape' /\ Owned' /\ BatchWithinLimit'
  BY <1>2, <1>3 DEF Safe, WithinLimit, InOrder, FlushShape, Owned,
                    BatchWithinLimit
<1>5. ParkedIsHeld' /\ BatchHasParked'
  BY <1>1, <1>2, <1>3 DEF Safe, ParkedIsHeld, BatchHasParked
<1>6. QueueFates'
  <2>1. \A u \in Contacts : \A k \in Elems(pending[u]) : k \in Messages /\ k # m
    BY <1>1, LenProperties, ElementOfSeq DEF TypeOK, Elems, Safe, QueueFates
  <2> QED
    BY <2>1, <1>2, <1>3 DEF Safe, QueueFates
<1>7. BatchFates'
  <2>1. \A k \in Elems(batch) : k \in Messages
    BY LenProperties, ElementOfSeq DEF TypeOK, Elems
  <2>2. m \notin Elems(batch)
    BY <1>1 DEF Safe, BatchFates
  <2> QED
    BY <2>1, <2>2, <1>2, <1>3 DEF Safe, BatchFates
<1>8. DirectTaken' /\ NewLast'
  BY <1>1, <1>3 DEF Safe, DirectTaken, NewLast
<1> QED
  BY <1>4, <1>5, <1>6, <1>7, <1>8 DEF Safe

LEMMA RestartSafe ==
  ASSUME TypeOK, Safe, Restart
  PROVE  Safe'
<1>1. /\ \A u \in Contacts : pending'[u] = <<>>
      /\ flushing' = None /\ batch' = <<>>
      /\ lane'["direct"] = Idle /\ lane'["flush"] = Idle
  BY DEF Restart, Lanes
<1>2. \A m \in Messages :
        /\ fate'[m] # "parked"
        /\ fate'[m] = "new" <=> fate[m] = "new"
  <2>1. \A m \in Messages : fate[m] = "new" => m \notin Elems(batch)
    BY DEF Safe, BatchFates
  <2> QED
    BY <2>1 DEF Restart, Queued
<1>3. /\ WithinLimit' /\ InOrder' /\ FlushShape' /\ Owned' /\ BatchWithinLimit'
      /\ BatchHasParked' /\ QueueFates' /\ BatchFates' /\ DirectTaken'
  BY <1>1, QueueEmpty, WeixinAssumption
  DEF WithinLimit, InOrder, FlushShape, Owned, BatchWithinLimit,
      BatchHasParked, QueueFates, BatchFates, DirectTaken
<1>4. ParkedIsHeld' /\ NewLast'
  BY <1>2 DEF ParkedIsHeld, Safe, NewLast
<1> QED
  BY <1>3, <1>4 DEF Safe

LEMMA StepIInv == IInv /\ [Next]_vars => IInv'
<1> SUFFICES ASSUME IInv, [Next]_vars PROVE IInv'
  OBVIOUS
<1>1. TypeOK'
  BY StepType
<1>2. TypeOK /\ Safe
  BY DEF IInv
<1>3. ASSUME UNCHANGED <<pending, lane, flushing, batch, fate>> PROVE Safe'
  BY <1>2, <1>3
  DEF Safe, WithinLimit, ParkedIsHeld, InOrder, FlushShape, Owned,
      BatchWithinLimit, BatchHasParked, QueueFates, BatchFates, DirectTaken,
      NewLast
<1>4. CASE \E m \in Messages : DirectSend(m)
  BY <1>1, <1>2, <1>4, DirectSendSafe DEF IInv
<1>5. CASE Reply
  BY <1>1, <1>2, <1>5, DirectReplySafe, FlushReplySafe DEF IInv, Reply
<1>6. CASE DirectTimeout
  BY <1>1, <1>2, <1>6, DirectTimeoutSafe DEF IInv
<1>7. CASE \E u \in Contacts : FlushStart(u)
  BY <1>1, <1>2, <1>7, FlushStartSafe DEF IInv
<1>8. CASE Restart
  BY <1>1, <1>2, <1>8, RestartSafe DEF IInv
<1>9. CASE (\E u \in Contacts : Inbound(u) \/ \E i \in 1..Limit : Age(u, i))
           \/ Login \/ Logout \/ Poll \/ PollEnds \/ UNCHANGED vars
  BY <1>1, <1>3, <1>9
  DEF IInv, Inbound, Age, Login, Logout, Poll, PollEnds, vars
<1> QED
  BY <1>4, <1>5, <1>6, <1>7, <1>8, <1>9 DEF Next

LEMMA AlwaysIInv == Spec => []IInv
<1>1. Init => IInv
  <2> SUFFICES ASSUME Init PROVE IInv
    OBVIOUS
  <2>1. TypeOK
    BY ProgressTypes, QueueEmpty DEF Init, TypeOK, Progresses, Fates
  <2>2. /\ \A u \in Contacts : pending[u] = <<>>
        /\ flushing = None /\ batch = <<>>
        /\ lane["direct"] = Idle /\ lane["flush"] = Idle
        /\ \A m \in Messages : fate[m] = "new"
    BY DEF Init, Lanes
  <2>3. Safe
    BY <2>2, QueueEmpty, WeixinAssumption
    DEF Safe, WithinLimit, ParkedIsHeld, InOrder, FlushShape, Owned,
        BatchWithinLimit, BatchHasParked, QueueFates, BatchFates, DirectTaken,
        NewLast
  <2> QED
    BY <2>1, <2>3 DEF IInv
<1> QED
  BY <1>1, StepIInv, PTL DEF Spec

-----------------------------------------------------------------------------
(* The results.                                                            *)

\* The variables keep their types in every behaviour of the service.
THEOREM TypeCorrect == Spec => []TypeOK
  BY AlwaysIInv, PTL DEF IInv

\* No contact ever has more parked messages than the configured limit, although
\* a flush writes back its snapshot without looking at the limit.
THEOREM LimitKept == Spec => []WithinLimit
  BY AlwaysIInv, PTL DEF IInv, Safe

\* Wherever a flush stops, it writes back all that it read and did not deal
\* with: what was parked while no flush of its contact ran is held.
THEOREM ParkedHeld == Spec => []ParkedIsHeld
  BY AlwaysIInv, PTL DEF IInv, Safe

\* The parked messages of a contact keep the order in which they were sent.
THEOREM OrderKept == Spec => []InOrder
  BY AlwaysIInv, PTL DEF IInv, Safe

\* A parked message that a flush delivered in full is not sent a second time,
\* although the queue still holds it until that flush ends.
THEOREM DeliveredOnceAlways == Spec => []DeliveredOnce
<1>1. ASSUME IInv PROVE DeliveredOnce
  <2> USE <1>1 DEF IInv, Safe
  <2> SUFFICES ASSUME NEW m \in Messages, fate[m] = "delivered"
               PROVE  /\ \A l \in Lanes : lane[l].msg # m
                      /\ m \notin Elems(batch)
                      /\ m \in Elems(pending[Target[m]]) => flushing = Target[m]
    BY DEF DeliveredOnce
  <2>1. m \notin Elems(batch)
    BY DEF BatchFates
  <2>2. Idle.msg # m
    BY DEF Idle, Messages
  <2>3. lane["direct"].msg # m
    BY <2>2 DEF DirectTaken
  <2>4. lane["flush"].msg # m
    <3>1. CASE flushing = None
      BY <3>1, <2>2 DEF FlushShape
    <3>2. CASE flushing # None
      <4>1. lane["flush"].msg \in Elems(batch)
        BY <3>2, QueueTail DEF FlushShape, TypeOK
      <4> QED
        BY <4>1, <2>1
    <3> QED
      BY <3>1, <3>2
  <2>5. m \in Elems(pending[Target[m]]) => flushing = Target[m]
    BY WeixinAssumption DEF QueueFates
  <2> QED
    BY <2>1, <2>3, <2>4, <2>5 DEF Lanes
<1> QED
  BY <1>1, AlwaysIInv, PTL

\* What the flush turns to next is not past its time.
LEMMA FlushTurnsTo ==
  ASSUME TypeOK, NEW u, NEW rest \in Seq(Messages), NEW f,
         FlushGoesOn(u, rest, f), NEW m \in Messages, lane'["flush"].msg = m
  PROVE  m \notin aged
<1>1. ASSUME lane' = [lane EXCEPT !.flush = Idle] PROVE FALSE
  <2>1. lane'["flush"] = Idle
    BY <1>1 DEF TypeOK, Lanes
  <2> QED
    BY <2>1 DEF Idle, Messages
<1>2. /\ Fresh(rest) # <<>>
      /\ lane' = [lane EXCEPT !.flush = Sending(Head(Fresh(rest)))]
  BY <1>1 DEF FlushGoesOn, FlushEnds
<1>3. lane'["flush"].msg = Head(Fresh(rest))
  BY <1>2 DEF TypeOK, Lanes, Sending
<1> QED
  BY <1>2, <1>3, FreshFacts

\* A flush never sends a message that is past its time, however long it waited
\* behind others in the snapshot of that flush.
THEOREM AgedNeverSent == Spec => NeverSentAged
<1> DEFINE Turns == \A m \in Messages :
             lane'["flush"].msg = m /\ lane["flush"].msg # m => m \notin aged
<1>1. ASSUME IInv, [Next]_vars PROVE [Turns]_vars
  <2> SUFFICES ASSUME NEW m \in Messages, lane'["flush"].msg = m,
                      lane["flush"].msg # m
               PROVE  m \notin aged
    OBVIOUS
  <2> USE <1>1 DEF IInv
  <2>1. ASSUME lane'["flush"] = lane["flush"] PROVE FALSE
    BY <2>1
  <2>2. ASSUME NEW k, NEW v, DirectEnds(k, v) PROVE FALSE
    BY <2>1, <2>2 DEF DirectEnds, TypeOK, Lanes
  <2>3. ASSUME NEW k \in Messages, DirectSend(k) PROVE FALSE
    BY <2>1, <2>2, <2>3 DEF DirectSend, TypeOK, Lanes
  <2>4. ASSUME NEW reply, NEW learns, DirectReply(reply, learns) PROVE FALSE
    BY <2>1, <2>2, <2>4 DEF DirectReply, TypeOK, Lanes
  <2>5. CASE DirectTimeout
    BY <2>1, <2>5 DEF DirectTimeout, TypeOK, Lanes
  <2>6. ASSUME NEW u \in Contacts, FlushStart(u) PROVE m \notin aged
    <3>1. FlushGoesOn(u, pending[u], fate) /\ pending[u] \in Seq(Messages)
      BY <2>6 DEF FlushStart, TypeOK
    <3> QED
      BY <3>1, FlushTurnsTo
  <2>7. ASSUME NEW reply \in Replies, NEW learns, FlushReply(reply, learns)
        PROVE  m \notin aged
    <3> DEFINE p == lane["flush"]
               v == Verdict(p, reply)
               after == [fate EXCEPT ![p.msg] = IF v = "ok" THEN "delivered"
                                                            ELSE "refused"]
    <3>1. v # "none"
      <4>1. SUFFICES ASSUME v = "none" PROVE FALSE
        OBVIOUS
      <4>2. p \in Progresses
        BY DEF TypeOK, Lanes, Progresses
      <4>3. lane' = [lane EXCEPT !.flush = Progress(p, reply)]
        BY <4>1, <2>7 DEF FlushReply
      <4>4. lane'["flush"].msg = p.msg
        BY <4>2, <4>3, ProgressTypes DEF TypeOK, Lanes
      <4> QED
        BY <4>4
    <3>2. v \notin {"prepare", "expired"}
      <4>1. SUFFICES ASSUME v \in {"prepare", "expired"} PROVE FALSE
        OBVIOUS
      <4>2. lane' = [lane EXCEPT !.flush = Idle]
        BY <4>1, <2>7 DEF FlushReply, FlushEnds
      <4>3. lane'["flush"] = Idle
        BY <4>2 DEF TypeOK, Lanes
      <4> QED
        BY <4>3 DEF Idle, Messages
    <3>3. FlushGoesOn(flushing, Tail(batch), after)
      BY <3>1, <3>2, <2>7 DEF FlushReply
    <3>4. Tail(batch) \in Seq(Messages)
      BY <2>7, QueueTail DEF FlushReply, Safe, FlushShape, TypeOK
    <3> HIDE DEF after
    <3> QED
      BY <3>3, <3>4, FlushTurnsTo
  <2>8. CASE Restart
    <3>1. lane'["flush"] = Idle
      BY <2>8 DEF Restart, Lanes
    <3> QED
      BY <3>1 DEF Idle, Messages
  <2>9. CASE (\E u \in Contacts : Inbound(u) \/ \E i \in 1..Limit : Age(u, i))
             \/ Login \/ Logout \/ Poll \/ PollEnds \/ UNCHANGED vars
    BY <2>1, <2>9 DEF Inbound, Age, Login, Logout, Poll, PollEnds, vars
  <2> QED
    BY <2>3, <2>4, <2>5, <2>6, <2>7, <2>8, <2>9, <1>1 DEF Next, Reply
<1> QED
  BY <1>1, AlwaysIInv, PTL DEF Spec, NeverSentAged
=============================================================================
