------------------------- MODULE SchedulerQueueProofs -------------------------
(***************************************************************************)
(* Machine-checked proofs about the scheduler's queue, for any number of   *)
(* nodes, any intervals and any clock: timespecs are as good as numbers,   *)
(* the list can always be walked in both directions, and it implements the *)
(* ordered sequence of TaskQueue.                                          *)
(***************************************************************************)
EXTENDS SchedulerQueue, SequenceLemmas

-----------------------------------------------------------------------------
(* Timespecs *)

\* A second has at least one nanosecond.
LEMMA SecondIsPositive == NS_PER_SEC \in Nat /\ NS_PER_SEC > 0
<1>1. \A m, n \in Nat \ {0} : m * n \in Nat /\ m * n > 0
  OBVIOUS
<1>2. QED
  BY <1>1, UnitAssumption DEF NS_PER_SEC

\* The products that Value is made of are whole numbers and grow with the
\* seconds.
LEMMA SecondsInOrder ==
  ASSUME NEW a \in Nat, NEW b \in Nat
  PROVE  /\ a * NS_PER_SEC \in Nat
         /\ (a + b) * NS_PER_SEC = a * NS_PER_SEC + b * NS_PER_SEC
         /\ (a + 1) * NS_PER_SEC = a * NS_PER_SEC + NS_PER_SEC
         /\ a > b => a * NS_PER_SEC >= b * NS_PER_SEC + NS_PER_SEC
<1> DEFINE N == NS_PER_SEC
<1>0. N \in Nat /\ N > 0
  BY SecondIsPositive
<1> HIDE DEF N
<1>1. a * N \in Nat /\ b * N \in Nat
  BY <1>0
<1>2. (a + b) * N = a * N + b * N /\ (a + 1) * N = a * N + N
  BY <1>0
<1>3. ASSUME a > b PROVE a * N >= b * N + N
  <2>1. PICK k \in Nat : a = b + 1 + k
    <3>1. a - b - 1 \in Nat /\ a = b + 1 + (a - b - 1)
      BY <1>3
    <3>2. QED
      BY <3>1
  <2>2. a * N = b * N + N + k * N /\ k * N \in Nat
    BY <1>0, <2>1
  <2>3. QED
    BY <1>0, <1>1, <2>2
<1>4. QED
  BY <1>1, <1>2, <1>3 DEF N

\* tm_ge() compares the times as numbers.
THEOREM tm_ge_Compares ==
  ASSUME NEW a \in timespec_t, NEW b \in timespec_t
  PROVE  tm_ge(a, b) <=> Value(a) >= Value(b)
<1> DEFINE N == NS_PER_SEC
<1>1. N \in Nat /\ N > 0
  BY SecondIsPositive
<1>2. /\ a.tv_sec \in Nat /\ a.tv_nsec \in Nat /\ a.tv_nsec < N
      /\ b.tv_sec \in Nat /\ b.tv_nsec \in Nat /\ b.tv_nsec < N
  BY <1>1 DEF timespec_t
<1>3. a.tv_sec * N \in Nat /\ b.tv_sec * N \in Nat
  BY <1>2, SecondsInOrder
<1>4. CASE a.tv_sec > b.tv_sec
  <2>1. a.tv_sec * N >= b.tv_sec * N + N
    BY <1>2, <1>4, SecondsInOrder
  <2>2. Value(a) >= Value(b)
    BY <1>1, <1>2, <1>3, <2>1 DEF Value
  <2>3. QED
    BY <1>4, <2>2 DEF tm_ge
<1>5. CASE a.tv_sec = b.tv_sec
  BY <1>2, <1>3, <1>5 DEF tm_ge, Value
<1>6. CASE b.tv_sec > a.tv_sec
  <2>1. b.tv_sec * N >= a.tv_sec * N + N
    BY <1>2, <1>6, SecondsInOrder
  <2>2. ~(Value(a) >= Value(b))
    BY <1>1, <1>2, <1>3, <2>1 DEF Value
  <2>3. QED
    BY <1>2, <1>6, <2>2 DEF tm_ge
<1>7. QED
  BY <1>2, <1>4, <1>5, <1>6

\* tm_incr() adds the times as numbers, and its result is normalised.
THEOREM tm_incr_Adds ==
  ASSUME NEW v \in timespec_t, NEW i \in timespec_t
  PROVE  /\ tm_incr(v, i) \in timespec_t
         /\ Value(tm_incr(v, i)) = Value(v) + Value(i)
<1> DEFINE N == NS_PER_SEC
           nsecs == v.tv_nsec + i.tv_nsec
           secs == v.tv_sec + i.tv_sec
<1>1. N \in Nat /\ N > 0
  BY SecondIsPositive
<1>2. /\ v.tv_sec \in Nat /\ v.tv_nsec \in Nat /\ v.tv_nsec < N
      /\ i.tv_sec \in Nat /\ i.tv_nsec \in Nat /\ i.tv_nsec < N
  BY <1>1 DEF timespec_t
<1>3. /\ secs * N = v.tv_sec * N + i.tv_sec * N
      /\ v.tv_sec * N \in Nat /\ i.tv_sec * N \in Nat
      /\ (secs + 1) * N = secs * N + N
  <2>1. /\ secs * N = v.tv_sec * N + i.tv_sec * N
        /\ v.tv_sec * N \in Nat /\ i.tv_sec * N \in Nat
    BY <1>2, SecondsInOrder
  <2>2. secs \in Nat
    BY <1>2
  <2>3. (secs + 1) * N = secs * N + N
    BY <2>2, SecondsInOrder
  <2>4. QED
    BY <2>1, <2>3
<1>4. CASE nsecs < N
  <2>1. nsecs \div N = 0 /\ nsecs % N = nsecs
    BY <1>1, <1>2, <1>4
  <2>2. tm_incr(v, i) = [tv_sec |-> secs, tv_nsec |-> nsecs]
    BY <1>2, <2>1 DEF tm_incr
  <2>3. QED
    BY <1>1, <1>2, <1>3, <1>4, <2>2 DEF Value, timespec_t
<1>5. CASE nsecs >= N
  <2>1. nsecs \div N = 1 /\ nsecs % N = nsecs - N
    BY <1>1, <1>2, <1>5
  <2>2. tm_incr(v, i) = [tv_sec |-> secs + 1, tv_nsec |-> nsecs - N]
    BY <1>2, <2>1 DEF tm_incr
  <2>3. nsecs - N \in 0 .. N - 1
    BY <1>1, <1>2, <1>5
  <2>4. QED
    BY <1>1, <1>2, <1>3, <1>5, <2>2, <2>3 DEF Value, timespec_t
<1>6. QED
  BY <1>1, <1>2, <1>4, <1>5

\* schedule() converts milliseconds to a normalised timespec of that length.
THEOREM FromMsConverts ==
  ASSUME NEW ms \in Nat
  PROVE  FromMs(ms) \in timespec_t /\ Value(FromMs(ms)) = ms * NS_PER_MS
<1> DEFINE S == MS_PER_SEC
           M == NS_PER_MS
           q == ms \div S
           r == ms % S
<1>1. S \in Nat /\ S > 0 /\ M \in Nat /\ M > 0
  BY UnitAssumption
<1>2. q \in Nat /\ r \in 0 .. S - 1 /\ ms = S * q + r
  BY <1>1
<1> HIDE DEF q, r, S, M
<1>3. r * M \in Nat /\ (S - 1 - r) * M \in Nat
  BY <1>1, <1>2
<1>4. (S - 1 - r) * M = S * M - M - r * M
  BY <1>1, <1>2
<1>5. r * M \in 0 .. S * M - 1
  BY <1>1, <1>3, <1>4
<1>6. ms * M = q * (S * M) + r * M
  BY <1>1, <1>2
<1>7. QED
  BY <1>2, <1>5, <1>6 DEF FromMs, timespec_t, Value, NS_PER_SEC, q, r, S, M

-----------------------------------------------------------------------------
(* Walks *)

\* A list whose nodes are those of s, chained in this order in both directions.
Chained(list, s) ==
  /\ list.nodes \in [Handles -> Node]
  /\ s \in Seq(Handles) /\ IsInjective(s)
  /\ list.first = IF s = << >> THEN NULL ELSE s[1]
  /\ list.last  = IF s = << >> THEN NULL ELSE s[Len(s)]
  /\ \A i \in 1 .. Len(s) :
       /\ list.nodes[s[i]].next = IF i = Len(s) THEN NULL ELSE s[i + 1]
       /\ list.nodes[s[i]].prev = IF i = 1 THEN NULL ELSE s[i - 1]

\* The nodes that a walk along the next pointers passes.
Walk(list) == [k \in 1 .. Length(list) |-> Forward(list)[k - 1]]

\* A chain has no more nodes than there are handles.
LEMMA ChainFits ==
  ASSUME NEW s \in Seq(Handles), IsInjective(s)
  PROVE  /\ Cardinality(Handles) \in Nat
         /\ Len(s) \in Nat /\ DOMAIN s = 1 .. Len(s)
         /\ \A i \in 1 .. Len(s) : s[i] \in Handles /\ s[i] # NULL
         /\ \A i, j \in 1 .. Len(s) : s[i] = s[j] => i = j
         /\ Len(s) <= Cardinality(Handles)
         /\ Cardinality(ToSet(s)) = Len(s)
<1>1. /\ Len(s) \in Nat /\ DOMAIN s = 1 .. Len(s)
      /\ \A i \in 1 .. Len(s) : s[i] \in Handles /\ s[i] # NULL
      /\ \A i, j \in 1 .. Len(s) : s[i] = s[j] => i = j
  BY LenProperties, ElementOfSeq, HandleAssumption DEF IsInjective
<1>2. IsFiniteSet(Handles) /\ Cardinality(Handles) \in Nat
  BY HandleAssumption, FS_CardinalityType
<1>3. s \in Injection(1 .. Len(s), Handles) /\ s \in Bijection(1 .. Len(s), ToSet(s))
  <2>1. s \in [1 .. Len(s) -> Handles] /\ s \in [1 .. Len(s) -> ToSet(s)]
    BY <1>1 DEF ToSet
  <2>2. \A t \in ToSet(s) : \E i \in 1 .. Len(s) : s[i] = t
    BY <1>1 DEF ToSet
  <2>3. QED
    BY <1>1, <2>1, <2>2 DEF Injection, IsInjective, Bijection, Surjection
<1>4. IsFiniteSet(1 .. Len(s)) /\ Cardinality(1 .. Len(s)) = Len(s)
  <2>1. /\ IsFiniteSet(1 .. Len(s))
        /\ Cardinality(1 .. Len(s)) = IF 1 > Len(s) THEN 0 ELSE Len(s) - 1 + 1
    BY <1>1, FS_Interval
  <2>2. QED
    BY <1>1, <2>1
<1>5. Len(s) <= Cardinality(Handles)
  BY <1>2, <1>3, <1>4, FS_Injection
<1>6. Cardinality(ToSet(s)) = Len(s)
  BY <1>3, <1>4, FS_Bijection DEF ExistsBijection
<1> QED
  BY <1>1, <1>2, <1>5, <1>6

\* A walk along a chain passes its nodes in their order and then nothing.
LEMMA ForwardFollows ==
  ASSUME NEW list, NEW s, Chained(list, s)
  PROVE  \A k \in 0 .. Cardinality(Handles) :
           Forward(list)[k] = IF k < Len(s) THEN s[k + 1] ELSE NULL
<1> DEFINE C == Cardinality(Handles)
           W == [k \in 0 .. C |-> IF k < Len(s) THEN s[k + 1] ELSE NULL]
           Step(at, k) == IF k = 0 THEN list.first
                          ELSE IF at[k - 1] = NULL THEN NULL ELSE list.nodes[at[k - 1]].next
           at == CHOOSE f : f = [k \in 0 .. C |-> Step(f, k)]
<1>1. /\ C \in Nat /\ Len(s) \in Nat /\ Len(s) <= C
      /\ \A i \in 1 .. Len(s) : s[i] # NULL
      /\ s = << >> <=> Len(s) = 0
      /\ list.first = IF s = << >> THEN NULL ELSE s[1]
      /\ \A i \in 1 .. Len(s) : list.nodes[s[i]].next = IF i = Len(s) THEN NULL ELSE s[i + 1]
  BY ChainFits, EmptySeq DEF Chained
<1>2. Forward(list) = at
  BY DEF Forward
<1> HIDE DEF C
<1>3. W = [k \in 0 .. C |-> Step(W, k)]
  <2> SUFFICES ASSUME NEW k \in 0 .. C PROVE W[k] = Step(W, k)
    OBVIOUS
  <2>1. CASE k = 0
    BY <1>1, <2>1
  <2>2. CASE k # 0
    <3>1. k - 1 \in 0 .. C /\ k - 1 + 1 = k
      BY <1>1, <2>2
    <3>2. W[k - 1] = IF k - 1 < Len(s) THEN s[k] ELSE NULL
      BY <3>1
    <3>3. CASE k - 1 < Len(s)
      <4>1. k \in 1 .. Len(s) /\ (k < Len(s) <=> k # Len(s))
        BY <1>1, <2>2, <3>3
      <4>2. W[k - 1] = s[k] /\ s[k] # NULL
        BY <1>1, <3>2, <3>3, <4>1
      <4>3. Step(W, k) = IF k = Len(s) THEN NULL ELSE s[k + 1]
        BY <1>1, <2>2, <4>1, <4>2
      <4>4. QED
        BY <4>1, <4>3
    <3>4. CASE ~(k - 1 < Len(s))
      <4>1. W[k - 1] = NULL /\ ~(k < Len(s))
        BY <1>1, <2>2, <3>2, <3>4
      <4>2. QED
        BY <2>2, <4>1
    <3>5. QED
      BY <3>3, <3>4
  <2>3. QED
    BY <2>1, <2>2
<1>4. at = [k \in 0 .. C |-> Step(at, k)]
  BY <1>3
<1> HIDE DEF at, W
<1>5. \A k \in 0 .. C : at[k] = W[k]
  <2> SUFFICES ASSUME NEW j \in 0 .. C, at[j] # W[j] PROVE FALSE
    OBVIOUS
  <2> DEFINE T == {k \in 0 .. C : at[k] # W[k]}
  <2>1. T \subseteq Nat /\ T # {}
    BY <1>1
  <2>2. PICK k \in T : \A other \in T : k <= other
    BY <2>1, LeastNumber
  <2>3. k \in 0 .. C /\ at[k] # W[k] /\ k \in Nat
    BY <1>1
  <2>4. k # 0
    BY <1>3, <1>4, <2>3
  <2>5. k - 1 \in 0 .. C /\ ~(k <= k - 1)
    BY <1>1, <2>3, <2>4
  <2>6. at[k - 1] = W[k - 1]
    BY <2>2, <2>5
  <2>7. Step(at, k) = Step(W, k)
    BY <2>6
  <2>8. QED
    BY <1>3, <1>4, <2>3, <2>7
<1> QED
  BY <1>2, <1>5 DEF W, C

\* The walk along a chain is the chain, so that a list is chained in one order
\* only.
LEMMA WalkIsChain ==
  ASSUME NEW list, NEW s, Chained(list, s)
  PROVE  Length(list) = Len(s) /\ Walk(list) = s
<1> DEFINE C == Cardinality(Handles)
           K == {k \in 0 .. C - 1 : Forward(list)[k] # NULL}
<1>1. /\ C \in Nat /\ Len(s) \in Nat /\ Len(s) <= C /\ s \in Seq(Handles)
      /\ \A i \in 1 .. Len(s) : s[i] # NULL
      /\ DOMAIN s = 1 .. Len(s)
  BY ChainFits DEF Chained
<1>2. \A k \in 0 .. C : Forward(list)[k] = IF k < Len(s) THEN s[k + 1] ELSE NULL
  BY ForwardFollows
<1>3. Length(list) = Cardinality(K)
  BY DEF Length
<1> HIDE DEF C
<1>4. K = 0 .. Len(s) - 1
  BY <1>1, <1>2
<1>5. Cardinality(0 .. Len(s) - 1) = Len(s)
  <2>1. 0 \in Int /\ Len(s) - 1 \in Int
    BY <1>1
  <2>2. Cardinality(0 .. Len(s) - 1) = IF 0 > Len(s) - 1 THEN 0 ELSE Len(s) - 1 - 0 + 1
    BY <2>1, FS_Interval
  <2>3. QED
    BY <1>1, <2>2
<1>6. Length(list) = Len(s)
  BY <1>3, <1>4, <1>5
<1>7. \A k \in 1 .. Len(s) : Forward(list)[k - 1] = s[k]
  <2> SUFFICES ASSUME NEW k \in 1 .. Len(s) PROVE Forward(list)[k - 1] = s[k]
    OBVIOUS
  <2>1. k - 1 \in 0 .. C /\ k - 1 < Len(s) /\ k - 1 + 1 = k
    BY <1>1
  <2>2. QED
    BY <1>2, <2>1
<1>8. Walk(list) = s
  <2>1. Walk(list) = [k \in 1 .. Len(s) |-> s[k]]
    BY <1>6, <1>7 DEF Walk
  <2>2. s = [k \in 1 .. Len(s) |-> s[k]]
    BY <1>1
  <2>3. QED
    BY <2>1, <2>2
<1> QED
  BY <1>6, <1>8

-----------------------------------------------------------------------------
(* What the operations do to a chain *)

\* The times of the nodes on a chain do not matter to it.
LEMMA OnlyPointersChain ==
  ASSUME NEW list, NEW s, Chained(list, s), NEW other,
         other.first = list.first, other.last = list.last,
         other.nodes \in [Handles -> Node],
         \A h \in ToSet(s) : /\ other.nodes[h].next = list.nodes[h].next
                             /\ other.nodes[h].prev = list.nodes[h].prev
  PROVE  Chained(other, s)
<1>1. \A i \in 1 .. Len(s) : s[i] \in ToSet(s)
  BY ChainFits DEF Chained, ToSet
<1> QED
  BY <1>1 DEF Chained

\* How far insert_node() walks along s with a node that is due at the time: past
\* p nodes that are due no later, to one that is due later or to the end.
Splits(mem, s, time, p) ==
  /\ p \in 0 .. Len(s)
  /\ \A i \in 1 .. Len(s) : i <= p => tm_ge(time, mem[s[i]].next_time)
  /\ p < Len(s) => ~tm_ge(time, mem[s[p + 1]].next_time)

\* What insert_node() counts is where it stops.
LEMMA PositionSplits ==
  ASSUME NEW list, NEW s, Chained(list, s), NEW node
  PROVE  Splits(list.nodes, s, list.nodes[node].next_time, Position(list, node))
<1> DEFINE time == list.nodes[node].next_time
           n == Len(s)
           D == {k \in 0 .. Length(list) - 1 :
                   \A j \in 0 .. k : tm_ge(time, list.nodes[Forward(list)[j]].next_time)}
           G == {j \in 0 .. n - 1 : tm_ge(time, list.nodes[s[j + 1]].next_time)}
           c == Cardinality(D)
<1>1. n \in Nat /\ n <= Cardinality(Handles) /\ Cardinality(Handles) \in Nat
      /\ Length(list) = n
  BY ChainFits, WalkIsChain DEF Chained
<1>2. Position(list, node) = c
  BY DEF Position
<1>3. \A k \in 0 .. n - 1 : Forward(list)[k] = s[k + 1]
  BY <1>1, ForwardFollows
<1> HIDE DEF time, n
<1>4. /\ D \subseteq 0 .. 0 + n - 1
      /\ \A i \in 0 .. 0 + n - 1 : i \in D <=> \A j \in 0 .. i : j \in G
  BY <1>1, <1>3
<1> HIDE DEF D, G
<1>5. /\ c \in 0 .. n
      /\ \A j \in 0 .. 0 + n - 1 : j < 0 + c => j \in G
      /\ c < n => 0 + c \notin G
  <2>1. 0 \in Int /\ n \in Nat
    BY <1>1
  <2>2. QED
    BY <1>4, <2>1, PrefixCounted
<1> HIDE DEF c
<1>6. ASSUME NEW i \in 1 .. n, i <= c PROVE tm_ge(time, list.nodes[s[i]].next_time)
  <2>1. i - 1 \in 0 .. 0 + n - 1 /\ i - 1 < 0 + c /\ i - 1 + 1 = i
    BY <1>1, <1>5, <1>6
  <2>2. i - 1 \in G
    BY <1>5, <2>1
  <2>3. QED
    BY <2>1, <2>2 DEF G
<1>7. ASSUME c < n PROVE ~tm_ge(time, list.nodes[s[c + 1]].next_time)
  <2>1. c \in 0 .. n - 1 /\ c \notin G
    BY <1>1, <1>5, <1>7
  <2>2. QED
    BY <2>1 DEF G
<1> QED
  BY <1>2, <1>5, <1>6, <1>7 DEF Splits, time, n

\* insert_node() puts a node in the chain where its walk stops, and leaves all
\* intervals and times alone.
LEMMA InsertChains ==
  ASSUME NEW list, NEW s, Chained(list, s), NEW node \in Handles, node \notin ToSet(s)
  PROVE  LET p     == Position(list, node)
             after == insert_node(list, node)
         IN /\ Splits(list.nodes, s, list.nodes[node].next_time, p)
            /\ Chained(after, InsertAt(s, p + 1, node))
            /\ \A h \in Handles :
                 /\ after.nodes[h].interval = list.nodes[h].interval
                 /\ after.nodes[h].next_time = list.nodes[h].next_time
<1> DEFINE p == Position(list, node)
           n == Len(s)
           at == Forward(list)
           next_node == at[p]
           prev_node == IF next_node = NULL THEN list.last
                        ELSE IF p = 0 THEN NULL ELSE at[p - 1]
           after == insert_node(list, node)
           r == InsertAt(s, p + 1, node)
           nxt == IF p = n THEN NULL ELSE s[p + 1]
           prv == IF p = 0 THEN NULL ELSE s[p]
           fst == list.first
           lst == list.last
           ns  == list.nodes
<1>1. Splits(list.nodes, s, list.nodes[node].next_time, p)
  BY PositionSplits
<1>2. /\ n \in Nat /\ n <= Cardinality(Handles) /\ Cardinality(Handles) \in Nat
      /\ DOMAIN s = 1 .. n /\ s \in Seq(Handles)
      /\ \A i \in 1 .. n : s[i] \in Handles /\ s[i] # NULL /\ s[i] # node
      /\ \A i, j \in 1 .. n : s[i] = s[j] => i = j
      /\ s = << >> <=> n = 0
      /\ node # NULL
  BY ChainFits, EmptySeq, HandleAssumption DEF Chained, ToSet
<1>3. p \in 0 .. n
  BY <1>1 DEF Splits
<1>4. /\ fst = IF n = 0 THEN NULL ELSE s[1]
      /\ lst = IF n = 0 THEN NULL ELSE s[n]
      /\ ns \in [Handles -> Node]
      /\ \A i \in 1 .. n : /\ ns[s[i]].next = IF i = n THEN NULL ELSE s[i + 1]
                           /\ ns[s[i]].prev = IF i = 1 THEN NULL ELSE s[i - 1]
  BY <1>2 DEF Chained
<1> HIDE DEF p, n
<1>5. next_node = nxt /\ prev_node = prv
  <2>1. \A k \in 0 .. Cardinality(Handles) : at[k] = IF k < n THEN s[k + 1] ELSE NULL
    BY ForwardFollows DEF n
  <2>2. next_node = nxt
    BY <1>2, <1>3, <2>1
  <2>3. CASE p = n
    BY <1>2, <1>3, <1>4, <2>2, <2>3
  <2>4. CASE p # n
    <3>1. p + 1 \in 1 .. n
      BY <1>2, <1>3, <2>4
    <3>2. next_node # NULL
      BY <1>2, <2>2, <2>4, <3>1
    <3>3. p # 0 => p - 1 \in 0 .. Cardinality(Handles) /\ p - 1 < n /\ p - 1 + 1 = p
      BY <1>2, <1>3
    <3>4. QED
      BY <2>1, <2>2, <3>2, <3>3
  <2>5. QED
    BY <2>2, <2>3, <2>4
<1>6. /\ after.first = IF p = 0 THEN node ELSE fst
      /\ after.last = IF nxt = NULL THEN node ELSE lst
      /\ after.nodes = [h \in Handles |->
                   CASE h = node -> [ns[h] EXCEPT !.prev = prv, !.next = nxt]
                     [] h = prv -> [ns[h] EXCEPT !.next = node]
                     [] h = nxt -> [ns[h] EXCEPT !.prev = node]
                     [] OTHER -> ns[h]]
  <2>1. after.first = IF p = 0 THEN node ELSE fst
    BY DEF insert_node, p
  <2>2. after.last = IF next_node = NULL THEN node ELSE lst
    BY DEF insert_node, p
  <2>3. after.nodes = [h \in Handles |->
                   CASE h = node -> [ns[h] EXCEPT !.prev = prev_node, !.next = next_node]
                     [] h = prev_node -> [ns[h] EXCEPT !.next = node]
                     [] h = next_node -> [ns[h] EXCEPT !.prev = node]
                     [] OTHER -> ns[h]]
    BY DEF insert_node, p
  <2> HIDE DEF next_node, prev_node, nxt, prv, after
  <2>4. next_node = nxt /\ prev_node = prv
    BY <1>5
  <2>5. after.last = IF nxt = NULL THEN node ELSE lst
    BY <2>2, <2>4
  <2>6. after.nodes = [h \in Handles |->
                   CASE h = node -> [ns[h] EXCEPT !.prev = prv, !.next = nxt]
                     [] h = prv -> [ns[h] EXCEPT !.next = node]
                     [] h = nxt -> [ns[h] EXCEPT !.prev = node]
                     [] OTHER -> ns[h]]
    BY <2>3, <2>4, Zenon
  <2>7. QED
    BY <2>1, <2>5, <2>6, Zenon
<1> HIDE DEF next_node, prev_node, at, after, fst, lst, ns
<1>7. /\ nxt = NULL <=> p = n
      /\ prv = NULL <=> p = 0
      /\ nxt \in Pointer /\ prv \in Pointer /\ node \in Pointer
      /\ nxt # node /\ prv # node /\ (nxt # NULL => nxt # prv)
  <2>1. p # n => p + 1 \in 1 .. n
    BY <1>2, <1>3
  <2>2. p # 0 => p \in 1 .. n
    BY <1>2, <1>3
  <2>3. p # n /\ p # 0 => s[p + 1] # s[p]
    <3>1. p + 1 # p
      BY <1>3
    <3>2. QED
      BY <1>2, <2>1, <2>2, <3>1
  <2>4. QED
    BY <1>2, <2>1, <2>2, <2>3 DEF Pointer
<1> HIDE DEF nxt, prv
<1>8. /\ after.first = IF p = 0 THEN node ELSE fst
      /\ after.last  = IF p = n THEN node ELSE lst
      /\ after.nodes \in [Handles -> Node]
      /\ \A h \in Handles :
           /\ after.nodes[h].interval = ns[h].interval
           /\ after.nodes[h].next_time = ns[h].next_time
           /\ after.nodes[h].next = IF h = node THEN nxt
                                    ELSE IF h = prv THEN node ELSE ns[h].next
           /\ after.nodes[h].prev = IF h = node THEN prv
                                    ELSE IF h = nxt THEN node ELSE ns[h].prev
  <2>1. after.first = IF p = 0 THEN node ELSE fst
    BY <1>6
  <2>2. after.last = IF p = n THEN node ELSE lst
    BY <1>6, <1>7
  <2>3. ASSUME NEW h \in Handles
        PROVE  /\ after.nodes[h] \in Node
               /\ after.nodes[h].interval = ns[h].interval
               /\ after.nodes[h].next_time = ns[h].next_time
               /\ after.nodes[h].next = IF h = node THEN nxt
                                        ELSE IF h = prv THEN node ELSE ns[h].next
               /\ after.nodes[h].prev = IF h = node THEN prv
                                        ELSE IF h = nxt THEN node ELSE ns[h].prev
    <3> DEFINE nd == ns[h]
    <3>1. nd \in Node /\ h # NULL
      BY <1>4, HandleAssumption
    <3>2. after.nodes[h] = CASE h = node -> [nd EXCEPT !.prev = prv, !.next = nxt]
                             [] h = prv -> [nd EXCEPT !.next = node]
                             [] h = nxt -> [nd EXCEPT !.prev = node]
                             [] OTHER -> nd
      BY <1>6
    <3> HIDE DEF nd
    <3>3. CASE h = node
      <4>1. after.nodes[h] = [nd EXCEPT !.prev = prv, !.next = nxt]
        BY <1>7, <3>2, <3>3
      <4>2. QED
        BY <1>7, <3>1, <3>3, <4>1 DEF Node, nd
    <3>4. CASE h # node /\ h = prv
      <4>1. after.nodes[h] = [nd EXCEPT !.next = node] /\ h # nxt
        BY <1>7, <3>1, <3>2, <3>4
      <4>2. QED
        BY <1>7, <3>1, <3>4, <4>1 DEF Node, nd
    <3>5. CASE h # node /\ h # prv /\ h = nxt
      <4>1. after.nodes[h] = [nd EXCEPT !.prev = node]
        BY <3>2, <3>5
      <4>2. QED
        BY <1>7, <3>1, <3>5, <4>1 DEF Node, nd
    <3>6. CASE h # node /\ h # prv /\ h # nxt
      <4>1. after.nodes[h] = nd
        BY <3>2, <3>6
      <4>2. QED
        BY <3>1, <3>6, <4>1 DEF nd
    <3>7. QED
      BY <3>3, <3>4, <3>5, <3>6
  <2>4. after.nodes \in [Handles -> Node]
    <3> DEFINE body(h) == CASE h = node -> [ns[h] EXCEPT !.prev = prv, !.next = nxt]
                            [] h = prv -> [ns[h] EXCEPT !.next = node]
                            [] h = nxt -> [ns[h] EXCEPT !.prev = node]
                            [] OTHER -> ns[h]
    <3>1. after.nodes = [h \in Handles |-> body(h)]
      BY <1>6
    <3> HIDE DEF body
    <3>2. \A h \in Handles : body(h) \in Node
      BY <2>3, <3>1
    <3>3. QED
      BY <3>1, <3>2
  <2>5. QED
    BY <2>1, <2>2, <2>3, <2>4
<1>9. /\ r \in Seq(Handles) /\ Len(r) = n + 1
      /\ \A i \in 1 .. n + 1 :
           r[i] = IF i < p + 1 THEN s[i] ELSE IF i = p + 1 THEN node ELSE s[i - 1]
  <2> DEFINE k == p + 1
  <2>1. k \in 1 .. Len(s) + 1
    BY <1>2, <1>3 DEF n
  <2> HIDE DEF k
  <2>2. s \in Seq(Handles)
    BY <1>2
  <2>3. /\ InsertAt(s, k, node) \in Seq(Handles) /\ Len(InsertAt(s, k, node)) = Len(s) + 1
        /\ \A i \in 1 .. Len(s) + 1 :
             InsertAt(s, k, node)[i] = IF i < k THEN s[i] ELSE IF i = k THEN node ELSE s[i - 1]
    BY <2>1, <2>2, InsertedElements
  <2>4. QED
    BY <2>3 DEF k, n
<1> HIDE DEF r
<1>10. DOMAIN r = 1 .. n + 1 /\ r # << >> /\ n + 1 \in 1 .. n + 1 /\ 1 \in 1 .. n + 1
  BY <1>2, <1>9, LenProperties, EmptySeq
\* Where the elements of r come from.
<1>11. ASSUME NEW i \in 1 .. n + 1
       PROVE  \/ i = p + 1 /\ r[i] = node
              \/ i <= p /\ i \in 1 .. n /\ r[i] = s[i]
              \/ i > p + 1 /\ i - 1 \in 1 .. n /\ r[i] = s[i - 1]
  <2>1. i < p + 1 \/ i = p + 1 \/ i > p + 1
    BY <1>3
  <2>2. CASE i < p + 1
    BY <1>2, <1>3, <1>9, <2>2
  <2>3. CASE i = p + 1
    BY <1>3, <1>9, <2>3
  <2>4. CASE i > p + 1
    <3>1. ~(i < p + 1) /\ i # p + 1 /\ i - 1 \in 1 .. n
      BY <1>2, <1>3, <2>4
    <3>2. QED
      BY <1>9, <2>4, <3>1
  <2>5. QED
    BY <2>1, <2>2, <2>3, <2>4
<1>12. ASSUME NEW i \in 1 .. n + 1, NEW j \in 1 .. n + 1, r[i] = r[j] PROVE i = j
  <2>1. CASE i = p + 1 \/ j = p + 1
    BY <1>2, <1>3, <1>11, <1>12, <2>1
  <2>2. CASE i # p + 1 /\ j # p + 1
    <3>1. PICK k \in 1 .. n : r[i] = s[k] /\ ((i <= p /\ k = i) \/ (i > p + 1 /\ k = i - 1))
      BY <1>11, <2>2
    <3>2. PICK l \in 1 .. n : r[j] = s[l] /\ ((j <= p /\ l = j) \/ (j > p + 1 /\ l = j - 1))
      BY <1>11, <2>2
    <3>3. k = l
      BY <1>2, <1>12, <3>1, <3>2
    <3>4. QED
      BY <1>3, <3>1, <3>2, <3>3
  <2>3. QED
    BY <2>1, <2>2
<1>13. ASSUME NEW i \in 1 .. n + 1
       PROVE  /\ after.nodes[r[i]].next = IF i = n + 1 THEN NULL ELSE r[i + 1]
              /\ after.nodes[r[i]].prev = IF i = 1 THEN NULL ELSE r[i - 1]
  <2>0. /\ i # n + 1 => i + 1 \in 1 .. n + 1
        /\ i # 1 => i - 1 \in 1 .. n + 1
        /\ p \in Nat /\ i \in Nat
    BY <1>2, <1>3
  <2>1. CASE i = p + 1
    <3>1. r[i] = node /\ (i = n + 1 <=> p = n) /\ (i = 1 <=> p = 0)
      BY <1>2, <1>3, <1>11, <2>1
    <3>2. p # n => r[i + 1] = s[p + 1]
      BY <1>2, <1>11, <2>0, <2>1, <3>1
    <3>3. p # 0 => r[i - 1] = s[p]
      BY <1>2, <1>11, <2>0, <2>1, <3>1
    <3>4. after.nodes[node].next = nxt /\ after.nodes[node].prev = prv
      BY <1>8
    <3>5. QED
      BY <3>1, <3>2, <3>3, <3>4 DEF nxt, prv
  <2>2. CASE i <= p
    <3>1. i \in 1 .. n /\ r[i] = s[i] /\ i # n + 1
      BY <1>2, <1>3, <1>11, <2>0, <2>2
    <3>2. s[i] \in Handles /\ s[i] # node /\ s[i] # NULL
      BY <1>2, <3>1
    <3>3. s[i] # nxt
      <4>1. p # n => p + 1 \in 1 .. n /\ p + 1 # i
        BY <1>2, <1>3, <2>0, <2>2
      <4>2. QED
        BY <1>2, <3>1, <3>2, <4>1 DEF nxt
    <3>4. after.nodes[s[i]].prev = ns[s[i]].prev
      BY <1>8, <3>2, <3>3
    <3>5. i # 1 => r[i - 1] = s[i - 1]
      BY <1>11, <2>0, <2>2
    <3>6. CASE i = p
      <4>1. s[i] = prv /\ i + 1 = p + 1
        BY <2>0, <3>1, <3>6 DEF prv
      <4>2. r[i + 1] = node
        BY <1>11, <2>0, <3>1, <4>1
      <4>3. QED
        BY <1>4, <1>8, <3>1, <3>2, <3>4, <3>5, <4>1, <4>2
    <3>7. CASE i # p
      <4>1. i + 1 <= p /\ i # n
        BY <1>2, <1>3, <2>0, <2>2, <3>7
      <4>2. r[i + 1] = s[i + 1]
        BY <1>11, <2>0, <3>1, <4>1
      <4>3. s[i] # prv
        <5>1. p # 0 => p \in 1 .. n
          BY <1>2, <1>3
        <5>2. QED
          BY <1>2, <3>1, <3>2, <3>7, <5>1 DEF prv
      <4>4. QED
        BY <1>4, <1>8, <3>1, <3>2, <3>4, <3>5, <4>1, <4>2, <4>3
    <3>8. QED
      BY <3>6, <3>7
  <2>3. CASE i > p + 1
    <3> DEFINE k == i - 1
    <3>1. k \in 1 .. n /\ r[i] = s[k] /\ i # 1 /\ k > p /\ i = k + 1
      BY <1>2, <1>3, <1>11, <2>0, <2>3
    <3> HIDE DEF k
    <3>2. s[k] \in Handles /\ s[k] # node /\ s[k] # NULL
      BY <1>2, <3>1
    <3>3. s[k] # prv
      <4>1. p # 0 => p \in 1 .. n /\ p # k
        BY <1>2, <1>3, <3>1
      <4>2. QED
        BY <1>2, <3>1, <3>2, <4>1 DEF prv
    <3>4. after.nodes[s[k]].next = ns[s[k]].next
      BY <1>8, <3>2, <3>3
    <3>5. i # n + 1 => r[i + 1] = s[k + 1] /\ k # n
      <4>1. i # n + 1 => i + 1 > p + 1 /\ i + 1 # p + 1 /\ ~(i + 1 <= p)
                         /\ i + 1 - 1 = k + 1 /\ k # n
        BY <2>0, <2>3, <3>1
      <4>2. QED
        BY <1>11, <2>0, <4>1
    <3>6. after.nodes[r[i]].next = IF i = n + 1 THEN NULL ELSE r[i + 1]
      <4>1. i = n + 1 => k = n
        BY <1>2, <3>1
      <4>2. QED
        BY <1>4, <3>1, <3>4, <3>5, <4>1
    <3>7. CASE k = p + 1
      <4>1. s[k] = nxt
        BY <1>2, <1>3, <3>1, <3>7 DEF nxt
      <4>2. r[i - 1] = node
        <5>1. i - 1 = p + 1
          BY <3>1, <3>7
        <5>2. QED
          BY <1>11, <2>0, <3>1, <5>1
      <4>3. QED
        BY <1>8, <3>1, <3>2, <3>6, <4>1, <4>2
    <3>8. CASE k # p + 1
      <4>1. /\ i - 1 > p + 1 /\ i - 1 # p + 1 /\ ~(i - 1 <= p) /\ k # 1
            /\ i - 1 - 1 = k - 1
        BY <1>2, <1>3, <2>0, <3>1, <3>8
      <4>2. r[i - 1] = s[k - 1]
        BY <1>11, <2>0, <3>1, <4>1
      <4>3. s[k] # nxt
        <5>1. p # n => p + 1 \in 1 .. n
          BY <1>2, <1>3
        <5>2. QED
          BY <1>2, <3>1, <3>2, <3>8, <5>1 DEF nxt
      <4>4. QED
        BY <1>4, <1>8, <3>1, <3>2, <3>6, <4>1, <4>2, <4>3
    <3>9. QED
      BY <3>7, <3>8
  <2>4. i = p + 1 \/ i <= p \/ i > p + 1
    BY <1>11
  <2>5. QED
    BY <2>1, <2>2, <2>3, <2>4
<1>14. after.first = r[1] /\ after.last = r[n + 1]
  <2>1. CASE p = 0
    <3>1. r[1] = node
      BY <1>10, <1>11, <2>1
    <3>2. QED
      BY <1>2, <1>3, <1>4, <1>8, <1>10, <1>11, <2>1, <3>1
  <2>2. CASE p # 0
    <3>1. 1 <= p /\ n # 0
      BY <1>2, <1>3, <2>2
    <3>2. r[1] = s[1]
      BY <1>3, <1>10, <1>11, <3>1
    <3>3. r[n + 1] = IF p = n THEN node ELSE s[n]
      <4>1. CASE p = n
        BY <1>2, <1>10, <1>11, <4>1
      <4>2. CASE p # n
        <5> DEFINE m == n + 1
        <5>1. m \in 1 .. n + 1 /\ m # p + 1 /\ ~(m <= p) /\ m - 1 = n
          BY <1>2, <1>3, <1>10, <4>2
        <5> HIDE DEF m
        <5>2. r[m] = s[n]
          BY <1>11, <5>1
        <5>3. QED
          BY <4>2, <5>2 DEF m
      <4>3. QED
        BY <4>1, <4>2
    <3>4. QED
      BY <1>4, <1>8, <2>2, <3>1, <3>2, <3>3
  <2>3. QED
    BY <2>1, <2>2
<1>15. Chained(after, r)
  <2>1. IsInjective(r)
    BY <1>10, <1>12 DEF IsInjective
  <2>2. QED
    BY <1>8, <1>9, <1>10, <1>13, <1>14, <2>1 DEF Chained
<1> QED
  BY <1>1, <1>8, <1>15 DEF after, r, p, ns

\* remove_node() takes the node in place p out of the chain, and leaves all
\* intervals and times alone.
LEMMA RemoveChains ==
  ASSUME NEW list, NEW s, Chained(list, s), NEW p \in 1 .. Len(s)
  PROVE  LET after == remove_node(list, s[p])
         IN /\ Chained(after, RemoveAt(s, p))
            /\ \A h \in Handles :
                 /\ after.nodes[h].interval = list.nodes[h].interval
                 /\ after.nodes[h].next_time = list.nodes[h].next_time
<1> DEFINE n == Len(s)
           node == s[p]
           after == remove_node(list, node)
           r == RemoveAt(s, p)
           prv == IF p = 1 THEN NULL ELSE s[p - 1]
           nxt == IF p = n THEN NULL ELSE s[p + 1]
           fst == list.first
           lst == list.last
           ns  == list.nodes
<1>1. /\ n \in Nat /\ p \in Nat /\ 1 <= p /\ p <= n
      /\ DOMAIN s = 1 .. n /\ s \in Seq(Handles)
      /\ \A i \in 1 .. n : s[i] \in Handles /\ s[i] # NULL
      /\ \A i, j \in 1 .. n : s[i] = s[j] => i = j
      /\ s = << >> <=> n = 0
  BY ChainFits, EmptySeq DEF Chained
<1>2. /\ fst = IF n = 0 THEN NULL ELSE s[1]
      /\ lst = IF n = 0 THEN NULL ELSE s[n]
      /\ ns \in [Handles -> Node]
      /\ \A i \in 1 .. n : /\ ns[s[i]].next = IF i = n THEN NULL ELSE s[i + 1]
                           /\ ns[s[i]].prev = IF i = 1 THEN NULL ELSE s[i - 1]
  BY <1>1 DEF Chained
<1>3. ns[node].prev = prv /\ ns[node].next = nxt
  BY <1>2
<1>4. /\ after.first = IF prv = NULL THEN nxt ELSE fst
      /\ after.last = IF nxt = NULL THEN prv ELSE lst
      /\ after.nodes = [h \in Handles |->
                   CASE h = prv -> [ns[h] EXCEPT !.next = nxt]
                     [] h = nxt -> [ns[h] EXCEPT !.prev = prv]
                     [] OTHER -> ns[h]]
  <2> DEFINE prev == ns[node].prev
             next == ns[node].next
  <2>1. after.first = IF prev = NULL THEN next ELSE fst
    BY DEF remove_node
  <2>2. after.last = IF next = NULL THEN prev ELSE lst
    BY DEF remove_node
  <2>3. after.nodes = [h \in Handles |->
                   CASE h = prev -> [ns[h] EXCEPT !.next = next]
                     [] h = next -> [ns[h] EXCEPT !.prev = prev]
                     [] OTHER -> ns[h]]
    BY DEF remove_node
  <2>4. prev = prv /\ next = nxt
    BY <1>3
  <2> HIDE DEF prev, next, nxt, prv, after
  <2>5. QED
    BY <2>1, <2>2, <2>3, <2>4, Zenon
<1> HIDE DEF n, after, fst, lst, ns
<1>5. /\ nxt = NULL <=> p = n
      /\ prv = NULL <=> p = 1
      /\ nxt \in Pointer /\ prv \in Pointer
      /\ nxt # NULL => nxt # prv
  <2>1. p # n => p + 1 \in 1 .. n
    BY <1>1
  <2>2. p # 1 => p - 1 \in 1 .. n
    BY <1>1
  <2>3. p # n /\ p # 1 => s[p + 1] # s[p - 1]
    <3>1. p + 1 # p - 1
      BY <1>1
    <3>2. QED
      BY <1>1, <2>1, <2>2, <3>1
  <2>4. QED
    BY <1>1, <2>1, <2>2, <2>3 DEF Pointer
<1>6. /\ p # n => p + 1 \in 1 .. n /\ nxt = s[p + 1]
      /\ p # 1 => p - 1 \in 1 .. n /\ prv = s[p - 1]
  BY <1>1
<1> HIDE DEF nxt, prv, node
<1>7. /\ after.first = IF p = 1 THEN nxt ELSE fst
      /\ after.last  = IF p = n THEN prv ELSE lst
      /\ after.nodes \in [Handles -> Node]
      /\ \A h \in Handles :
           /\ after.nodes[h].interval = ns[h].interval
           /\ after.nodes[h].next_time = ns[h].next_time
           /\ after.nodes[h].next = IF h = prv THEN nxt ELSE ns[h].next
           /\ after.nodes[h].prev = IF h = nxt THEN prv ELSE ns[h].prev
  <2> DEFINE body(h) == CASE h = prv -> [ns[h] EXCEPT !.next = nxt]
                          [] h = nxt -> [ns[h] EXCEPT !.prev = prv]
                          [] OTHER -> ns[h]
  <2>1. after.first = IF p = 1 THEN nxt ELSE fst
    BY <1>4, <1>5
  <2>2. after.last = IF p = n THEN prv ELSE lst
    BY <1>4, <1>5
  <2>3. after.nodes = [h \in Handles |-> body(h)]
    BY <1>4
  <2>4. ASSUME NEW h \in Handles
        PROVE  /\ body(h) \in Node
               /\ body(h).interval = ns[h].interval
               /\ body(h).next_time = ns[h].next_time
               /\ body(h).next = IF h = prv THEN nxt ELSE ns[h].next
               /\ body(h).prev = IF h = nxt THEN prv ELSE ns[h].prev
    <3> DEFINE nd == ns[h]
    <3>1. nd \in Node /\ h # NULL
      BY <1>2, HandleAssumption
    <3>2. body(h) = CASE h = prv -> [nd EXCEPT !.next = nxt]
                      [] h = nxt -> [nd EXCEPT !.prev = prv]
                      [] OTHER -> nd
      OBVIOUS
    <3> DEFINE b == body(h)
    <3> HIDE DEF nd, b
    <3>3. CASE h = prv
      <4>1. b = [nd EXCEPT !.next = nxt] /\ h # nxt
        BY <1>5, <3>1, <3>2, <3>3 DEF b
      <4>2. /\ b \in Node /\ b.interval = nd.interval /\ b.next_time = nd.next_time
            /\ b.next = nxt /\ b.prev = nd.prev
        BY <1>5, <3>1, <4>1 DEF Node
      <4>3. QED
        BY <3>3, <4>1, <4>2 DEF b, nd
    <3>4. CASE h # prv /\ h = nxt
      <4>1. b = [nd EXCEPT !.prev = prv]
        BY <3>2, <3>4 DEF b
      <4>2. /\ b \in Node /\ b.interval = nd.interval /\ b.next_time = nd.next_time
            /\ b.next = nd.next /\ b.prev = prv
        BY <1>5, <3>1, <4>1 DEF Node
      <4>3. QED
        BY <3>4, <4>2 DEF b, nd
    <3>5. CASE h # prv /\ h # nxt
      <4>1. b = nd
        BY <3>2, <3>5 DEF b
      <4>2. QED
        BY <3>1, <3>5, <4>1 DEF b, nd
    <3>6. QED
      BY <3>3, <3>4, <3>5
  <2> HIDE DEF body
  <2>5. QED
    BY <2>1, <2>2, <2>3, <2>4
<1>8. /\ r \in Seq(Handles) /\ Len(r) = n - 1
      /\ \A i \in 1 .. n - 1 : r[i] = IF i < p THEN s[i] ELSE s[i + 1]
  BY <1>1, RemovedElements DEF n
<1> HIDE DEF r
<1>9. DOMAIN r = 1 .. n - 1 /\ (r = << >> <=> n = 1)
  <2>1. DOMAIN r = 1 .. n - 1 /\ (r = << >> <=> n - 1 = 0)
    BY <1>8, LenProperties, EmptySeq
  <2>2. QED
    BY <1>1, <2>1
\* Where the elements of r come from.
<1>10. ASSUME NEW i \in 1 .. n - 1
       PROVE  \/ i < p /\ i \in 1 .. n /\ r[i] = s[i]
              \/ i >= p /\ i + 1 \in 1 .. n /\ r[i] = s[i + 1]
  <2>1. CASE i < p
    BY <1>1, <1>8, <2>1
  <2>2. CASE ~(i < p)
    <3>1. i >= p /\ i + 1 \in 1 .. n
      BY <1>1, <2>2
    <3>2. QED
      BY <1>8, <2>2, <3>1
  <2>3. QED
    BY <2>1, <2>2
<1>11. ASSUME NEW i \in 1 .. n - 1, NEW j \in 1 .. n - 1, r[i] = r[j] PROVE i = j
  <2>1. PICK k \in 1 .. n : r[i] = s[k] /\ ((i < p /\ k = i) \/ (i >= p /\ k = i + 1))
    BY <1>10
  <2>2. PICK l \in 1 .. n : r[j] = s[l] /\ ((j < p /\ l = j) \/ (j >= p /\ l = j + 1))
    BY <1>10
  <2>3. k = l
    BY <1>1, <1>11, <2>1, <2>2
  <2>4. QED
    BY <1>1, <2>1, <2>2, <2>3
<1>12. ASSUME NEW i \in 1 .. n - 1
       PROVE  /\ after.nodes[r[i]].next = IF i = n - 1 THEN NULL ELSE r[i + 1]
              /\ after.nodes[r[i]].prev = IF i = 1 THEN NULL ELSE r[i - 1]
  <2>0. /\ i # n - 1 => i + 1 \in 1 .. n - 1
        /\ i # 1 => i - 1 \in 1 .. n - 1
        /\ i \in Nat
    BY <1>1
  <2>1. CASE i < p
    <3>1. i \in 1 .. n /\ r[i] = s[i] /\ i # n /\ s[i] \in Handles /\ s[i] # NULL
      BY <1>1, <1>10, <2>0, <2>1
    <3>2. s[i] # nxt
      <4>1. p + 1 # i
        BY <1>1, <2>0, <2>1
      <4>2. QED
        BY <1>1, <1>5, <1>6, <3>1, <4>1
    <3>3. after.nodes[s[i]].prev = ns[s[i]].prev
      BY <1>7, <3>1, <3>2
    <3>4. i # 1 => r[i - 1] = s[i - 1]
      <4>1. i # 1 => ~(i - 1 >= p)
        BY <1>1, <2>0, <2>1
      <4>2. QED
        BY <1>10, <2>0, <4>1
    <3>5. CASE i = p - 1
      <4>1. s[i] = prv /\ i + 1 = p /\ (i = n - 1 <=> p = n)
        BY <1>1, <1>6, <2>0, <3>1, <3>5
      <4>2. p # n => r[i + 1] = s[p + 1]
        BY <1>1, <1>10, <2>0, <4>1
      <4>3. QED
        BY <1>2, <1>5, <1>6, <1>7, <3>1, <3>3, <3>4, <4>1, <4>2
    <3>6. CASE i # p - 1
      <4>1. i + 1 < p /\ ~(i + 1 >= p) /\ i # n - 1 /\ i + 1 \in 1 .. n - 1
        BY <1>1, <2>0, <2>1, <3>6
      <4>2. r[i + 1] = s[i + 1]
        BY <1>10, <4>1
      <4>3. s[i] # prv
        BY <1>1, <1>5, <1>6, <3>1, <3>6
      <4>4. QED
        BY <1>2, <1>7, <3>1, <3>3, <3>4, <4>1, <4>2, <4>3
    <3>7. QED
      BY <3>5, <3>6
  <2>2. CASE i >= p
    <3> DEFINE k == i + 1
    <3>1. k \in 1 .. n /\ r[i] = s[k] /\ k > p /\ k # 1 /\ i = k - 1
      BY <1>1, <1>10, <2>0, <2>2
    <3> HIDE DEF k
    <3>2. s[k] \in Handles /\ s[k] # NULL
      BY <1>1, <3>1
    <3>3. s[k] # prv
      <4>1. p - 1 # k
        BY <1>1, <3>1
      <4>2. QED
        BY <1>1, <1>5, <1>6, <3>1, <3>2, <4>1
    <3>4. after.nodes[s[k]].next = ns[s[k]].next
      BY <1>7, <3>2, <3>3
    <3>5. i # n - 1 => r[i + 1] = s[k + 1] /\ k # n
      <4>1. i # n - 1 => ~(i + 1 < p) /\ i + 1 + 1 = k + 1 /\ k # n
        BY <1>1, <2>0, <2>2, <3>1
      <4>2. QED
        BY <1>10, <2>0, <4>1
    <3>6. after.nodes[r[i]].next = IF i = n - 1 THEN NULL ELSE r[i + 1]
      <4>1. i = n - 1 => k = n
        BY <1>1, <3>1
      <4>2. QED
        BY <1>2, <3>1, <3>4, <3>5, <4>1
    <3>7. CASE k = p + 1
      <4>1. s[k] = nxt /\ i = p
        BY <1>1, <1>6, <3>1, <3>7
      <4>2. p # 1 => r[p - 1] = s[p - 1]
        <5>1. p # 1 => p - 1 \in 1 .. n - 1 /\ ~(p - 1 >= p)
          BY <1>1
        <5>2. QED
          BY <1>10, <5>1
      <4>3. QED
        BY <1>5, <1>6, <1>7, <3>1, <3>2, <3>6, <4>1, <4>2
    <3>8. CASE k # p + 1
      <4>1. i - 1 >= p /\ ~(i - 1 < p) /\ i # 1 /\ i - 1 + 1 = k - 1
        BY <1>1, <2>0, <3>1, <3>8
      <4>2. r[i - 1] = s[k - 1]
        BY <1>10, <2>0, <4>1
      <4>3. s[k] # nxt
        BY <1>1, <1>5, <1>6, <3>1, <3>2, <3>8
      <4>4. QED
        BY <1>2, <1>7, <3>1, <3>2, <3>6, <4>1, <4>2, <4>3
    <3>9. QED
      BY <3>7, <3>8
  <2>3. i < p \/ i >= p
    BY <1>10
  <2>4. QED
    BY <2>1, <2>2, <2>3
<1>13. after.first = IF n = 1 THEN NULL ELSE r[1]
  <2>1. n # 1 => 1 \in 1 .. n - 1
    BY <1>1
  <2>2. CASE p = 1
    <3>1. n # 1 => r[1] = s[p + 1]
      BY <1>10, <2>1, <2>2
    <3>2. n # 1 <=> p # n
      BY <2>2
    <3>3. QED
      BY <1>5, <1>6, <1>7, <2>2, <3>1, <3>2
  <2>3. CASE p # 1
    <3>1. n # 1 /\ ~(1 >= p) /\ n # 0
      BY <1>1, <2>3
    <3>2. QED
      BY <1>2, <1>7, <1>10, <2>1, <2>3, <3>1
  <2>4. QED
    BY <2>2, <2>3
<1>14. after.last = IF n = 1 THEN NULL ELSE r[n - 1]
  <2> DEFINE m == n - 1
  <2>1. /\ n # 1 => m \in 1 .. n - 1
        /\ m + 1 = n /\ n # 0
    BY <1>1
  <2> HIDE DEF m
  <2>2. CASE p = n
    <3>1. n # 1 => ~(m >= p) /\ m = p - 1
      BY <1>1, <2>1, <2>2
    <3>2. n # 1 => r[m] = s[p - 1]
      BY <1>10, <2>1, <3>1
    <3>3. QED
      BY <1>5, <1>6, <1>7, <2>2, <3>2 DEF m
  <2>3. CASE p # n
    <3>1. n # 1 /\ ~(m < p)
      BY <1>1, <2>1, <2>3
    <3>2. r[m] = s[n]
      BY <1>10, <2>1, <3>1
    <3>3. QED
      BY <1>2, <1>7, <2>1, <2>3, <3>1, <3>2 DEF m
  <2>4. QED
    BY <2>2, <2>3
<1>15. Chained(after, r)
  <2>1. IsInjective(r)
    BY <1>9, <1>11 DEF IsInjective
  <2>2. n = 1 <=> r = << >>
    BY <1>9
  <2>3. QED
    BY <1>7, <1>8, <1>9, <1>12, <1>13, <1>14, <2>1 DEF Chained
<1> QED
  BY <1>7, <1>15 DEF after, r, ns, node

\* pop() is remove_node() of the first node.
LEMMA PopChains ==
  ASSUME NEW list, NEW s, Chained(list, s), s # << >>
  PROVE  /\ list.first = s[1] /\ s[1] \in Handles /\ s[1] \notin ToSet(Tail(s))
         /\ Chained(pop(list), Tail(s))
         /\ \A h \in Handles :
              /\ pop(list).nodes[h].interval = list.nodes[h].interval
              /\ pop(list).nodes[h].next_time = list.nodes[h].next_time
<1> DEFINE ns == list.nodes
           rest == ns[list.first].next
           prev == ns[list.first].prev
<1>1. /\ Len(s) \in Nat /\ Len(s) # 0 /\ s \in Seq(Handles) /\ DOMAIN s = 1 .. Len(s)
      /\ \A i \in 1 .. Len(s) : s[i] \in Handles
  BY ChainFits, EmptySeq DEF Chained
<1>2. 1 \in 1 .. Len(s)
  BY <1>1
<1>3. list.first = s[1] /\ prev = NULL
  BY <1>2 DEF Chained
<1>4. pop(list) = [first |-> rest, last |-> IF rest = NULL THEN NULL ELSE list.last,
                   nodes |-> [h \in Handles |->
                     IF h = rest THEN [ns[h] EXCEPT !.prev = NULL] ELSE ns[h]]]
  BY DEF pop
<1>5. remove_node(list, list.first) =
        [first |-> IF prev = NULL THEN rest ELSE list.first,
         last |-> IF rest = NULL THEN prev ELSE list.last,
         nodes |-> [h \in Handles |->
                   CASE h = prev -> [ns[h] EXCEPT !.next = rest]
                     [] h = rest -> [ns[h] EXCEPT !.prev = prev]
                     [] OTHER -> ns[h]]]
  BY DEF remove_node
<1> HIDE DEF ns, rest, prev
<1>6. \A h \in Handles : h # prev
  BY <1>3, HandleAssumption
<1>7. pop(list) = remove_node(list, s[1])
  <2> DEFINE f == [h \in Handles |->
                     IF h = rest THEN [ns[h] EXCEPT !.prev = NULL] ELSE ns[h]]
             g == [h \in Handles |->
                   CASE h = prev -> [ns[h] EXCEPT !.next = rest]
                     [] h = rest -> [ns[h] EXCEPT !.prev = prev]
                     [] OTHER -> ns[h]]
  <2>1. ASSUME NEW h \in Handles PROVE f[h] = g[h]
    <3>1. CASE h = rest
      BY <1>3, <1>6, <3>1
    <3>2. CASE h # rest
      BY <1>6, <3>2
    <3>3. QED
      BY <3>1, <3>2
  <2>2. f = g
    BY <2>1
  <2>3. pop(list) = [first |-> rest, last |-> IF rest = NULL THEN NULL ELSE list.last,
                     nodes |-> f]
    BY <1>4
  <2> HIDE DEF g
  <2>4. remove_node(list, s[1]) = [first |-> rest,
                                   last |-> IF rest = NULL THEN NULL ELSE list.last,
                                   nodes |-> g]
    <3>1. remove_node(list, s[1]) = [first |-> IF prev = NULL THEN rest ELSE list.first,
                                     last |-> IF rest = NULL THEN prev ELSE list.last,
                                     nodes |-> g]
      BY <1>3, <1>5, Zenon DEF g
    <3>2. QED
      BY <1>3, <3>1
  <2> HIDE DEF f
  <2>5. QED
    BY <2>2, <2>3, <2>4
<1>8. Tail(s) = RemoveAt(s, 1) /\ s[1] \notin ToSet(Tail(s))
  <2>1. IsInjective(s)
    BY DEF Chained
  <2>2. QED
    BY <1>1, <1>2, <2>1, TailRemoves, RemovedIsGone
<1>9. /\ Chained(remove_node(list, s[1]), RemoveAt(s, 1))
      /\ \A h \in Handles :
           /\ remove_node(list, s[1]).nodes[h].interval = list.nodes[h].interval
           /\ remove_node(list, s[1]).nodes[h].next_time = list.nodes[h].next_time
  <2> HIDE DEF ns
  <2>1. QED
    BY <1>2, RemoveChains
<1>10. s[1] \in Handles
  BY <1>1, <1>2
<1> QED
  BY <1>3, <1>7, <1>8, <1>9, <1>10, Zenon

-----------------------------------------------------------------------------
(* Well-formed lists *)

\* The inductive invariant.  The nodes on the walk are chained in both
\* directions, and they are the handles the applications hold.
QueueInv ==
  /\ TypeOK
  /\ Chained(List, Walk(List))
  /\ ToSet(Walk(List)) = allocated

\* An invariant list is one that is chained in any order.
LEMMA ChainKeepsInv ==
  ASSUME NEW s, Chained(List', s), ToSet(s) = allocated'
  PROVE  QueueInv' /\ Walk(List)' = s
<1>1. Walk(List') = s
  BY WalkIsChain
<1>2. s \in Seq(Handles) /\ Len(s) \in Nat /\ DOMAIN s = 1 .. Len(s)
      /\ \A i \in 1 .. Len(s) : s[i] \in Handles
      /\ (s # << >> => 1 \in 1 .. Len(s) /\ Len(s) \in 1 .. Len(s))
  <2>1. s \in Seq(Handles) /\ Len(s) \in Nat /\ DOMAIN s = 1 .. Len(s)
        /\ \A i \in 1 .. Len(s) : s[i] \in Handles
    BY ChainFits DEF Chained
  <2>2. s # << >> => Len(s) # 0
    BY <2>1, EmptySeq
  <2>3. QED
    BY <2>1, <2>2
<1>3. /\ nodes' \in [Handles -> Node]
      /\ first' = IF s = << >> THEN NULL ELSE s[1]
      /\ last' = IF s = << >> THEN NULL ELSE s[Len(s)]
  BY DEF Chained, List
<1>4. TypeOK'
  <2>1. allocated' \subseteq Handles
    BY <1>2 DEF ToSet
  <2>2. QED
    BY <1>2, <1>3, <2>1 DEF TypeOK, Pointer
<1> QED
  BY <1>1, <1>4 DEF QueueInv

\* The empty list is well-formed.
LEMMA InitialChain == Init => QueueInv /\ Walk(List) = << >>
<1> SUFFICES ASSUME Init PROVE QueueInv /\ Walk(List) = << >>
  OBVIOUS
<1> DEFINE e == << >>
<1>0. Zero \in timespec_t
  BY SecondIsPositive DEF Zero, timespec_t
<1>1. ZeroNode \in Node
  BY <1>0 DEF ZeroNode, Node, Pointer
<1>2. nodes \in [Handles -> Node]
  BY <1>1 DEF Init
<1>3. e \in Seq(Handles) /\ Len(e) = 0 /\ DOMAIN e = {} /\ ToSet(e) = {}
  BY EmptySeq DEF ToSet
<1>4. IsInjective(e)
  BY <1>3 DEF IsInjective
<1>5. Chained(List, e)
  BY <1>2, <1>3, <1>4 DEF Chained, List, Init
<1>6. Walk(List) = e
  BY <1>5, WalkIsChain
<1>7. TypeOK
  BY <1>2 DEF TypeOK, Init, Pointer
<1> QED
  BY <1>3, <1>5, <1>6, <1>7 DEF QueueInv, Init

\* An operation leaves the list it returns.
LEMMA ListIsSet ==
  ASSUME NEW list, SetList(list),
         list = [first |-> list.first, last |-> list.last, nodes |-> list.nodes]
  PROVE  List' = list
BY DEF SetList, List

\* The first half of schedule() and run_first(): the interval and the time of a
\* node that is not in the chain.
LEMMA FilledChains ==
  ASSUME NEW list, NEW s, Chained(list, s),
         NEW node \in Handles, node \notin ToSet(s),
         NEW ival \in timespec_t, NEW time \in timespec_t,
         NEW other, other.first = list.first, other.last = list.last,
         other.nodes = [list.nodes EXCEPT ![node].interval = ival,
                                          ![node].next_time = time]
  PROVE  /\ Chained(other, s)
         /\ \A h \in Handles :
              /\ other.nodes[h].interval = IF h = node THEN ival ELSE list.nodes[h].interval
              /\ other.nodes[h].next_time = IF h = node THEN time ELSE list.nodes[h].next_time
<1>1. list.nodes \in [Handles -> Node] /\ \A h \in ToSet(s) : h \in Handles /\ h # node
  BY ChainFits DEF Chained, ToSet
<1>2. /\ other.nodes \in [Handles -> Node]
      /\ \A h \in Handles :
           /\ other.nodes[h].interval = IF h = node THEN ival ELSE list.nodes[h].interval
           /\ other.nodes[h].next_time = IF h = node THEN time ELSE list.nodes[h].next_time
           /\ other.nodes[h].next = list.nodes[h].next
           /\ other.nodes[h].prev = list.nodes[h].prev
  BY <1>1 DEF Node
<1> QED
  BY <1>1, <1>2, OnlyPointersChain

\* The second half of them: insert_node() of that node.
LEMMA InsertSets ==
  ASSUME NEW other, NEW s, Chained(other, s), NEW node \in Handles, node \notin ToSet(s),
         SetList(insert_node(other, node))
  PROVE  \E p \in 0 .. Len(s) :
           /\ Splits(nodes', s, other.nodes[node].next_time, p)
           /\ Chained(List', InsertAt(s, p + 1, node))
           /\ ToSet(InsertAt(s, p + 1, node)) = ToSet(s) \cup {node}
           /\ \A h \in Handles :
                /\ nodes'[h].interval = other.nodes[h].interval
                /\ nodes'[h].next_time = other.nodes[h].next_time
<1> DEFINE after == insert_node(other, node)
           p == Position(other, node)
<1>1. /\ s \in Seq(Handles) /\ Len(s) \in Nat
      /\ \A i \in 1 .. Len(s) : s[i] \in Handles
  BY ChainFits DEF Chained
<1>2. /\ Splits(other.nodes, s, other.nodes[node].next_time, p)
      /\ Chained(after, InsertAt(s, p + 1, node))
      /\ \A h \in Handles :
           /\ after.nodes[h].interval = other.nodes[h].interval
           /\ after.nodes[h].next_time = other.nodes[h].next_time
  BY InsertChains
<1>3. List' = after
  <2>1. after = [first |-> after.first, last |-> after.last, nodes |-> after.nodes]
    BY DEF insert_node
  <2>2. SetList(after)
    OBVIOUS
  <2> HIDE DEF after
  <2>3. QED
    BY <2>1, <2>2, ListIsSet
<1>4. nodes' = after.nodes
  BY <1>3 DEF List
<1> HIDE DEF after, p
<1>5. p \in 0 .. Len(s) /\ p + 1 \in 1 .. Len(s) + 1
  BY <1>1, <1>2 DEF Splits
<1>6. Splits(nodes', s, other.nodes[node].next_time, p)
  <2>1. \A i \in 1 .. Len(s) : nodes'[s[i]].next_time = other.nodes[s[i]].next_time
    BY <1>1, <1>2, <1>4
  <2>2. p < Len(s) => p + 1 \in 1 .. Len(s)
    BY <1>1, <1>5
  <2>3. QED
    BY <1>2, <2>1, <2>2 DEF Splits
<1>7. ToSet(InsertAt(s, p + 1, node)) = ToSet(s) \cup {node}
  BY <1>1, <1>5, InsertedIsThere
<1>8. Chained(List', InsertAt(s, p + 1, node))
  BY <1>2, <1>3
<1> QED
  BY <1>2, <1>4, <1>5, <1>6, <1>7, <1>8

\* schedule() puts the new node where its first run is due.
LEMMA ScheduleChains ==
  ASSUME QueueInv, NEW handle \in Handles, NEW ms \in Intervals, NEW now \in Clock,
         schedule(handle, ms, now)
  PROVE  LET s    == Walk(List)
             time == tm_incr(now, FromMs(ms))
         IN /\ QueueInv'
            /\ time \in timespec_t /\ FromMs(ms) \in timespec_t
            /\ handle \notin ToSet(s)
            /\ \E p \in 0 .. Len(s) :
                 /\ Splits(nodes', s, time, p)
                 /\ Walk(List)' = InsertAt(s, p + 1, handle)
            /\ \A h \in Handles :
                 /\ nodes'[h].interval = IF h = handle THEN FromMs(ms) ELSE nodes[h].interval
                 /\ nodes'[h].next_time = IF h = handle THEN time ELSE nodes[h].next_time
<1>1. PICK s : s = Walk(List)
  OBVIOUS
<1>2. PICK ival : ival = FromMs(ms)
  OBVIOUS
<1>3. PICK time : time = tm_incr(now, ival)
  OBVIOUS
<1>4. PICK list : list = List
  OBVIOUS
<1>5. PICK filled : filled = [nodes EXCEPT ![handle].interval = ival,
                                           ![handle].next_time = time]
  OBVIOUS
<1>6. ival \in timespec_t /\ time \in timespec_t
  BY <1>2, <1>3, HandleAssumption, FromMsConverts, tm_incr_Adds
<1>7. /\ list = [first |-> list.first, last |-> list.last, nodes |-> list.nodes]
      /\ list.nodes = nodes
  BY <1>4 DEF List
<1>8. Chained(list, s) /\ ToSet(s) = allocated
  BY <1>1, <1>4 DEF QueueInv
<1>9. handle \notin ToSet(s) /\ allocated' = ToSet(s) \cup {handle}
  BY <1>8 DEF schedule
<1>10. PICK other : other = [list EXCEPT !.nodes = filled]
  OBVIOUS
<1>11. PICK p \in 0 .. Len(s) :
         /\ Splits(nodes', s, time, p)
         /\ Chained(List', InsertAt(s, p + 1, handle))
         /\ ToSet(InsertAt(s, p + 1, handle)) = ToSet(s) \cup {handle}
         /\ \A h \in Handles :
              /\ nodes'[h].interval = IF h = handle THEN ival ELSE nodes[h].interval
              /\ nodes'[h].next_time = IF h = handle THEN time ELSE nodes[h].next_time
  <2>1. /\ other.first = list.first /\ other.last = list.last
        /\ other.nodes = [list.nodes EXCEPT ![handle].interval = ival,
                                            ![handle].next_time = time]
    BY <1>5, <1>7, <1>10
  <2>2. /\ Chained(other, s)
        /\ \A h \in Handles :
             /\ other.nodes[h].interval = IF h = handle THEN ival
                                          ELSE list.nodes[h].interval
             /\ other.nodes[h].next_time = IF h = handle THEN time
                                           ELSE list.nodes[h].next_time
    BY <1>6, <1>8, <1>9, <2>1, FilledChains
  <2>3. SetList(insert_node(other, handle))
    BY <1>2, <1>3, <1>4, <1>5, <1>10 DEF schedule
  <2>4. other.nodes[handle].next_time = time
    BY <2>2
  <2>5. PICK p \in 0 .. Len(s) :
           /\ Splits(nodes', s, other.nodes[handle].next_time, p)
           /\ Chained(List', InsertAt(s, p + 1, handle))
           /\ ToSet(InsertAt(s, p + 1, handle)) = ToSet(s) \cup {handle}
           /\ \A h \in Handles :
                /\ nodes'[h].interval = other.nodes[h].interval
                /\ nodes'[h].next_time = other.nodes[h].next_time
    BY <1>9, <2>2, <2>3, InsertSets
  <2>6. QED
    BY <1>7, <2>2, <2>4, <2>5
<1>12. QueueInv' /\ Walk(List)' = InsertAt(s, p + 1, handle)
  BY <1>9, <1>11, ChainKeepsInv
<1> QED
  BY <1>1, <1>2, <1>3, <1>6, <1>7, <1>9, <1>11, <1>12

\* unschedule() takes the node out of its place.
LEMMA UnscheduleChains ==
  ASSUME QueueInv, NEW handle \in Handles, unschedule(handle)
  PROVE  LET s == Walk(List)
         IN /\ QueueInv'
            /\ handle \in ToSet(s)
            /\ \E p \in 1 .. Len(s) : s[p] = handle /\ Walk(List)' = RemoveAt(s, p)
            /\ \A h \in Handles : /\ nodes'[h].interval = nodes[h].interval
                                  /\ nodes'[h].next_time = nodes[h].next_time
<1>1. PICK s : s = Walk(List)
  OBVIOUS
<1>2. PICK list : list = List
  OBVIOUS
<1>3. Chained(list, s) /\ ToSet(s) = allocated /\ list.nodes = nodes
  BY <1>1, <1>2 DEF QueueInv, List
<1>4. /\ handle \in ToSet(s) /\ allocated' = ToSet(s) \ {handle}
      /\ SetList(remove_node(list, handle))
  BY <1>2, <1>3 DEF unschedule
<1>5. s \in Seq(Handles) /\ IsInjective(s) /\ DOMAIN s = 1 .. Len(s)
  BY <1>3, ChainFits DEF Chained
<1>6. PICK p \in 1 .. Len(s) : s[p] = handle
  BY <1>4, <1>5 DEF ToSet
<1>7. PICK after : after = remove_node(list, handle)
  OBVIOUS
<1>8. /\ Chained(after, RemoveAt(s, p))
      /\ \A h \in Handles : /\ after.nodes[h].interval = list.nodes[h].interval
                            /\ after.nodes[h].next_time = list.nodes[h].next_time
  BY <1>3, <1>6, <1>7, RemoveChains
<1>9. List' = after
  <2>1. after = [first |-> after.first, last |-> after.last, nodes |-> after.nodes]
    BY <1>7 DEF remove_node
  <2>2. QED
    BY <1>4, <1>7, <2>1, ListIsSet
<1>10. nodes' = after.nodes
  BY <1>9 DEF List
<1>11. ToSet(RemoveAt(s, p)) = allocated'
  BY <1>4, <1>5, <1>6, RemovedIsGone
<1>12. QueueInv' /\ Walk(List)' = RemoveAt(s, p)
  BY <1>8, <1>9, <1>11, ChainKeepsInv
<1> QED
  BY <1>1, <1>3, <1>4, <1>6, <1>8, <1>10, <1>12

\* run_first() takes the first node out and puts it where its next run is due.
LEMMA RunFirstChains ==
  ASSUME QueueInv, NEW now \in Clock, run_first(now)
  PROVE  LET s    == Walk(List)
             time == NextTime(nodes[first], now)
         IN /\ QueueInv'
            /\ s # << >> /\ first = s[1] /\ s[1] \in Handles /\ time \in timespec_t
            /\ tm_ge(now, nodes[first].next_time)
            /\ s[1] \notin ToSet(Tail(s))
            /\ \E p \in 0 .. Len(Tail(s)) :
                 /\ Splits(nodes', Tail(s), time, p)
                 /\ Walk(List)' = InsertAt(Tail(s), p + 1, s[1])
            /\ \A h \in Handles :
                 /\ nodes'[h].interval = nodes[h].interval
                 /\ nodes'[h].next_time = IF h = s[1] THEN time ELSE nodes[h].next_time
<1>1. PICK s : s = Walk(List)
  OBVIOUS
<1>2. PICK list : list = List
  OBVIOUS
<1>3. PICK node : node = first
  OBVIOUS
<1>4. PICK time : time = NextTime(nodes[node], now)
  OBVIOUS
<1>5. PICK popped : popped = pop(list)
  OBVIOUS
<1>6. PICK again : again = [popped.nodes EXCEPT ![node].next_time = time]
  OBVIOUS
<1>7. Chained(list, s) /\ ToSet(s) = allocated /\ list.nodes = nodes /\ list.first = first
  BY <1>1, <1>2 DEF QueueInv, List
<1>8. /\ s # << >>
      /\ tm_ge(now, nodes[node].next_time)
      /\ SetList(insert_node([popped EXCEPT !.nodes = again], node))
      /\ allocated' = allocated
  <2>1. first # NULL
    BY DEF run_first
  <2>2. QED
    BY <1>2, <1>3, <1>4, <1>5, <1>6, <1>7, <2>1 DEF run_first, Chained
<1>9. /\ node = s[1] /\ node \in Handles /\ node \notin ToSet(Tail(s))
      /\ Chained(popped, Tail(s))
      /\ \A h \in Handles : /\ popped.nodes[h].interval = nodes[h].interval
                            /\ popped.nodes[h].next_time = nodes[h].next_time
  BY <1>3, <1>5, <1>7, <1>8, PopChains
<1>10. time \in timespec_t
  <2>1. /\ nodes[node].next_time \in timespec_t /\ nodes[node].interval \in timespec_t
        /\ now \in timespec_t
    BY <1>9, HandleAssumption DEF QueueInv, TypeOK, Node
  <2>2. QED
    BY <1>4, <2>1, tm_incr_Adds DEF NextTime
<1>11. popped = [first |-> popped.first, last |-> popped.last, nodes |-> popped.nodes]
  BY <1>5 DEF pop
<1>12. PICK ival : ival = popped.nodes[node].interval
  OBVIOUS
<1>13. popped.nodes \in [Handles -> Node]
  BY <1>9 DEF Chained
<1>14. ival \in timespec_t
  BY <1>9, <1>12, <1>13 DEF Node
<1>15. popped.nodes[node] = [popped.nodes[node] EXCEPT !.interval = ival]
  BY <1>9, <1>12, <1>13 DEF Node
<1>16. again = [popped.nodes EXCEPT ![node].interval = ival, ![node].next_time = time]
  <2> DEFINE ns == popped.nodes
             f == [ns EXCEPT ![node].interval = ival, ![node].next_time = time]
  <2>1. again = [h \in Handles |-> IF h = node THEN [ns[h] EXCEPT !.next_time = time]
                                   ELSE ns[h]]
    BY <1>6, <1>9, <1>13
  <2>2. f = [h \in Handles |->
               IF h = node THEN [ns[h] EXCEPT !.interval = ival, !.next_time = time]
               ELSE ns[h]]
    BY <1>9, <1>13
  <2>3. [ns[node] EXCEPT !.interval = ival, !.next_time = time]
          = [ns[node] EXCEPT !.next_time = time]
    BY <1>15
  <2>4. \A h \in Handles : again[h] = f[h]
    BY <2>1, <2>2, <2>3
  <2>5. QED
    BY <2>1, <2>2, <2>4
<1>17. PICK other : other = [popped EXCEPT !.nodes = again]
  OBVIOUS
<1>18. PICK p \in 0 .. Len(Tail(s)) :
         /\ Splits(nodes', Tail(s), time, p)
         /\ Chained(List', InsertAt(Tail(s), p + 1, node))
         /\ ToSet(InsertAt(Tail(s), p + 1, node)) = ToSet(Tail(s)) \cup {node}
         /\ \A h \in Handles :
              /\ nodes'[h].interval = nodes[h].interval
              /\ nodes'[h].next_time = IF h = node THEN time ELSE nodes[h].next_time
  <2>1. /\ other.first = popped.first /\ other.last = popped.last
        /\ other.nodes = [popped.nodes EXCEPT ![node].interval = ival,
                                              ![node].next_time = time]
    BY <1>11, <1>16, <1>17
  <2>2. /\ Chained(other, Tail(s))
        /\ \A h \in Handles :
             /\ other.nodes[h].interval = IF h = node THEN ival
                                          ELSE popped.nodes[h].interval
             /\ other.nodes[h].next_time = IF h = node THEN time
                                           ELSE popped.nodes[h].next_time
    BY <1>9, <1>10, <1>14, <2>1, FilledChains
  <2>3. SetList(insert_node(other, node))
    BY <1>8, <1>17
  <2>4. other.nodes[node].next_time = time
    BY <1>9, <2>2
  <2>5. PICK p \in 0 .. Len(Tail(s)) :
           /\ Splits(nodes', Tail(s), other.nodes[node].next_time, p)
           /\ Chained(List', InsertAt(Tail(s), p + 1, node))
           /\ ToSet(InsertAt(Tail(s), p + 1, node)) = ToSet(Tail(s)) \cup {node}
           /\ \A h \in Handles :
                /\ nodes'[h].interval = other.nodes[h].interval
                /\ nodes'[h].next_time = other.nodes[h].next_time
    BY <1>9, <2>2, <2>3, InsertSets
  <2>6. QED
    BY <1>9, <1>12, <2>2, <2>4, <2>5
<1>19. ToSet(Tail(s)) \cup {node} = ToSet(s)
  <2>1. s \in Seq(Handles) /\ IsInjective(s)
    BY <1>7 DEF Chained
  <2>2. 1 \in 1 .. Len(s) /\ Tail(s) = RemoveAt(s, 1)
    BY <1>8, <2>1, TailRemoves
  <2>3. ToSet(Tail(s)) = ToSet(s) \ {s[1]}
    BY <2>1, <2>2, RemovedIsGone
  <2>4. s[1] \in ToSet(s)
    BY <2>1, <2>2, LenProperties DEF ToSet
  <2>5. QED
    BY <1>9, <2>3, <2>4
<1>20. QueueInv' /\ Walk(List)' = InsertAt(Tail(s), p + 1, node)
  BY <1>7, <1>8, <1>18, <1>19, ChainKeepsInv
<1> QED
  BY <1>1, <1>3, <1>4, <1>8, <1>9, <1>10, <1>18, <1>20

\* The invariant holds in every state that can be reached.
LEMMA QueueInvariant == Spec => []QueueInv
<1>1. Init => QueueInv
  BY InitialChain
<1>2. QueueInv /\ [Next]_vars => QueueInv'
  <2> SUFFICES ASSUME QueueInv, [Next]_vars PROVE QueueInv'
    OBVIOUS
  <2>1. ASSUME NEW handle \in Handles, NEW ms \in Intervals, NEW now \in Clock,
               schedule(handle, ms, now)
        PROVE  QueueInv'
    BY <2>1, ScheduleChains
  <2>2. ASSUME NEW handle \in Handles, unschedule(handle) PROVE QueueInv'
    BY <2>2, UnscheduleChains
  <2>3. ASSUME NEW now \in Clock, run_first(now) PROVE QueueInv'
    BY <2>3, RunFirstChains
  <2>4. CASE UNCHANGED vars
    <3>1. List' = List /\ allocated' = allocated
      BY <2>4 DEF vars, List
    <3>2. PICK s : s = Walk(List)
      OBVIOUS
    <3>3. Chained(List', s) /\ ToSet(s) = allocated'
      BY <3>1, <3>2 DEF QueueInv
    <3>4. QED
      BY <3>3, ChainKeepsInv
  <2>5. QED
    BY <2>1, <2>2, <2>3, <2>4 DEF Next
<1> QED
  BY <1>1, <1>2, PTL DEF Spec

\* Whatever is scheduled, unscheduled and run, the ends of the list are nodes or
\* NULL and every node holds normalised times and pointers to nodes or NULL.
THEOREM QueueTypeCorrect == Spec => []TypeOK
<1>1. QueueInv => TypeOK
  BY DEF QueueInv
<1> QED
  BY <1>1, QueueInvariant, PTL

\* Whatever is scheduled, unscheduled and run, the list can be walked in both
\* directions, and it holds exactly the handles that were given out: no
\* insertion or removal loses a node or leaves a pointer to one that was freed.
THEOREM ListAlwaysWellFormed == Spec => []ListWellFormed
<1>1. QueueInv => ListWellFormed
  <2> SUFFICES ASSUME QueueInv PROVE ListWellFormed
    OBVIOUS
  <2> DEFINE at == Forward(List)
             n == Length(List)
  <2>1. PICK s : s = Walk(List)
    OBVIOUS
  <2>2. Chained(List, s) /\ ToSet(s) = allocated
    BY <2>1 DEF QueueInv
  <2>3. /\ n = Len(s) /\ n \in Nat /\ n <= Cardinality(Handles) /\ Cardinality(Handles) \in Nat
        /\ DOMAIN s = 1 .. n /\ (s = << >> <=> n = 0)
        /\ Cardinality(ToSet(s)) = n
    BY <2>2, ChainFits, WalkIsChain, EmptySeq DEF Chained
  <2>4. \A k \in 0 .. Cardinality(Handles) : at[k] = IF k < n THEN s[k + 1] ELSE NULL
    BY <2>2, <2>3, ForwardFollows
  <2>5. /\ last = IF s = << >> THEN NULL ELSE s[n]
        /\ \A i \in 1 .. n : nodes[s[i]].prev = IF i = 1 THEN NULL ELSE s[i - 1]
    BY <2>2, <2>3 DEF Chained, List
  <2> HIDE DEF at, n
  <2>6. \A k \in 0 .. n - 1 : at[k] = s[k + 1] /\ k + 1 \in 1 .. n
    BY <2>3, <2>4
  <2>7. {at[k] : k \in 0 .. n - 1} = allocated
    <3>1. ASSUME NEW k \in 0 .. n - 1 PROVE at[k] \in allocated
      BY <2>2, <2>3, <2>6 DEF ToSet
    <3>2. ASSUME NEW h \in allocated PROVE \E k \in 0 .. n - 1 : at[k] = h
      <4>1. PICK i \in 1 .. n : s[i] = h
        BY <2>2, <2>3 DEF ToSet
      <4>2. i - 1 \in 0 .. n - 1 /\ i - 1 + 1 = i
        BY <2>3
      <4>3. QED
        BY <2>6, <4>1, <4>2
    <3>3. QED
      BY <3>1, <3>2
  <2>8. last = IF n = 0 THEN NULL ELSE at[n - 1]
    <3>1. n # 0 => n - 1 \in 0 .. n - 1 /\ n - 1 + 1 = n
      BY <2>3
    <3>2. QED
      BY <2>3, <2>5, <2>6, <3>1
  <2>9. ASSUME NEW k \in 0 .. n - 1
        PROVE  nodes[at[k]].prev = IF k = 0 THEN NULL ELSE at[k - 1]
    <3>1. /\ k + 1 \in 1 .. n /\ (k + 1 = 1 <=> k = 0) /\ k + 1 - 1 = k
          /\ (k # 0 => k - 1 \in 0 .. n - 1 /\ k - 1 + 1 = k)
      BY <2>3
    <3>2. QED
      BY <2>5, <2>6, <3>1
  <2>10. Cardinality(allocated) = n
    BY <2>2, <2>3
  <2> QED
    BY <2>7, <2>8, <2>9, <2>10 DEF ListWellFormed, at, n
<1> QED
  BY <1>1, QueueInvariant, PTL

-----------------------------------------------------------------------------
(* The list implements the ordered sequence *)

\* What the list and the times stand for in TaskQueue.
Queue      == Walk(List)
NextTimes  == [h \in Handles |-> Value(nodes[h].next_time)]
IntervalNs == [h \in Handles |-> Value(nodes[h].interval)]

\* A timespec stands for a number.
LEMMA ValueIsNat == \A t \in timespec_t : Value(t) \in Nat
<1> SUFFICES ASSUME NEW t \in timespec_t PROVE Value(t) \in Nat
  OBVIOUS
<1>1. t.tv_sec \in Nat /\ t.tv_nsec \in Nat
  BY SecondIsPositive DEF timespec_t
<1>2. t.tv_sec * NS_PER_SEC \in Nat
  BY <1>1, SecondsInOrder
<1> QED
  BY <1>1, <1>2 DEF Value

\* Where insert_node() stops is what TaskQueue counts: the nodes at the front that
\* are due no later.
LEMMA SplitIsDueBy ==
  ASSUME NEW mem \in [Handles -> Node], NEW s \in Seq(Handles),
         NEW time \in timespec_t, NEW p, Splits(mem, s, time, p)
  PROVE  Tasks!DueBy(s, [h \in Handles |-> Value(mem[h].next_time)], Value(time)) = p
<1> DEFINE at == [h \in Handles |-> Value(mem[h].next_time)]
           v == Value(time)
           D == {i \in DOMAIN s : \A j \in 1 .. i : at[s[j]] <= v}
           n == Len(s)
<1>1. /\ n \in Nat /\ DOMAIN s = 1 .. n
      /\ p \in 0 .. n
      /\ \A i \in 1 .. n : s[i] \in Handles
  BY LenProperties, ElementOfSeq DEF Splits
<1>2. v \in Nat /\ \A i \in 1 .. n : at[s[i]] \in Nat
  BY <1>1, ValueIsNat DEF Node
<1>3. \A i \in 1 .. n : tm_ge(time, mem[s[i]].next_time) <=> at[s[i]] <= v
  <2> SUFFICES ASSUME NEW i \in 1 .. n
               PROVE  tm_ge(time, mem[s[i]].next_time) <=> at[s[i]] <= v
    OBVIOUS
  <2>1. mem[s[i]].next_time \in timespec_t /\ at[s[i]] = Value(mem[s[i]].next_time)
    BY <1>1 DEF Node
  <2>2. tm_ge(time, mem[s[i]].next_time) <=> v >= at[s[i]]
    BY <2>1, tm_ge_Compares
  <2>3. QED
    BY <1>2, <2>2
<1>4. /\ \A i \in 1 .. n : i <= p => tm_ge(time, mem[s[i]].next_time)
      /\ p < n => ~tm_ge(time, mem[s[p + 1]].next_time)
  BY DEF Splits
<1> HIDE DEF at, v
<1>5. Tasks!DueBy(s, at, v) = Cardinality(D)
  BY DEF Tasks!DueBy, Tasks!Cardinality, Cardinality
<1> HIDE DEF n
<1>6. D = 1 .. p
  <2>1. ASSUME NEW i \in 1 .. p PROVE i \in D
    BY <1>1, <1>3, <1>4
  <2>2. ASSUME NEW i \in D PROVE i \in 1 .. p
    <3> SUFFICES ASSUME i > p PROVE FALSE
      BY <1>1
    <3>1. p + 1 \in 1 .. n /\ p + 1 \in 1 .. i /\ p < n
      BY <1>1
    <3>2. QED
      BY <1>3, <1>4, <3>1
  <2>3. QED
    BY <2>1, <2>2
<1>7. Cardinality(1 .. p) = p
  <2>1. 1 \in Int /\ p \in Int
    BY <1>1
  <2>2. Cardinality(1 .. p) = IF 1 > p THEN 0 ELSE p - 1 + 1
    BY <2>1, FS_Interval
  <2>3. QED
    BY <1>1, <2>2
<1> QED
  BY <1>5, <1>6, <1>7 DEF at, v

\* So that a node goes where TaskQueue puts it.
LEMMA InsertedAgrees ==
  ASSUME NEW mem \in [Handles -> Node], NEW s \in Seq(Handles),
         NEW node \in Handles, NEW p, Splits(mem, s, mem[node].next_time, p)
  PROVE  Tasks!Inserted(s, [h \in Handles |-> Value(mem[h].next_time)], node)
           = InsertAt(s, p + 1, node)
<1> DEFINE at == [h \in Handles |-> Value(mem[h].next_time)]
<1>1. mem[node].next_time \in timespec_t /\ at[node] = Value(mem[node].next_time)
  BY DEF Node
<1>2. Tasks!DueBy(s, at, at[node]) = p
  BY <1>1, SplitIsDueBy
<1> HIDE DEF at
<1>3. Tasks!Inserted(s, at, node) = Tasks!InsertAt(s, p + 1, node)
  BY <1>2 DEF Tasks!Inserted
<1> QED
  BY <1>3 DEF Tasks!InsertAt, InsertAt, at

\* There is one place to remove a node from.
LEMMA RemovedAgrees ==
  ASSUME NEW s \in Seq(Handles), IsInjective(s), NEW p \in 1 .. Len(s)
  PROVE  Tasks!Removed(s, s[p]) = RemoveAt(s, p)
<1> DEFINE c == CHOOSE i \in DOMAIN s : s[i] = s[p]
<1>1. DOMAIN s = 1 .. Len(s)
  BY LenProperties
<1>2. c \in DOMAIN s /\ s[c] = s[p]
  BY <1>1
<1>3. c = p
  BY <1>1, <1>2 DEF IsInjective
<1>4. Tasks!Removed(s, s[p]) = Tasks!RemoveAt(s, c)
  BY DEF Tasks!Removed
<1> HIDE DEF c
<1> QED
  BY <1>3, <1>4 DEF Tasks!RemoveAt, RemoveAt

\* NextTime() skips the runs that were missed as TaskQueue does.
LEMMA NextTimeReschedules ==
  ASSUME NEW node \in Node, NEW now \in timespec_t
  PROVE  Value(NextTime(node, now))
           = Tasks!Rescheduled(Value(node.next_time), Value(node.interval), Value(now))
<1> DEFINE incremented == tm_incr(node.next_time, node.interval)
<1>1. node.next_time \in timespec_t /\ node.interval \in timespec_t
  BY DEF Node
<1>2. /\ incremented \in timespec_t
      /\ Value(incremented) = Value(node.next_time) + Value(node.interval)
      /\ Value(tm_incr(now, node.interval)) = Value(now) + Value(node.interval)
  BY <1>1, tm_incr_Adds
<1>3. tm_ge(now, incremented) <=> Value(now) >= Value(incremented)
  BY <1>2, tm_ge_Compares
<1> QED
  BY <1>2, <1>3 DEF NextTime, Tasks!Rescheduled

\* schedule() is TaskQueue's Schedule.
LEMMA ScheduleRefines ==
  ASSUME QueueInv, NEW handle \in Handles, NEW ms \in Intervals, NEW now \in Clock,
         schedule(handle, ms, now)
  PROVE  Tasks!TaskNext
<1>1. PICK s : s = Walk(List)
  OBVIOUS
<1>2. PICK time : time = tm_incr(now, FromMs(ms))
  OBVIOUS
<1>3. /\ QueueInv' /\ time \in timespec_t /\ FromMs(ms) \in timespec_t
      /\ handle \notin ToSet(s)
      /\ \A h \in Handles :
           /\ nodes'[h].interval = IF h = handle THEN FromMs(ms) ELSE nodes[h].interval
           /\ nodes'[h].next_time = IF h = handle THEN time ELSE nodes[h].next_time
  BY <1>1, <1>2, ScheduleChains
<1>4. PICK p \in 0 .. Len(s) :
        Splits(nodes', s, time, p) /\ Walk(List)' = InsertAt(s, p + 1, handle)
  BY <1>1, <1>2, ScheduleChains
<1>5. /\ Value(FromMs(ms)) = ms * NS_PER_MS
      /\ Value(time) = Value(now) + ms * NS_PER_MS
  BY <1>2, HandleAssumption, FromMsConverts, tm_incr_Adds
<1>6. s \in Seq(Handles) /\ nodes' \in [Handles -> Node]
  BY <1>1, <1>3 DEF QueueInv, TypeOK, Chained
<1>7. NextTimes' = [NextTimes EXCEPT ![handle] = Value(now) + ms * NS_PER_MS]
  BY <1>3, <1>5 DEF NextTimes
<1>8. IntervalNs' = [IntervalNs EXCEPT ![handle] = ms * NS_PER_MS]
  BY <1>3, <1>5 DEF IntervalNs
<1>9. Queue' = Tasks!Inserted(Queue, NextTimes', handle)
  <2>1. nodes'[handle].next_time = time
    BY <1>3
  <2>2. Tasks!Inserted(s, [h \in Handles |-> Value(nodes'[h].next_time)], handle)
          = InsertAt(s, p + 1, handle)
    BY <1>4, <1>6, <2>1, InsertedAgrees
  <2>3. QED
    BY <1>1, <1>4, <2>2 DEF Queue, NextTimes
<1>10. handle \notin Tasks!Scheduled
  BY <1>1, <1>3 DEF Tasks!Scheduled, Tasks!ToSet, ToSet, Walk
<1>11. Tasks!Schedule(handle, ms * NS_PER_MS, Value(now))
  BY <1>7, <1>8, <1>9, <1>10
  DEF Tasks!Schedule, Queue, NextTimes, IntervalNs, Walk
<1> QED
  BY <1>11 DEF Tasks!TaskNext

\* unschedule() is TaskQueue's Unschedule.
LEMMA UnscheduleRefines ==
  ASSUME QueueInv, NEW handle \in Handles, unschedule(handle)
  PROVE  Tasks!TaskNext
<1>1. PICK s : s = Walk(List)
  OBVIOUS
<1>2. /\ handle \in ToSet(s)
      /\ \A h \in Handles : /\ nodes'[h].interval = nodes[h].interval
                            /\ nodes'[h].next_time = nodes[h].next_time
  BY <1>1, UnscheduleChains
<1>3. PICK p \in 1 .. Len(s) : s[p] = handle /\ Walk(List)' = RemoveAt(s, p)
  BY <1>1, UnscheduleChains
<1>4. s \in Seq(Handles) /\ IsInjective(s)
  BY <1>1 DEF QueueInv, Chained
<1>5. Queue' = Tasks!Removed(Queue, handle)
  BY <1>1, <1>3, <1>4, RemovedAgrees DEF Queue
<1>6. NextTimes' = NextTimes /\ IntervalNs' = IntervalNs
  BY <1>2 DEF NextTimes, IntervalNs
<1>7. handle \in Tasks!Scheduled
  BY <1>1, <1>2 DEF Tasks!Scheduled, Tasks!ToSet, ToSet, Walk
<1>8. Tasks!Unschedule(handle)
  BY <1>5, <1>6, <1>7 DEF Tasks!Unschedule, Queue, NextTimes, IntervalNs, Walk
<1> QED
  BY <1>8 DEF Tasks!TaskNext

\* scheduler_run() with the mutex is TaskQueue's RescheduleFirst.
LEMMA RunFirstRefines ==
  ASSUME QueueInv, NEW now \in Clock, run_first(now)
  PROVE  Tasks!TaskNext
<1>1. PICK s : s = Walk(List)
  OBVIOUS
<1>2. PICK node : node = s[1]
  OBVIOUS
<1>3. PICK time : time = NextTime(nodes[node], now)
  OBVIOUS
<1>4. /\ QueueInv' /\ s # << >> /\ first = node /\ node \in Handles /\ time \in timespec_t
      /\ tm_ge(now, nodes[node].next_time)
      /\ \A h \in Handles :
           /\ nodes'[h].interval = nodes[h].interval
           /\ nodes'[h].next_time = IF h = node THEN time ELSE nodes[h].next_time
  BY <1>1, <1>2, <1>3, RunFirstChains
<1>5. PICK p \in 0 .. Len(Tail(s)) :
        Splits(nodes', Tail(s), time, p) /\ Walk(List)' = InsertAt(Tail(s), p + 1, node)
  BY <1>1, <1>2, <1>3, <1>4, RunFirstChains
<1>6. /\ s \in Seq(Handles) /\ Tail(s) \in Seq(Handles) /\ Head(s) = node
      /\ nodes \in [Handles -> Node] /\ nodes' \in [Handles -> Node]
  <2>1. s \in Seq(Handles) /\ nodes \in [Handles -> Node] /\ nodes' \in [Handles -> Node]
    BY <1>1, <1>4 DEF QueueInv, TypeOK, Chained
  <2>2. QED
    BY <1>2, <1>4, <2>1, HeadTailProperties
<1>7. /\ nodes[node].next_time \in timespec_t /\ now \in timespec_t
      /\ nodes[node] \in Node
  BY <1>4, <1>6, HandleAssumption DEF Node
<1>8. Value(now) >= NextTimes[node]
  BY <1>4, <1>7, tm_ge_Compares DEF NextTimes
<1>9. NextTimes' = [NextTimes EXCEPT ![node] =
                      Tasks!Rescheduled(@, IntervalNs[node], Value(now))]
  <2>1. Value(time) = Tasks!Rescheduled(NextTimes[node], IntervalNs[node], Value(now))
    BY <1>3, <1>4, <1>7, NextTimeReschedules DEF NextTimes, IntervalNs
  <2>2. QED
    BY <1>4, <2>1 DEF NextTimes
<1>10. IntervalNs' = IntervalNs
  BY <1>4 DEF IntervalNs
<1>11. Queue' = Tasks!Inserted(Tail(Queue), NextTimes', node)
  <2>1. nodes'[node].next_time = time
    BY <1>4
  <2>2. Tasks!Inserted(Tail(s), [h \in Handles |-> Value(nodes'[h].next_time)], node)
          = InsertAt(Tail(s), p + 1, node)
    <3>1. nodes' \in [Handles -> Node] /\ Tail(s) \in Seq(Handles) /\ node \in Handles
          /\ Splits(nodes', Tail(s), nodes'[node].next_time, p)
      BY <1>4, <1>5, <1>6, <2>1
    <3>2. QED
      BY <3>1, InsertedAgrees, Zenon
  <2>3. QED
    BY <1>1, <1>5, <2>2 DEF Queue, NextTimes
<1>12. Queue # << >> /\ Head(Queue) = node
  BY <1>1, <1>4, <1>6 DEF Queue
<1>13. Tasks!IsDue(Value(now))
  BY <1>8, <1>12 DEF Tasks!IsDue, Queue, NextTimes, Walk
<1>14. Tasks!RescheduleFirst(Value(now))
  BY <1>9, <1>10, <1>11, <1>12, <1>13
  DEF Tasks!RescheduleFirst, Queue, NextTimes, IntervalNs, Walk
<1> QED
  BY <1>14 DEF Tasks!TaskNext

\* The doubly linked list of timespecs implements the ordered sequence of tasks:
\* whatever is scheduled, unscheduled and run, nodes that are due together keep
\* the order in which they came, and runs that were missed are skipped.
THEOREM ListIsOrderedQueue == Spec => ImplementsTaskQueue
<1>1. Init => Tasks!TaskInit
  <2> SUFFICES ASSUME Init PROVE Tasks!TaskInit
    OBVIOUS
  <2>1. Queue = << >>
    BY InitialChain DEF Queue
  <2>2. Value(Zero) = 0
    BY SecondIsPositive DEF Value, Zero
  <2>3. NextTimes = [h \in Handles |-> 0] /\ IntervalNs = [h \in Handles |-> 0]
    BY <2>2 DEF NextTimes, IntervalNs, Init, ZeroNode
  <2>4. QED
    BY <2>1, <2>3 DEF Tasks!TaskInit, Queue, NextTimes, IntervalNs, Walk
<1>2. QueueInv /\ [Next]_vars => [Tasks!TaskNext]_(Tasks!taskVars)
  <2> SUFFICES ASSUME QueueInv, [Next]_vars PROVE [Tasks!TaskNext]_(Tasks!taskVars)
    OBVIOUS
  <2>1. ASSUME Next PROVE Tasks!TaskNext
    <3>1. ASSUME NEW handle \in Handles, NEW ms \in Intervals, NEW now \in Clock,
                 schedule(handle, ms, now)
          PROVE  Tasks!TaskNext
      BY <3>1, ScheduleRefines
    <3>2. ASSUME NEW handle \in Handles, unschedule(handle) PROVE Tasks!TaskNext
      BY <3>2, UnscheduleRefines
    <3>3. ASSUME NEW now \in Clock, run_first(now) PROVE Tasks!TaskNext
      BY <3>3, RunFirstRefines
    <3>4. QED
      BY <2>1, <3>1, <3>2, <3>3 DEF Next
  <2>2. CASE UNCHANGED vars
    <3>1. List' = List /\ nodes' = nodes
      BY <2>2 DEF vars, List
    <3>2. UNCHANGED Tasks!taskVars
      BY <3>1 DEF Tasks!taskVars
    <3>3. QED
      BY <3>2
  <2>3. QED
    BY <2>1, <2>2
<1> QED
  BY <1>1, <1>2, QueueInvariant, PTL DEF Spec, ImplementsTaskQueue, Tasks!TaskSpec
=============================================================================
