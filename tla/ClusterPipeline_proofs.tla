----------------------- MODULE ClusterPipeline_proofs ------------------------
(***************************************************************************)
(* Proofs about the lists of commands that a clustered client runs through    *)
(* the thread pool: for any number of callers, workers, shards and commands,   *)
(* and any number of attempts and failures.                                  *)
(***************************************************************************)
EXTENDS ClusterPipeline, SequenceFacts, FiniteSetTheorems

(***************************************************************************)
(* The inductive invariant.  A job is in one place, the queue or the hands of  *)
(* one worker, and one that holds the mutex of its call has stored its results;  *)
(* a caller counts the shards that it has passed and that are not pending; the    *)
(* replies are those of the shards that succeeded and are over.                *)
(***************************************************************************)
Job == [caller : Callers, shard : Shards]
JobOf(c, s) == [caller |-> c, shard |-> s]

TypeOK ==
  /\ jobs \in Seq(Job) /\ shuttingDown \in BOOLEAN
  /\ worker \in [Workers -> {"wait", "have", "run", "done"}]
  /\ job \in [Workers -> Job \cup {NoJob}]
  /\ call \in [Callers -> {"before", "submit", "spin", "reorder", "returned", "threw"}]
  /\ next \in [Callers -> Nat]
  /\ count \in [Callers -> Nat]
  /\ success \in [Callers -> SUBSET Shards]
  /\ order \in [Callers -> Seq(Nat)]
  /\ replies \in [Callers -> Seq(Nat)]
  /\ results_mutex \in [Callers -> Workers \cup {NoWorker}]
  /\ attempt \in [Workers -> Nat]
  /\ DOMAIN executed = Callers
  /\ \A c \in Callers : executed[c] \in [DOMAIN Commands[c] -> Nat]
  /\ lost \in Nat

Shard(c, k) == DbNodeIndex(nodes, Commands[c][k])

(* The table has a shard for each command.                                         *)
TableServes ==
  /\ Len(nodes) \in Nat \ {0}
  /\ \A c \in Callers : \A k \in DOMAIN Commands[c] : Shard(c, k) \in Shards

JobInOnePlace ==
  /\ IsInjective(jobs)
  /\ \A w \in Workers : job[w] \notin ToSet(jobs)
  /\ \A v, w \in Workers : job[v] = job[w] /\ job[v] # NoJob => v = w
  /\ \A w \in Workers : /\ worker[w] = "wait" => job[w] = NoJob
                        /\ worker[w] \in {"have", "run"} => job[w] # NoJob
  /\ \A c \in Callers, w \in Workers :
       results_mutex[c] = w => worker[w] = "run" /\ attempt[w] = 0 /\ job[w].caller = c

(* A job waits, or works, until its results are stored; then it only has to unlock.   *)
InPool(j) == j \in ToSet(jobs) \/ \E w \in Workers : job[w] = j
HoldsMutex(j) == \E w \in Workers : job[w] = j /\ results_mutex[j.caller] = w
ToBeStored(j) == InPool(j) /\ ~HoldsMutex(j)
Pending(c) == {s \in Shards : ToBeStored(JobOf(c, s))}
Taken(c) == {s \in Shards : InPool(JobOf(c, s))}
Passed(c) == CASE call[c] = "before" -> {}
               [] call[c] = "submit" -> 0 .. next[c] - 1
               [] OTHER -> Shards
Over(c) == Passed(c) \ Pending(c)

Counted(c) ==
  /\ call[c] = "submit" => next[c] \in Shards
  /\ call[c] = "before" => next[c] = 0
  /\ Taken(c) \subseteq Passed(c)
  /\ success[c] \subseteq Passed(c)
  /\ count[c] = Cardinality(Over(c))
  /\ call[c] \in {"reorder", "returned", "threw"} => count[c] = Len(nodes)
  /\ call[c] \in {"reorder", "returned"} => success[c] = Shards
PassedIsCounted == \A c \in Callers : Counted(c)

ShutsDownIdle == shuttingDown => \A c \in Callers : call[c] \notin {"submit", "spin", "reorder"}

Replied(c) ==
  /\ order[c] = replies[c] /\ IsInjective(order[c])
  /\ ToSet(order[c]) = {k \in DOMAIN Commands[c] : Shard(c, k) \in success[c] \ Pending(c)}
RepliesOfShards == \A c \in Callers : Replied(c)

SuccessIsExecuted ==
  \A c \in Callers : \A k \in DOMAIN Commands[c] : Shard(c, k) \in success[c] => executed[c][k] > 0

Fixed(c) ==
  /\ call[c] = "reorder" => /\ next[c] \in 1 .. Len(order[c]) + 1
                            /\ \A i \in 1 .. next[c] - 1 : order[c][i] = i
  /\ call[c] = "returned" => \A i \in 1 .. Len(order[c]) : order[c][i] = i
PlacesAreFixed == \A c \in Callers : Fixed(c)

PipelineInv ==
  /\ TypeOK
  /\ TableServes
  /\ JobInOnePlace
  /\ ShutsDownIdle
  /\ PassedIsCounted
  /\ RepliesOfShards
  /\ SuccessIsExecuted
  /\ PlacesAreFixed

-----------------------------------------------------------------------------
(* Two places of a sequence, swapped: its elements stay the same.                   *)
LEMMA SwapElements ==
  ASSUME NEW S, NEW q \in Seq(S), NEW i \in 1 .. Len(q), NEW j \in 1 .. Len(q)
  PROVE  /\ Swap(q, i, j) \in Seq(S)
         /\ Len(Swap(q, i, j)) = Len(q)
         /\ ToSet(Swap(q, i, j)) = ToSet(q)
         /\ IsInjective(q) => IsInjective(Swap(q, i, j))
<1> DEFINE r == Swap(q, i, j)
<1>1. /\ r \in Seq(S) /\ Len(r) = Len(q) /\ Len(q) \in Nat
      /\ \A k \in 1 .. Len(q) : r[k] = IF k = j THEN q[i] ELSE IF k = i THEN q[j] ELSE q[k]
  BY DEF Swap
<1> HIDE DEF r
<1>2. /\ \A k \in 1 .. Len(q) : q[k] \in ToSet(q) /\ r[k] \in ToSet(r)
      /\ \A x \in ToSet(q) : \E k \in 1 .. Len(q) : q[k] = x
      /\ \A x \in ToSet(r) : \E k \in 1 .. Len(q) : r[k] = x
      /\ IsInjective(q) <=> \A k, l \in 1 .. Len(q) : q[k] = q[l] => k = l
      /\ IsInjective(r) <=> \A k, l \in 1 .. Len(q) : r[k] = r[l] => k = l
  <2>1. /\ \A k \in 1 .. Len(q) : q[k] \in ToSet(q)
        /\ \A x \in ToSet(q) : \E k \in 1 .. Len(q) : q[k] = x
        /\ IsInjective(q) <=> \A k, l \in 1 .. Len(q) : q[k] = q[l] => k = l
    BY ElementPositions
  <2>2. /\ \A k \in 1 .. Len(r) : r[k] \in ToSet(r)
        /\ \A x \in ToSet(r) : \E k \in 1 .. Len(r) : r[k] = x
        /\ IsInjective(r) <=> \A k, l \in 1 .. Len(r) : r[k] = r[l] => k = l
    BY <1>1, ElementPositions
  <2> QED BY <1>1, <2>1, <2>2
<1>3. ToSet(r) = ToSet(q)
  <2>1. \A x \in ToSet(r) : x \in ToSet(q)
    BY <1>1, <1>2
  <2>2. ASSUME NEW k \in 1 .. Len(q) PROVE \E l \in 1 .. Len(q) : r[l] = q[k]
    <3>1. CASE k = i
      BY <1>1, <3>1
    <3>2. CASE k = j
      BY <1>1, <3>2
    <3>3. CASE k # i /\ k # j
      BY <1>1, <3>3
    <3> QED BY <3>1, <3>2, <3>3
  <2>3. ASSUME NEW x \in ToSet(q) PROVE x \in ToSet(r)
    <3>1. PICK k \in 1 .. Len(q) : q[k] = x
      BY <1>2
    <3>2. PICK l \in 1 .. Len(q) : r[l] = q[k]
      BY <2>2
    <3> QED BY <1>2, <3>1, <3>2
  <2> QED BY <2>1, <2>3
<1>4. IsInjective(q) => IsInjective(r)
  BY <1>1, <1>2
<1> QED BY <1>1, <1>3, <1>4 DEF r

-----------------------------------------------------------------------------
(* The shard at a place of the table.                                              *)
Lower(table, m) == At(table, m).lower
Upper(table, m) == At(table, m).upper

(* The binary search in a table, one of whose places serves the slot: the places before   *)
(* it end below the slot, those after it begin above.  The recursive equation has a        *)
(* solution, the function that is p everywhere; on any solution, by induction on how far    *)
(* lhs and rhs are apart, the search gives p.                                        *)
LEMMA SearchEnds ==
  ASSUME NEW table, NEW slot \in Nat, Len(table) \in Nat,
         NEW p \in 0 .. Len(table) - 1,
         \A m \in 0 .. Len(table) - 1 : Lower(table, m) \in Nat /\ Upper(table, m) \in Nat,
         \A m \in 0 .. p : Lower(table, m) <= slot,
         \A m \in 0 .. Len(table) - 1 : slot <= Upper(table, m) <=> m >= p,
         \A m \in p + 1 .. Len(table) - 1 : slot < Lower(table, m),
         NEW lhs \in 0 .. p, NEW rhs \in p .. Len(table)
  PROVE  HashSearch(table, slot, lhs, rhs) = p
<1> DEFINE n == Len(table)
           low(m) == Lower(table, m)
           up(m) == Upper(table, m)
           D == (0 .. n - 1) \X (0 .. n)
           step(f, at) ==
             LET m == (at[1] + at[2]) \div 2 IN
             CASE low(m) <= slot /\ slot <= up(m) -> m
               [] low(m) > slot -> f[<<at[1], m - 1>>]
               [] OTHER -> f[<<m + 1, at[2]>>]
           search == CHOOSE f : f = [at \in D |-> step(f, at)]
           g == [at \in D |-> p]
<1>1. HashSearch(table, slot, lhs, rhs) = search[<<lhs, rhs>>]
  BY DEF HashSearch, Lower, Upper
<1>2. n \in Nat /\ p \in Nat /\ p < n
  OBVIOUS
<1>3. /\ \A m \in 0 .. n - 1 : low(m) \in Nat /\ up(m) \in Nat
      /\ \A m \in 0 .. p : low(m) <= slot
      /\ \A m \in 0 .. n - 1 : slot <= up(m) <=> m >= p
      /\ \A m \in p + 1 .. n - 1 : slot < low(m)
  OBVIOUS
<1>4. lhs \in 0 .. p /\ rhs \in p .. n
  OBVIOUS
<1> HIDE DEF n, low, up
\* The place between: it is one of the table, and on which side of p the slot says.
<1>5. ASSUME NEW l \in 0 .. n - 1, NEW r \in 0 .. n
      PROVE  LET m == (l + r) \div 2
             IN  /\ m \in 0 .. n - 1 /\ l + r - 1 <= 2 * m /\ 2 * m <= l + r
                 /\ low(m) \in Nat /\ up(m) \in Nat
                 /\ m = p => low(m) <= slot /\ slot <= up(m)
                 /\ m < p => low(m) <= slot /\ ~(slot <= up(m)) /\ m + 1 \in 0 .. n - 1
                 /\ m > p => low(m) > slot /\ slot <= up(m) /\ m - 1 \in 0 .. n
  <2> DEFINE m == (l + r) \div 2
  <2>1. m \in 0 .. n - 1 /\ l + r - 1 <= 2 * m /\ 2 * m <= l + r
    BY <1>2
  <2> HIDE DEF m
  <2>2. low(m) \in Nat /\ up(m) \in Nat /\ (slot <= up(m) <=> m >= p)
    BY <1>3, <2>1
  <2>3. m \in Nat /\ slot \in Nat
    BY <1>2, <2>1
  <2>4. m <= p => low(m) <= slot
    <3>1. ASSUME m <= p PROVE m \in 0 .. p
      BY <1>2, <2>1, <3>1
    <3> QED BY <1>3, <3>1
  <2>5. m > p => slot < low(m)
    <3>1. ASSUME m > p PROVE m \in p + 1 .. n - 1
      BY <1>2, <2>1, <3>1
    <3> QED BY <1>3, <3>1
  <2>6. /\ m < p => m + 1 \in 0 .. n - 1
        /\ m > p => m - 1 \in 0 .. n
    BY <1>2, <2>1
  <2>7. /\ m = p => low(m) <= slot /\ slot <= up(m)
        /\ m < p => low(m) <= slot /\ ~(slot <= up(m))
        /\ m > p => low(m) > slot /\ slot <= up(m)
    BY <1>2, <2>2, <2>3, <2>4, <2>5
  <2> QED BY <2>1, <2>2, <2>6, <2>7 DEF m
\* A step of the search, on any function.
<1>6. ASSUME NEW f, NEW l \in 0 .. n - 1, NEW r \in 0 .. n
      PROVE  LET m == (l + r) \div 2
             IN  /\ m = p => step(f, <<l, r>>) = p
                 /\ m < p => step(f, <<l, r>>) = f[<<m + 1, r>>] /\ m + 1 \in 0 .. n - 1
                 /\ m > p => step(f, <<l, r>>) = f[<<l, m - 1>>] /\ m - 1 \in 0 .. n
  <2> DEFINE m == (l + r) \div 2
  <2>1. /\ m \in 0 .. n - 1 /\ low(m) \in Nat /\ up(m) \in Nat
        /\ m = p => low(m) <= slot /\ slot <= up(m)
        /\ m < p => low(m) <= slot /\ ~(slot <= up(m)) /\ m + 1 \in 0 .. n - 1
        /\ m > p => low(m) > slot /\ slot <= up(m) /\ m - 1 \in 0 .. n
    BY <1>5
  <2>2. step(f, <<l, r>>) = CASE low(m) <= slot /\ slot <= up(m) -> m
                          [] low(m) > slot -> f[<<l, m - 1>>]
                          [] OTHER -> f[<<m + 1, r>>]
    OBVIOUS
  <2> HIDE DEF m, step
  <2>3. m = p => step(f, <<l, r>>) = p
    BY <2>1, <2>2
  <2>4. m < p => step(f, <<l, r>>) = f[<<m + 1, r>>]
    BY <1>2, <2>1, <2>2
  <2>5. m > p => step(f, <<l, r>>) = f[<<l, m - 1>>]
    BY <1>2, <2>1, <2>2
  <2> QED BY <2>1, <2>3, <2>4, <2>5 DEF m
<1>7. search = [at \in D |-> step(search, at)]
  <2>1. ASSUME NEW l \in 0 .. n - 1, NEW r \in 0 .. n PROVE step(g, <<l, r>>) = p
    <3> DEFINE m == (l + r) \div 2
    <3>1. /\ m = p => step(g, <<l, r>>) = p
          /\ m < p => step(g, <<l, r>>) = g[<<m + 1, r>>] /\ m + 1 \in 0 .. n - 1
          /\ m > p => step(g, <<l, r>>) = g[<<l, m - 1>>] /\ m - 1 \in 0 .. n
      BY <1>6
    <3>2. m \in 0 .. n - 1
      BY <1>5
    <3> HIDE DEF m, step
    <3>3. m = p \/ m < p \/ m > p
      BY <1>2, <3>2
    <3> QED BY <3>1, <3>3
  <2> HIDE DEF step
  <2>2. \A at \in D : step(g, at) = p
    <3> SUFFICES ASSUME NEW at \in D PROVE step(g, at) = p
      OBVIOUS
    <3>1. at = <<at[1], at[2]>> /\ at[1] \in 0 .. n - 1 /\ at[2] \in 0 .. n
      OBVIOUS
    <3> QED BY <2>1, <3>1
  <2>3. g = [at \in D |-> step(g, at)]
    BY <2>2
  <2> HIDE DEF g
  <2> QED BY <2>3
<1> DEFINE S == {k \in Nat : \A l \in 0 .. p, r \in p .. n : r - l <= k => search[<<l, r>>] = p}
<1> HIDE DEF search
<1>8. ASSUME NEW l \in 0 .. p, NEW r \in p .. n
      PROVE  LET m == (l + r) \div 2
             IN  /\ m \in 0 .. n - 1
                 /\ m = p => search[<<l, r>>] = p
                 /\ m < p => search[<<l, r>>] = search[<<m + 1, r>>] /\ m + 1 \in 0 .. p /\ r - (m + 1) < r - l
                 /\ m > p => search[<<l, r>>] = search[<<l, m - 1>>] /\ m - 1 \in p .. n /\ m - 1 - l < r - l
  <2> DEFINE m == (l + r) \div 2
  <2>1. l \in 0 .. n - 1 /\ r \in 0 .. n
    BY <1>2
  <2>2. search[<<l, r>>] = step(search, <<l, r>>)
    <3> HIDE DEF step
    <3> QED BY <1>7, <2>1
  <2>3. /\ m = p => step(search, <<l, r>>) = p
        /\ m < p => step(search, <<l, r>>) = search[<<m + 1, r>>]
        /\ m > p => step(search, <<l, r>>) = search[<<l, m - 1>>]
    BY <1>6, <2>1
  <2>4. m \in 0 .. n - 1 /\ l + r - 1 <= 2 * m /\ 2 * m <= l + r
    BY <1>5, <2>1
  <2> HIDE DEF m, step
  <2>5. /\ m < p => m + 1 \in 0 .. p /\ r - (m + 1) < r - l
        /\ m > p => m - 1 \in p .. n /\ m - 1 - l < r - l
    BY <1>2, <2>1, <2>4
  <2> QED BY <2>2, <2>3, <2>4, <2>5 DEF m
<1> HIDE DEF step
<1>9. 0 \in S
  <2> SUFFICES ASSUME NEW l \in 0 .. p, NEW r \in p .. n, r - l <= 0 PROVE search[<<l, r>>] = p
    OBVIOUS
  <2>1. (l + r) \div 2 = p
    BY <1>2
  <2> QED BY <1>8, <2>1
<1>10. ASSUME NEW k \in S PROVE k + 1 \in S
  <2> SUFFICES ASSUME NEW l \in 0 .. p, NEW r \in p .. n, r - l <= k + 1 PROVE search[<<l, r>>] = p
    OBVIOUS
  <2>1. k \in Nat /\ \A i \in 0 .. p, j \in p .. n : j - i <= k => search[<<i, j>>] = p
    OBVIOUS
  <2> DEFINE m == (l + r) \div 2
  <2>2. /\ m \in 0 .. n - 1
        /\ m = p => search[<<l, r>>] = p
        /\ m < p => search[<<l, r>>] = search[<<m + 1, r>>] /\ m + 1 \in 0 .. p /\ r - (m + 1) < r - l
        /\ m > p => search[<<l, r>>] = search[<<l, m - 1>>] /\ m - 1 \in p .. n /\ m - 1 - l < r - l
    BY <1>8
  <2> HIDE DEF m
  <2>3. CASE m = p
    BY <2>2, <2>3
  <2>4. CASE m < p
    <3>1. r - (m + 1) <= k
      BY <1>2, <2>1, <2>2, <2>4
    <3> QED BY <2>1, <2>2, <2>4, <3>1
  <2>5. CASE m > p
    <3>1. m - 1 - l <= k
      BY <1>2, <2>1, <2>2, <2>5
    <3> QED BY <2>1, <2>2, <2>5, <3>1
  <2> QED BY <1>2, <2>2, <2>3, <2>4, <2>5
<1>11. S = Nat
  <2>1. S \in SUBSET Nat
    OBVIOUS
  <2> HIDE DEF S
  <2> QED BY <1>9, <1>10, <2>1, SetInduction
<1>12. rhs - lhs \in S
  <2>1. rhs - lhs \in Nat
    BY <1>2, <1>4
  <2> HIDE DEF S
  <2> QED BY <1>11, <2>1
<1>13. search[<<lhs, rhs>>] = p
  BY <1>4, <1>12
<1> QED BY <1>1, <1>13 DEF search

(* The table that is made of a report: one place for each shard, in the order of the    *)
(* slots.                                                                          *)
LEMMA TableOfReply ==
  ASSUME NEW reply \in Replies
  PROVE  LET table == DbNodes(reply)
         IN  /\ Len(table) \in Nat \ {0}
             /\ DOMAIN table = 1 .. Len(table)
             /\ \A i \in DOMAIN table :
                  \E j \in DOMAIN reply : table[i].lower = reply[j].lower /\ table[i].upper = reply[j].upper
             /\ \A j \in DOMAIN reply :
                  \E i \in DOMAIN table : table[i].lower = reply[j].lower /\ table[i].upper = reply[j].upper
             /\ \A i, j \in DOMAIN table : i < j => table[i].lower < table[j].lower
<1> DEFINE S == {shard.lower : shard \in ToSet(reply)}
           lowers == InOrder(S)
           Of(k) == CHOOSE shard \in ToSet(reply) : shard.lower = lowers[k]
           table == DbNodes(reply)
           n == Cardinality(S)
<1>1. /\ Len(reply) \in Nat \ {0} /\ DOMAIN reply = 1 .. Len(reply)
      /\ \A i \in DOMAIN reply :
           reply[i].lower \in Nat /\ reply[i].upper \in Nat /\ reply[i].lower <= reply[i].upper
      /\ \A i, j \in DOMAIN reply :
           i # j => reply[i].upper < reply[j].lower \/ reply[j].upper < reply[i].lower
  BY PipelineAssumption
<1>2. S = {reply[i].lower : i \in 1 .. Len(reply)}
  BY <1>1 DEF ToSet
<1>3. S \in SUBSET Nat /\ S # {} /\ IsFiniteSet(S)
  <2>1. IsFiniteSet(1 .. Len(reply))
    BY <1>1, FS_Interval
  <2>2. IsFiniteSet({reply[i].lower : i \in 1 .. Len(reply)})
    <3> DEFINE f == [i \in 1 .. Len(reply) |-> reply[i].lower]
    <3>1. f \in Surjection(1 .. Len(reply), {reply[i].lower : i \in 1 .. Len(reply)})
      BY DEF Surjection
    <3> QED BY <2>1, <3>1, FS_Surjection
  <2>3. 1 \in 1 .. Len(reply)
    BY <1>1
  <2> HIDE DEF S
  <2> QED BY <1>1, <1>2, <2>2, <2>3
<1>4. /\ ToSet(lowers) = S /\ lowers \in Seq(S)
      /\ DOMAIN lowers = 1 .. n
      /\ \A i, j \in 1 .. n : i < j => lowers[i] < lowers[j]
  <2> HIDE DEF S
  <2> QED BY <1>3, InOrderElements, InOrderAscends
<1>5. n \in Nat \ {0}
  BY <1>3, FS_CardinalityType, FS_EmptySet
<1>6. table = [k \in 1 .. n |-> DbNode(Of(k))]
  BY <1>4 DEF DbNodes
<1> HIDE DEF S, n, table, lowers
<1>7. ASSUME NEW k \in 1 .. n
      PROVE  \E j \in DOMAIN reply : Of(k) = reply[j] /\ reply[j].lower = lowers[k]
  <2>1. lowers[k] \in S
    BY <1>4 DEF ToSet
  <2>2. PICK i \in 1 .. Len(reply) : reply[i].lower = lowers[k]
    BY <1>2, <2>1
  <2>3. reply[i] \in ToSet(reply)
    BY <1>1 DEF ToSet
  <2>4. Of(k) \in ToSet(reply) /\ Of(k).lower = lowers[k]
    BY <2>2, <2>3
  <2> QED BY <2>4 DEF ToSet
<1>8. ASSUME NEW k \in 1 .. n
      PROVE  /\ \E j \in DOMAIN reply : table[k].lower = reply[j].lower /\ table[k].upper = reply[j].upper
             /\ table[k].lower = lowers[k]
  <2>1. PICK j \in DOMAIN reply : Of(k) = reply[j] /\ reply[j].lower = lowers[k]
    BY <1>7
  <2>2. table[k] = DbNode(reply[j])
    BY <1>6, <2>1
  <2> QED BY <2>1, <2>2 DEF DbNode
<1>9. ASSUME NEW j \in DOMAIN reply
      PROVE  \E k \in 1 .. n : table[k].lower = reply[j].lower /\ table[k].upper = reply[j].upper
  <2>1. reply[j].lower \in ToSet(lowers)
    BY <1>1, <1>2, <1>4
  <2>2. PICK k \in 1 .. n : lowers[k] = reply[j].lower
    BY <1>4, <2>1 DEF ToSet
  <2>3. PICK i \in DOMAIN reply : table[k].lower = reply[i].lower /\ table[k].upper = reply[i].upper
    BY <1>8
  <2>4. i = j
    BY <1>1, <1>8, <2>2, <2>3
  <2> QED BY <2>3, <2>4
<1>10. Len(table) = n /\ DOMAIN table = 1 .. n
  BY <1>5, <1>6
<1>11. \A i, j \in 1 .. n : i < j => table[i].lower < table[j].lower
  BY <1>4, <1>8
<1> QED BY <1>5, <1>8, <1>9, <1>10, <1>11 DEF table

(* The shard that a search finds, from the first place to the last, or to the one after  *)
(* it: the one that serves the slot.                                                 *)
LEMMA SearchFinds ==
  ASSUME NEW reply \in Replies, NEW slot \in Nat, NEW served \in DOMAIN reply,
         slot \in reply[served].lower .. reply[served].upper
  PROVE  LET table == DbNodes(reply)
         IN  \A rhs \in {Len(table) - 1, Len(table)} :
               /\ HashSearch(table, slot, 0, rhs) \in 0 .. Len(table) - 1
               /\ Lower(table, HashSearch(table, slot, 0, rhs)) <= slot
               /\ slot <= Upper(table, HashSearch(table, slot, 0, rhs))
<1> DEFINE table == DbNodes(reply)
           n == Len(table)
<1>1. /\ n \in Nat \ {0} /\ DOMAIN table = 1 .. n
      /\ \A i \in 1 .. n :
           \E j \in DOMAIN reply : table[i].lower = reply[j].lower /\ table[i].upper = reply[j].upper
      /\ \A j \in DOMAIN reply :
           \E i \in 1 .. n : table[i].lower = reply[j].lower /\ table[i].upper = reply[j].upper
      /\ \A i, j \in 1 .. n : i < j => table[i].lower < table[j].lower
  <2>1. /\ n \in Nat \ {0} /\ DOMAIN table = 1 .. n
        /\ \A i \in DOMAIN table :
             \E j \in DOMAIN reply : table[i].lower = reply[j].lower /\ table[i].upper = reply[j].upper
        /\ \A j \in DOMAIN reply :
             \E i \in DOMAIN table : table[i].lower = reply[j].lower /\ table[i].upper = reply[j].upper
        /\ \A i, j \in DOMAIN table : i < j => table[i].lower < table[j].lower
    BY TableOfReply
  <2> HIDE DEF table, n
  <2> QED BY <2>1
<1>2. /\ \A i \in DOMAIN reply :
           reply[i].lower \in Nat /\ reply[i].upper \in Nat /\ reply[i].lower <= reply[i].upper
      /\ \A i, j \in DOMAIN reply :
           i # j => reply[i].upper < reply[j].lower \/ reply[j].upper < reply[i].lower
  BY PipelineAssumption
<1>3. SUFFICES ASSUME NEW rhs \in {n - 1, n}
      PROVE  /\ HashSearch(table, slot, 0, rhs) \in 0 .. n - 1
             /\ Lower(table, HashSearch(table, slot, 0, rhs)) <= slot
             /\ slot <= Upper(table, HashSearch(table, slot, 0, rhs))
  OBVIOUS
<1> HIDE DEF table, n
<1>4. PICK k \in 1 .. n : table[k].lower = reply[served].lower /\ table[k].upper = reply[served].upper
  BY <1>1
<1>5. /\ \A i \in 1 .. n : table[i].lower \in Nat /\ table[i].upper \in Nat /\ table[i].lower <= table[i].upper
      /\ \A i, j \in 1 .. n :
           i < j => table[i].upper < table[j].lower
  <2>1. ASSUME NEW i \in 1 .. n
        PROVE  table[i].lower \in Nat /\ table[i].upper \in Nat /\ table[i].lower <= table[i].upper
    BY <1>1, <1>2
  <2>2. ASSUME NEW i \in 1 .. n, NEW j \in 1 .. n, i < j
        PROVE  table[i].upper < table[j].lower
    <3>1. table[i].lower < table[j].lower
      BY <1>1, <2>2
    <3>2. PICK a \in DOMAIN reply : table[i].lower = reply[a].lower /\ table[i].upper = reply[a].upper
      BY <1>1
    <3>3. PICK b \in DOMAIN reply : table[j].lower = reply[b].lower /\ table[j].upper = reply[b].upper
      BY <1>1
    <3>4. a # b
      BY <1>2, <3>1, <3>2, <3>3
    <3>5. reply[a].upper < reply[b].lower \/ reply[b].upper < reply[a].lower
      BY <1>2, <3>4
    <3> QED BY <1>2, <3>1, <3>2, <3>3, <3>5
  <2> QED BY <2>1, <2>2
<1>6. table[k].lower <= slot /\ slot <= table[k].upper
  BY <1>2, <1>4
<1> DEFINE p == k - 1
<1>7. p \in 0 .. n - 1 /\ rhs \in p .. n /\ 0 \in 0 .. p
  BY <1>1
<1>8. /\ \A m \in 0 .. n - 1 : Lower(table, m) \in Nat /\ Upper(table, m) \in Nat
      /\ \A m \in 0 .. p : Lower(table, m) <= slot
      /\ \A m \in 0 .. n - 1 : slot <= Upper(table, m) <=> m >= p
      /\ \A m \in p + 1 .. n - 1 : slot < Lower(table, m)
  <2>1. ASSUME NEW m \in 0 .. n - 1
        PROVE  /\ Lower(table, m) \in Nat /\ Upper(table, m) \in Nat
               /\ m <= p => Lower(table, m) <= slot
               /\ slot <= Upper(table, m) <=> m >= p
               /\ m > p => slot < Lower(table, m)
    <3> DEFINE i == m + 1
    <3>1. /\ i \in 1 .. n /\ (m < p <=> i < k) /\ (m = p <=> i = k) /\ (m > p <=> k < i)
          /\ n \in Nat /\ m \in Nat /\ p \in Int
      <4>1. n \in Nat /\ m \in 0 .. n - 1 /\ k \in 1 .. n
        BY <1>1
      <4> QED BY <4>1
    <3>2. Lower(table, m) = table[i].lower /\ Upper(table, m) = table[i].upper
      BY DEF Lower, Upper, At
    <3> HIDE DEF i, p
    <3>3. table[i].lower \in Nat /\ table[i].upper \in Nat /\ table[i].lower <= table[i].upper
      BY <1>5, <3>1
    <3>4. /\ i < k => table[i].upper < table[k].lower
          /\ k < i => table[k].upper < table[i].lower
      BY <1>5, <3>1
    <3>5. table[k].lower \in Nat /\ table[k].upper \in Nat
      BY <1>5
    <3>6. m < p \/ m = p \/ m > p
      BY <3>1
    <3> QED BY <1>6, <3>1, <3>2, <3>3, <3>4, <3>5, <3>6
  <2>2. \A m \in 0 .. p : m \in 0 .. n - 1 /\ m <= p
    BY <1>7
  <2>3. \A m \in p + 1 .. n - 1 : m \in 0 .. n - 1 /\ m > p
    BY <1>7
  <2> HIDE DEF p
  <2> QED BY <2>1, <2>2, <2>3
<1>9. HashSearch(table, slot, 0, rhs) = p
  <2> HIDE DEF p
  <2>1. n \in Nat
    BY <1>1
  <2> QED BY <1>7, <1>8, <2>1, SearchEnds DEF n
<1>10. Lower(table, p) <= slot /\ slot <= Upper(table, p)
  BY <1>6 DEF Lower, Upper, At
<1> QED BY <1>7, <1>9, <1>10

-----------------------------------------------------------------------------
(* The pool of threads.                                                          *)

(* The table never changes.                                                       *)
LEMMA TableKept == ASSUME [Next]_vars PROVE nodes' = nodes /\ Shards' = Shards
<1>1. nodes' = nodes
  BY DEF Next, vars, Caller, Call, SkipShard, SubmitShard, EndSpin, Reorder, Return, Worker,
         PerformJob, Answered, StoreReplies, Storing, Unlock, ConnectionLost, Destroy, Finished
<1> QED BY <1>1 DEF Shards

(* The shards are finitely many.                                                  *)
LEMMA ShardsFinite ==
  ASSUME TableServes
  PROVE  IsFiniteSet(Shards) /\ Cardinality(Shards) = Len(nodes)
<1>1. 0 \in Int /\ Len(nodes) - 1 \in Int
      /\ (IF 0 > Len(nodes) - 1 THEN 0 ELSE Len(nodes) - 1 - 0 + 1) = Len(nodes)
  BY DEF TableServes
<1> QED BY <1>1, FS_Interval DEF Shards

(* A job is known by its caller and its shard, and NoJob is none.                    *)
LEMMA JobFacts ==
  ASSUME TableServes
  PROVE  /\ NoJob \notin Job
         /\ \A j \in Job : j.caller \in Callers /\ j.shard \in Shards /\ j = JobOf(j.caller, j.shard)
         /\ \A c \in Callers, s \in Shards : JobOf(c, s) \in Job
         /\ \A c, d \in Callers, s, t \in Shards : JobOf(c, s) = JobOf(d, t) <=> c = d /\ s = t
<1>1. Shards \subseteq Nat
  BY DEF TableServes, Shards
<1>2. NoJob \notin Job
  BY <1>1, PipelineAssumption DEF Job
<1> QED BY <1>2 DEF Job, JobOf

(* What the pool has, when nobody submits, stores or ends a job.                     *)
PoolKept ==
  /\ \A x \in Job : (ToBeStored(x)' <=> ToBeStored(x)) /\ (InPool(x)' => InPool(x))
  /\ JobInOnePlace'

LEMMA PoolUnchanged ==
  ASSUME JobInOnePlace, UNCHANGED <<jobs, job, worker, results_mutex>>,
         \A w \in Workers : attempt[w] = 0 => attempt'[w] = 0
  PROVE  PoolKept
BY DEF JobInOnePlace, PoolKept, ToBeStored, InPool, HoldsMutex

LEMMA TakeKeeps ==
  ASSUME TypeOK, TableServes, JobInOnePlace, NEW w \in Workers, Take(w),
         results_mutex' = results_mutex, attempt' = attempt
  PROVE  PoolKept /\ jobs' \in Seq(Job) /\ job' \in [Workers -> Job \cup {NoJob}]
<1> DEFINE h == Head(jobs)
<1>1. jobs \in Seq(Job) /\ jobs # <<>> /\ job \in [Workers -> Job \cup {NoJob}]
      /\ worker \in [Workers -> {"wait", "have", "run", "done"}]
  BY DEF TypeOK, Take
<1>2. h \in Job /\ jobs' \in Seq(Job) /\ jobs' = Tail(jobs)
  BY <1>1 DEF Take
<1>3. job' = [job EXCEPT ![w] = h] /\ worker' = [worker EXCEPT ![w] = "have"] /\ worker[w] = "wait"
  BY DEF Take
<1>4. job[w] = NoJob /\ NoJob \notin Job
  BY <1>3, JobFacts DEF JobInOnePlace
<1>5. /\ ToSet(jobs) = {h} \cup ToSet(jobs')
      /\ IsInjective(jobs') /\ h \notin ToSet(jobs')
  BY <1>1, <1>2, TailElements DEF JobInOnePlace
<1> HIDE DEF h
<1>6. \A v \in Workers : v # w => job'[v] = job[v] /\ worker'[v] = worker[v]
  BY <1>1, <1>3
<1>7. job'[w] = h /\ worker'[w] = "have"
  BY <1>1, <1>3
<1>8. \A v \in Workers : job[v] \notin ToSet(jobs) /\ job[v] # h
  BY <1>5 DEF JobInOnePlace
<1>9. \A c \in Callers : results_mutex[c] # w
  BY <1>3 DEF JobInOnePlace
<1>10. JobInOnePlace'
  BY <1>2, <1>4, <1>5, <1>6, <1>7, <1>8, <1>9 DEF JobInOnePlace
<1>11. ASSUME NEW x \in Job
       PROVE  (ToBeStored(x)' <=> ToBeStored(x)) /\ (InPool(x)' => InPool(x))
  <2>1. InPool(x)' <=> InPool(x)
    BY <1>4, <1>5, <1>6, <1>7 DEF InPool
  <2>2. x.caller \in Callers
    BY JobFacts
  <2>3. HoldsMutex(x)' <=> HoldsMutex(x)
    BY <1>6, <1>9, <2>2 DEF HoldsMutex
  <2> QED BY <2>1, <2>3 DEF ToBeStored
<1> QED BY <1>1, <1>2, <1>3, <1>10, <1>11 DEF PoolKept

LEMMA LeaveOrPerformKeeps ==
  ASSUME TypeOK, TableServes, JobInOnePlace, NEW w \in Workers, Leave(w) \/ Perform(w),
         results_mutex' = results_mutex, \A v \in Workers : v # w => attempt'[v] = attempt[v]
  PROVE  PoolKept
<1>1. jobs' = jobs /\ job' = job
  BY DEF Leave, Perform
<1>2. worker \in [Workers -> {"wait", "have", "run", "done"}]
  BY DEF TypeOK
<1>3. /\ \A v \in Workers : v # w => worker'[v] = worker[v]
      /\ \/ worker'[w] = "done"
         \/ worker[w] = "have" /\ worker'[w] = "run"
  BY <1>2 DEF Leave, Perform
<1>4. \A v \in Workers : /\ worker'[v] = "wait" => job[v] = NoJob
                         /\ worker'[v] \in {"have", "run"} => job[v] # NoJob
  BY <1>3 DEF JobInOnePlace
<1>5. \A c \in Callers : results_mutex[c] # w
  BY DEF JobInOnePlace, Leave, Perform
<1> QED BY <1>1, <1>3, <1>4, <1>5 DEF PoolKept, JobInOnePlace, ToBeStored, InPool, HoldsMutex

LEMMA SubmitAdds ==
  ASSUME TypeOK, TableServes, JobInOnePlace, NEW j \in Job, ~InPool(j), Submit(j),
         results_mutex' = results_mutex, attempt' = attempt
  PROVE  /\ jobs' \in Seq(Job)
         /\ \A x \in Job : /\ ToBeStored(x)' <=> ToBeStored(x) \/ x = j
                           /\ InPool(x)' <=> InPool(x) \/ x = j
         /\ JobInOnePlace'
<1>1. jobs \in Seq(Job) /\ jobs' = Append(jobs, j) /\ job' = job /\ worker' = worker
  BY DEF TypeOK, Submit
<1>2. /\ jobs' \in Seq(Job)
      /\ ToSet(jobs') = ToSet(jobs) \cup {j}
      /\ IsInjective(jobs')
  BY <1>1, AppendElements DEF JobInOnePlace, InPool
<1>3. \A x \in Job : /\ ToBeStored(x)' <=> ToBeStored(x) \/ x = j
                     /\ InPool(x)' <=> InPool(x) \/ x = j
  BY <1>1, <1>2 DEF ToBeStored, InPool, HoldsMutex
<1>4. \A w \in Workers : job[w] \notin ToSet(jobs')
  BY <1>2 DEF JobInOnePlace, InPool
<1> QED BY <1>1, <1>2, <1>3, <1>4 DEF JobInOnePlace

LEMMA UnlockRemoves ==
  ASSUME TypeOK, TableServes, JobInOnePlace, NEW w \in Workers, Unlock(w)
  PROVE  /\ job' \in [Workers -> Job \cup {NoJob}]
         /\ results_mutex' \in [Callers -> Workers \cup {NoWorker}]
         /\ PoolKept
<1> DEFINE c == job[w].caller
<1>1. /\ job \in [Workers -> Job \cup {NoJob}] /\ jobs \in Seq(Job) /\ jobs' = jobs
      /\ worker \in [Workers -> {"wait", "have", "run", "done"}]
      /\ results_mutex \in [Callers -> Workers \cup {NoWorker}] /\ attempt' = attempt
      /\ job' = [job EXCEPT ![w] = NoJob] /\ worker' = [worker EXCEPT ![w] = "wait"]
      /\ worker[w] = "run" /\ results_mutex[c] = w
      /\ results_mutex' = [results_mutex EXCEPT ![c] = NoWorker]
  BY DEF TypeOK, Unlock, JobDone
<1>2. job[w] \in Job /\ NoJob \notin Job /\ job[w] # NoJob /\ c \in Callers
  BY <1>1, JobFacts DEF JobInOnePlace
<1> HIDE DEF c
<1>3. /\ job'[w] = NoJob /\ worker'[w] = "wait"
      /\ \A v \in Workers : v # w => job'[v] = job[v] /\ worker'[v] = worker[v]
      /\ results_mutex'[c] = NoWorker /\ NoWorker \notin Workers
      /\ \A d \in Callers : d # c => results_mutex'[d] = results_mutex[d]
  BY <1>1, <1>2, PipelineAssumption
<1>4. NoJob \notin ToSet(jobs)
  BY <1>1, <1>2, ElementPositions
<1>5. \A d \in Callers : d # c => results_mutex[d] # w
  BY DEF JobInOnePlace, c
<1>6. JobInOnePlace'
  <2>1. ASSUME NEW d \in Callers, NEW v \in Workers, results_mutex'[d] = v
        PROVE  worker'[v] = "run" /\ attempt'[v] = 0 /\ job'[v].caller = d
    <3>1. d # c /\ results_mutex[d] = v /\ v # w
      BY <1>3, <1>5, <2>1
    <3> QED BY <1>1, <1>3, <3>1 DEF JobInOnePlace
  <2> QED BY <1>1, <1>3, <1>4, <2>1 DEF JobInOnePlace
<1>7. ASSUME NEW x \in Job
      PROVE  (ToBeStored(x)' <=> ToBeStored(x)) /\ (InPool(x)' => InPool(x))
  <2>1. x.caller \in Callers
    BY JobFacts
  <2>2. CASE x = job[w]
    <3>1. HoldsMutex(x)
      BY <1>1, <2>2 DEF HoldsMutex, c
    <3>2. ~InPool(x)'
      BY <1>1, <1>2, <1>3, <2>2 DEF InPool, JobInOnePlace
    <3> QED BY <3>1, <3>2 DEF ToBeStored
  <2>3. CASE x # job[w]
    <3>1. InPool(x)' <=> InPool(x)
      BY <1>1, <1>2, <1>3, <2>3 DEF InPool
    <3>2. HoldsMutex(x)' <=> HoldsMutex(x)
      BY <1>1, <1>2, <1>3, <1>5, <2>1, <2>3 DEF HoldsMutex
    <3> QED BY <3>1, <3>2 DEF ToBeStored
  <2> QED BY <2>2, <2>3
<1> QED BY <1>1, <1>6, <1>7 DEF PoolKept

(* A worker stores the results of its job and counts it.                             *)
LEMMA StoringRemoves ==
  ASSUME TypeOK, TableServes, JobInOnePlace, NEW w \in Workers, StoreReplies(w),
         job[w] \in Job, job[w].caller \in Callers
  PROVE  /\ results_mutex' \in [Callers -> Workers \cup {NoWorker}]
         /\ \A x \in Job : /\ ToBeStored(x)' <=> ToBeStored(x) /\ x # job[w]
                           /\ InPool(x)' => InPool(x)
         /\ JobInOnePlace'
<1> DEFINE c == job[w].caller
<1>1. /\ jobs' = jobs /\ job' = job /\ worker' = worker /\ attempt' = attempt
      /\ worker[w] = "run" /\ attempt[w] = 0
      /\ results_mutex \in [Callers -> Workers \cup {NoWorker}]
      /\ results_mutex[c] = NoWorker /\ results_mutex' = [results_mutex EXCEPT ![c] = w]
  BY DEF TypeOK, StoreReplies, Storing, poolVars
<1> HIDE DEF c
<1>2. /\ results_mutex'[c] = w /\ NoWorker \notin Workers /\ c \in Callers
      /\ \A d \in Callers : d # c => results_mutex'[d] = results_mutex[d]
  BY <1>1, PipelineAssumption DEF c
<1>3. JobInOnePlace'
  BY <1>1, <1>2 DEF JobInOnePlace, c
<1>4. ASSUME NEW x \in Job
      PROVE  (ToBeStored(x)' <=> ToBeStored(x) /\ x # job[w]) /\ (InPool(x)' => InPool(x))
  <2>1. InPool(x)' <=> InPool(x)
    BY <1>1 DEF InPool
  <2>2. x.caller \in Callers
    BY JobFacts
  <2>3. HoldsMutex(x)' <=> HoldsMutex(x) \/ x = job[w]
    BY <1>1, <1>2, <2>2 DEF HoldsMutex, c
  <2> QED BY <2>1, <2>3 DEF ToBeStored
<1> QED BY <1>1, <1>3, <1>4

-----------------------------------------------------------------------------
(* The callers.                                                                  *)
Books(c) == Counted(c) /\ Replied(c) /\ Fixed(c)

CallerKept(c) ==
  /\ call'[c] = call[c] /\ next'[c] = next[c] /\ count'[c] = count[c]
  /\ success'[c] = success[c] /\ order'[c] = order[c] /\ replies'[c] = replies[c]

LEMMA PendingKept ==
  ASSUME TableServes, nodes' = nodes, PoolKept, NEW c \in Callers
  PROVE  Pending(c)' = Pending(c) /\ Taken(c)' \subseteq Taken(c)
BY JobFacts DEF Pending, Taken, PoolKept, Shards

LEMMA BooksKept ==
  ASSUME NEW c \in Callers, Books(c), CallerKept(c), nodes' = nodes,
         Pending(c)' = Pending(c) /\ Taken(c)' \subseteq Taken(c)
  PROVE  Books(c)'
<1>1. Shards' = Shards /\ \A k \in DOMAIN Commands[c] : Shard(c, k)' = Shard(c, k)
  BY DEF Shards, Shard
<1>2. Passed(c)' = Passed(c) /\ Over(c)' = Over(c)
  BY <1>1 DEF Passed, Over, CallerKept
<1>3. Counted(c)'
  BY <1>1, <1>2 DEF Books, Counted, CallerKept
<1>4. Replied(c)'
  BY <1>1 DEF Books, Replied, CallerKept
<1>5. Fixed(c)'
  BY DEF Books, Fixed, CallerKept
<1> QED BY <1>3, <1>4, <1>5 DEF Books

LEMMA OverFinite ==
  ASSUME TableServes, NEW c \in Callers, Counted(c)
  PROVE  Over(c) \in SUBSET Shards /\ IsFiniteSet(Over(c))
<1>1. IsFiniteSet(Shards)
  BY ShardsFinite
<1>2. call[c] = "submit" => Passed(c) \subseteq Shards
  BY DEF Counted, Passed, Shards, TableServes
<1>3. Over(c) \in SUBSET Shards
  BY <1>2 DEF Over, Passed
<1> QED BY <1>1, <1>3, FS_Subset

(* A call whose jobs are all counted has none in the pool.                          *)
LEMMA CountedIsOver ==
  ASSUME TableServes, NEW c \in Callers, Counted(c), count[c] = Len(nodes)
  PROVE  Pending(c) = {}
<1>1. IsFiniteSet(Shards) /\ Cardinality(Shards) = Len(nodes)
  BY ShardsFinite
<1>2. Over(c) \in SUBSET Shards
  BY OverFinite
<1>3. Over(c) = Shards
  BY <1>1, <1>2, FS_Subset DEF Counted
<1> QED BY <1>3 DEF Over, Pending

(* While a job of a call is in the pool, the call runs.                              *)
LEMMA PendingIsCalling ==
  ASSUME TableServes, NEW c \in Callers, Counted(c), Pending(c) # {},
         call[c] \in {"before", "submit", "spin", "reorder", "returned", "threw"}
  PROVE  call[c] \in {"submit", "spin"}
<1>1. call[c] \notin {"reorder", "returned", "threw"}
  BY CountedIsOver DEF Counted
<1>2. call[c] # "before"
  BY DEF Counted, Passed, Pending, Taken, ToBeStored
<1> QED BY <1>1, <1>2

(* A caller comes to the next shard, or has passed all of them.                       *)
LEMMA NextShardPasses ==
  ASSUME TypeOK, TableServes, NEW c \in Callers, Counted(c), call[c] = "submit",
         NextShard(c), nodes' = nodes
  PROVE  /\ next[c] \in Shards \ Passed(c)
         /\ Passed(c)' = Passed(c) \cup {next[c]}
         /\ call'[c] \in {"submit", "spin"} /\ (call'[c] = "submit" => next'[c] \in Shards)
         /\ call' \in [Callers -> {"before", "submit", "spin", "reorder", "returned", "threw"}]
         /\ next' \in [Callers -> Nat]
         /\ \A d \in Callers : d # c => call'[d] = call[d] /\ next'[d] = next[d]
<1> DEFINE s == next[c]
           n == Len(nodes)
<1>1. /\ n \in Nat \ {0} /\ s \in 0 .. n - 1 /\ Shards = 0 .. n - 1 /\ Shards' = Shards
      /\ Passed(c) = 0 .. s - 1
  BY DEF TableServes, Counted, Shards, Passed
<1>2. /\ call \in [Callers -> {"before", "submit", "spin", "reorder", "returned", "threw"}]
      /\ next \in [Callers -> Nat]
  BY DEF TypeOK
<1>3. /\ next' = [next EXCEPT ![c] = IF s + 1 < n THEN s + 1 ELSE 0]
      /\ call' = [call EXCEPT ![c] = IF s + 1 < n THEN "submit" ELSE "spin"]
  BY DEF NextShard
<1> HIDE DEF s, n
<1>4. /\ call' \in [Callers -> {"before", "submit", "spin", "reorder", "returned", "threw"}]
      /\ next' \in [Callers -> Nat]
      /\ \A d \in Callers : d # c => call'[d] = call[d] /\ next'[d] = next[d]
  BY <1>1, <1>2, <1>3
<1>5. CASE s + 1 < n
  <2>1. call'[c] = "submit" /\ next'[c] = s + 1
    BY <1>2, <1>3, <1>5
  <2>2. Passed(c)' = 0 .. s
    BY <1>1, <2>1 DEF Passed
  <2> QED BY <1>1, <1>4, <1>5, <2>1, <2>2 DEF s
<1>6. CASE ~(s + 1 < n)
  <2>1. call'[c] = "spin"
    BY <1>2, <1>3, <1>6
  <2>2. Passed(c)' = 0 .. n - 1 /\ s = n - 1
    BY <1>1, <1>6, <2>1 DEF Passed
  <2> QED BY <1>1, <1>4, <1>6, <2>1, <2>2 DEF s
<1> QED BY <1>5, <1>6

LEMMA AllBooks == PassedIsCounted /\ RepliesOfShards /\ PlacesAreFixed <=> \A c \in Callers : Books(c)
BY DEF PassedIsCounted, RepliesOfShards, PlacesAreFixed, Books

LEMMA TableServesKept ==
  ASSUME TableServes, nodes' = nodes
  PROVE  TableServes' /\ Shards' = Shards
BY DEF TableServes, Shards, Shard

(* Where only one caller has changed, it is enough to look at it.                     *)
LEMMA OneCaller ==
  ASSUME PipelineInv, nodes' = nodes, NEW c \in Callers, Books(c)',
         \A d \in Callers : d # c => /\ CallerKept(d)
                                    /\ Pending(d)' = Pending(d) /\ Taken(d)' \subseteq Taken(d)
  PROVE  (PassedIsCounted /\ RepliesOfShards /\ PlacesAreFixed)'
<1>1. \A d \in Callers : Books(d)
  BY AllBooks DEF PipelineInv
<1>2. ASSUME NEW d \in Callers PROVE Books(d)'
  <2>1. CASE d = c
    BY <2>1
  <2>2. CASE d # c
    BY <1>1, <2>2, BooksKept
  <2> QED BY <2>1, <2>2
<1> QED BY <1>2 DEF PassedIsCounted, RepliesOfShards, PlacesAreFixed, Books

(* Where no caller has changed, their books are kept.                                *)
LEMMA NoCaller ==
  ASSUME PipelineInv, nodes' = nodes, PoolKept,
         UNCHANGED <<call, next, count, success, order, replies>>
  PROVE  (PassedIsCounted /\ RepliesOfShards /\ PlacesAreFixed)'
<1>1. \A d \in Callers : Books(d)
  BY AllBooks DEF PipelineInv
<1>2. ASSUME NEW d \in Callers PROVE Books(d)'
  <2>1. CallerKept(d) /\ Pending(d)' = Pending(d) /\ Taken(d)' \subseteq Taken(d)
    BY PendingKept DEF CallerKept, PipelineInv
  <2> QED BY <1>1, <2>1, BooksKept
<1> QED BY <1>2 DEF PassedIsCounted, RepliesOfShards, PlacesAreFixed, Books

-----------------------------------------------------------------------------
(* Each action of a caller.                                                       *)
LEMMA CallKeeps ==
  ASSUME PipelineInv, NEW c \in Callers, Call(c)
  PROVE  PipelineInv'
<1>1. /\ call[c] = "before" /\ ~shuttingDown /\ call' = [call EXCEPT ![c] = "submit"]
      /\ UNCHANGED <<poolVars, nodes, next, count, success, order, replies, attempt, executed, lost>>
      /\ UNCHANGED <<jobs, job, worker, results_mutex, shuttingDown>>
  BY DEF Call, poolVars
<1>2. TypeOK /\ TableServes /\ JobInOnePlace /\ Books(c)
  BY AllBooks DEF PipelineInv
<1>3. call' \in [Callers -> {"before", "submit", "spin", "reorder", "returned", "threw"}]
      /\ call'[c] = "submit" /\ \A d \in Callers : d # c => call'[d] = call[d]
  BY <1>1, <1>2 DEF TypeOK
<1>4. PoolKept
  BY <1>1, <1>2, PoolUnchanged
<1>5. TableServes' /\ Shards' = Shards
  BY <1>1, <1>2, TableServesKept
<1>6. \A d \in Callers : Pending(d)' = Pending(d) /\ Taken(d)' \subseteq Taken(d)
  BY <1>1, <1>2, <1>4, PendingKept
<1>7. \A d \in Callers : d # c => CallerKept(d)
  BY <1>1, <1>3 DEF CallerKept
<1>8. Passed(c) = {} /\ next[c] = 0
  BY <1>1, <1>2 DEF Books, Counted, Passed
<1>9. Passed(c)' = {} /\ Over(c)' = Over(c)
  BY <1>1, <1>3, <1>6, <1>8 DEF Passed, Over
<1>10. 0 \in Shards
  BY <1>2 DEF TableServes, Shards
<1>11. Counted(c)'
  BY <1>1, <1>2, <1>3, <1>5, <1>6, <1>8, <1>9, <1>10 DEF Books, Counted
<1>12. Replied(c)'
  BY <1>1, <1>2, <1>6 DEF Books, Replied, Shard
<1>13. Fixed(c)'
  BY <1>3 DEF Fixed
<1>14. (PassedIsCounted /\ RepliesOfShards /\ PlacesAreFixed)'
  BY <1>1, <1>6, <1>7, <1>11, <1>12, <1>13, OneCaller DEF Books
<1>15. TypeOK'
  BY <1>1, <1>2, <1>3, <1>5 DEF TypeOK, Job
<1>16. ShutsDownIdle'
  BY <1>1 DEF ShutsDownIdle
<1>17. SuccessIsExecuted'
  BY <1>1 DEF PipelineInv, SuccessIsExecuted, Shard
<1> QED BY <1>4, <1>5, <1>14, <1>15, <1>16, <1>17 DEF PipelineInv, PoolKept

LEMMA SkipShardKeeps ==
  ASSUME PipelineInv, NEW c \in Callers, SkipShard(c)
  PROVE  PipelineInv'
<1> DEFINE s == next[c]
<1>1. /\ call[c] = "submit" /\ ShardCmds(c, s) = {} /\ NextShard(c)
      /\ success' = [success EXCEPT ![c] = @ \cup {s}]
      /\ count' = [count EXCEPT ![c] = @ + 1]
      /\ UNCHANGED <<jobs, job, worker, shuttingDown, results_mutex, nodes, order, replies,
                     attempt, executed, lost>>
  BY DEF SkipShard, poolVars
<1>2. TypeOK /\ TableServes /\ JobInOnePlace /\ Books(c)
  BY AllBooks DEF PipelineInv
<1>3. /\ s \in Shards \ Passed(c)
      /\ Passed(c)' = Passed(c) \cup {s}
      /\ call'[c] \in {"submit", "spin"} /\ (call'[c] = "submit" => next'[c] \in Shards)
      /\ call' \in [Callers -> {"before", "submit", "spin", "reorder", "returned", "threw"}]
      /\ next' \in [Callers -> Nat]
      /\ \A d \in Callers : d # c => call'[d] = call[d] /\ next'[d] = next[d]
  BY <1>1, <1>2, NextShardPasses DEF Books
<1>4. PoolKept
  BY <1>1, <1>2, PoolUnchanged
<1>5. TableServes' /\ Shards' = Shards
  BY <1>1, <1>2, TableServesKept
<1>6. \A d \in Callers : Pending(d)' = Pending(d) /\ Taken(d)' \subseteq Taken(d)
  BY <1>1, <1>2, <1>4, PendingKept
<1>7. /\ success' \in [Callers -> SUBSET Shards] /\ count' \in [Callers -> Nat]
      /\ success'[c] = success[c] \cup {s} /\ count'[c] = count[c] + 1
      /\ \A d \in Callers : d # c => success'[d] = success[d] /\ count'[d] = count[d]
  BY <1>1, <1>2, <1>3 DEF TypeOK
<1>8. \A d \in Callers : d # c => CallerKept(d)
  BY <1>1, <1>3, <1>7 DEF CallerKept
<1>9. Counted(c)'
  <2>1. Taken(c) \subseteq Passed(c) /\ success[c] \subseteq Passed(c)
        /\ Pending(c) \subseteq Taken(c) /\ count[c] = Cardinality(Over(c))
    BY <1>2 DEF Books, Counted, Pending, Taken, ToBeStored
  <2>2. Over(c)' = Over(c) \cup {s} /\ s \notin Over(c)
    BY <1>3, <1>6, <2>1 DEF Over
  <2>3. IsFiniteSet(Over(c))
    BY <1>2, OverFinite DEF Books
  <2>4. count'[c] = Cardinality(Over(c)')
    BY <1>7, <2>1, <2>2, <2>3, FS_AddElement
  <2>5. Taken(c)' \subseteq Passed(c)' /\ success'[c] \subseteq Passed(c)'
    BY <1>3, <1>6, <1>7, <2>1
  <2> QED BY <1>3, <1>5, <2>4, <2>5 DEF Counted
<1>10. Replied(c)'
  <2>1. \A k \in DOMAIN Commands[c] : Shard(c, k) # s
    BY <1>1 DEF ShardCmds, Shard
  <2> QED BY <1>1, <1>2, <1>6, <1>7, <2>1 DEF Books, Replied, Shard
<1>11. Fixed(c)'
  BY <1>3 DEF Fixed
<1>12. (PassedIsCounted /\ RepliesOfShards /\ PlacesAreFixed)'
  BY <1>1, <1>6, <1>8, <1>9, <1>10, <1>11, OneCaller DEF Books
<1>13. TypeOK'
  BY <1>1, <1>2, <1>3, <1>5, <1>7 DEF TypeOK, Job
<1>14. ShutsDownIdle'
  BY <1>1 DEF ShutsDownIdle, PipelineInv
<1>15. SuccessIsExecuted'
  <2>1. \A k \in DOMAIN Commands[c] : Shard(c, k) # s
    BY <1>1 DEF ShardCmds, Shard
  <2> QED BY <1>1, <1>7, <2>1 DEF PipelineInv, SuccessIsExecuted, Shard
<1> QED BY <1>4, <1>5, <1>12, <1>13, <1>14, <1>15 DEF PipelineInv, PoolKept

LEMMA SubmitShardKeeps ==
  ASSUME PipelineInv, NEW c \in Callers, SubmitShard(c)
  PROVE  PipelineInv'
<1> DEFINE s == next[c]
           j == JobOf(c, s)
<1>1. /\ call[c] = "submit" /\ NextShard(c) /\ Submit(j)
      /\ UNCHANGED <<job, worker, shuttingDown, results_mutex, nodes, count, success, order,
                     replies, attempt,
                    executed, lost>>
  BY DEF SubmitShard, poolVars, Submit, JobOf
<1>2. TypeOK /\ TableServes /\ JobInOnePlace /\ Books(c)
  BY AllBooks DEF PipelineInv
<1>3. /\ s \in Shards \ Passed(c)
      /\ Passed(c)' = Passed(c) \cup {s}
      /\ call'[c] \in {"submit", "spin"} /\ (call'[c] = "submit" => next'[c] \in Shards)
      /\ call' \in [Callers -> {"before", "submit", "spin", "reorder", "returned", "threw"}]
      /\ next' \in [Callers -> Nat]
      /\ \A d \in Callers : d # c => call'[d] = call[d] /\ next'[d] = next[d]
  BY <1>1, <1>2, NextShardPasses DEF Books
<1> HIDE DEF s
<1>4. j \in Job /\ s \notin Taken(c) /\ s \notin success[c]
  BY <1>2, <1>3, JobFacts DEF Books, Counted
<1>5. ~InPool(j)
  BY <1>2, <1>3 DEF Taken, Books, Counted
<1>6. /\ jobs' \in Seq(Job)
      /\ \A x \in Job : /\ ToBeStored(x)' <=> ToBeStored(x) \/ x = j
                        /\ InPool(x)' <=> InPool(x) \/ x = j
      /\ JobInOnePlace'
  <2> HIDE DEF j
  <2> QED BY <1>1, <1>2, <1>4, <1>5, SubmitAdds
<1>7. TableServes' /\ Shards' = Shards
  BY <1>1, <1>2, TableServesKept
<1>8. \A d \in Callers : d # c => Pending(d)' = Pending(d) /\ Taken(d)' \subseteq Taken(d)
  BY <1>2, <1>3, <1>6, <1>7, JobFacts DEF Pending, Taken
<1>9. Pending(c)' = Pending(c) \cup {s} /\ Taken(c)' = Taken(c) \cup {s}
  BY <1>2, <1>3, <1>6, <1>7, JobFacts DEF Pending, Taken
<1>10. \A d \in Callers : d # c => CallerKept(d)
  BY <1>1, <1>3 DEF CallerKept
<1>11. Counted(c)'
  <2>1. Over(c)' = Over(c)
    BY <1>3, <1>9 DEF Over
  <2> QED BY <1>1, <1>2, <1>3, <1>7, <1>9, <2>1 DEF Books, Counted
<1>12. Replied(c)'
  BY <1>1, <1>2, <1>4, <1>9 DEF Books, Replied, Shard
<1>13. Fixed(c)'
  BY <1>3 DEF Fixed
<1>14. (PassedIsCounted /\ RepliesOfShards /\ PlacesAreFixed)'
  BY <1>1, <1>8, <1>10, <1>11, <1>12, <1>13, OneCaller DEF Books
<1>15. TypeOK'
  BY <1>1, <1>2, <1>3, <1>6, <1>7 DEF TypeOK, Job
<1>16. ShutsDownIdle'
  BY <1>1 DEF ShutsDownIdle, PipelineInv, Submit
<1>17. SuccessIsExecuted'
  BY <1>1 DEF PipelineInv, SuccessIsExecuted, Shard
<1> QED BY <1>6, <1>7, <1>14, <1>15, <1>16, <1>17 DEF PipelineInv

LEMMA EndSpinKeeps ==
  ASSUME PipelineInv, NEW c \in Callers, EndSpin(c)
  PROVE  PipelineInv'
<1>1. /\ call[c] = "spin" /\ count[c] = Len(nodes)
      /\ call' = [call EXCEPT ![c] = IF success[c] = Shards THEN "reorder" ELSE "threw"]
      /\ next' = [next EXCEPT ![c] = 1]
      /\ UNCHANGED <<jobs, job, worker, shuttingDown, results_mutex, nodes, count, success, order,
                     replies,
                    attempt, executed, lost>>
  BY DEF EndSpin, poolVars
<1>2. TypeOK /\ TableServes /\ JobInOnePlace /\ Books(c)
  BY AllBooks DEF PipelineInv
<1>3. /\ call' \in [Callers -> {"before", "submit", "spin", "reorder", "returned", "threw"}]
      /\ call'[c] \in {"reorder", "threw"} /\ (call'[c] = "reorder" => success[c] = Shards)
      /\ next' \in [Callers -> Nat] /\ next'[c] = 1
      /\ \A d \in Callers : d # c => call'[d] = call[d] /\ next'[d] = next[d]
  BY <1>1, <1>2 DEF TypeOK
<1>4. PoolKept
  BY <1>1, <1>2, PoolUnchanged
<1>5. TableServes' /\ Shards' = Shards
  BY <1>1, <1>2, TableServesKept
<1>6. \A d \in Callers : Pending(d)' = Pending(d) /\ Taken(d)' \subseteq Taken(d)
  BY <1>1, <1>2, <1>4, PendingKept
<1>7. \A d \in Callers : d # c => CallerKept(d)
  BY <1>1, <1>3 DEF CallerKept
<1>8. Passed(c) = Shards /\ Passed(c)' = Shards
  BY <1>1, <1>3, <1>5 DEF Passed
<1>9. Over(c)' = Over(c)
  BY <1>6, <1>8 DEF Over
<1>10. Counted(c)'
  BY <1>1, <1>2, <1>3, <1>5, <1>6, <1>8, <1>9 DEF Books, Counted
<1>11. Replied(c)'
  BY <1>1, <1>2, <1>6 DEF Books, Replied, Shard
<1>12. Fixed(c)'
  <2>1. Len(order[c]) \in Nat
    BY <1>2 DEF TypeOK
  <2> QED BY <1>1, <1>3, <2>1 DEF Fixed
<1>13. (PassedIsCounted /\ RepliesOfShards /\ PlacesAreFixed)'
  BY <1>1, <1>6, <1>7, <1>10, <1>11, <1>12, OneCaller DEF Books
<1>14. TypeOK'
  BY <1>1, <1>2, <1>3, <1>5 DEF TypeOK, Job
<1>15. ShutsDownIdle'
  BY <1>1, <1>3 DEF ShutsDownIdle, PipelineInv
<1>16. SuccessIsExecuted'
  BY <1>1 DEF PipelineInv, SuccessIsExecuted, Shard
<1> QED BY <1>4, <1>5, <1>13, <1>14, <1>15, <1>16 DEF PipelineInv, PoolKept

(* A call that puts its replies in order has one of each command.                     *)
LEMMA AllReplied ==
  ASSUME PipelineInv, NEW c \in Callers, call[c] \in {"reorder", "returned"}
  PROVE  /\ ToSet(order[c]) = 1 .. Len(Commands[c]) /\ Len(order[c]) = Len(Commands[c])
         /\ DOMAIN Commands[c] = 1 .. Len(Commands[c]) /\ Len(Commands[c]) \in Nat
<1>1. TypeOK /\ TableServes /\ Books(c)
  BY AllBooks DEF PipelineInv
<1>2. Pending(c) = {} /\ success[c] = Shards
  BY <1>1, CountedIsOver DEF Books, Counted
<1>3. DOMAIN Commands[c] = 1 .. Len(Commands[c]) /\ Len(Commands[c]) \in Nat
  BY PipelineAssumption
<1>4. ToSet(order[c]) = 1 .. Len(Commands[c])
  BY <1>1, <1>2, <1>3 DEF Books, Replied, TableServes
<1>5. order[c] \in Seq(Nat) /\ IsInjective(order[c])
  BY <1>1 DEF TypeOK, Books, Replied
<1> QED BY <1>3, <1>4, <1>5, LengthIsCardinality

LEMMA ReorderKeeps ==
  ASSUME PipelineInv, NEW c \in Callers, Reorder(c)
  PROVE  PipelineInv'
<1> DEFINE i == next[c]
           q == order[c]
           j == q[i]
<1>1. /\ call[c] = "reorder" /\ i <= Len(q)
      /\ UNCHANGED <<jobs, job, worker, shuttingDown, results_mutex, nodes, call, count, success,
                    attempt, executed, lost>>
  BY DEF Reorder, poolVars
<1>2. TypeOK /\ TableServes /\ JobInOnePlace /\ Books(c)
  BY AllBooks DEF PipelineInv
<1>3. /\ q \in Seq(Nat) /\ Len(q) \in Nat /\ i \in 1 .. Len(q) /\ j \in 1 .. Len(q)
      /\ \A k \in 1 .. i - 1 : q[k] = k
      /\ \A k, l \in 1 .. Len(q) : q[k] = q[l] => k = l
      /\ IsInjective(q) /\ replies[c] = q
  <2>1. q \in Seq(Nat) /\ i \in 1 .. Len(q) + 1 /\ Len(q) \in Nat
    BY <1>1, <1>2 DEF TypeOK, Books, Fixed
  <2>2. i \in 1 .. Len(q)
    BY <1>1, <2>1
  <2>3. IsInjective(q) /\ replies[c] = q /\ \A k \in 1 .. i - 1 : q[k] = k
    BY <1>1, <1>2 DEF Books, Replied, Fixed
  <2>4. j \in ToSet(q) /\ \A k, l \in 1 .. Len(q) : q[k] = q[l] => k = l
    BY <2>1, <2>2, <2>3, ElementPositions
  <2> QED BY <1>1, <2>1, <2>2, <2>3, <2>4, AllReplied
<1>4. order \in [Callers -> Seq(Nat)] /\ replies \in [Callers -> Seq(Nat)] /\ next \in [Callers -> Nat]
  BY <1>2 DEF TypeOK
<1>5. PoolKept
  BY <1>1, <1>2, PoolUnchanged
<1>6. TableServes' /\ Shards' = Shards
  BY <1>1, <1>2, TableServesKept
<1>7. \A d \in Callers : Pending(d)' = Pending(d) /\ Taken(d)' \subseteq Taken(d)
  BY <1>1, <1>2, <1>5, PendingKept
<1>8. \/ /\ j # i /\ next' = next
         /\ replies' = [replies EXCEPT ![c] = Swap(replies[c], i, j)]
         /\ order' = [order EXCEPT ![c] = Swap(q, i, j)]
      \/ /\ j = i /\ next' = [next EXCEPT ![c] = i + 1]
         /\ order' = order /\ replies' = replies
  BY DEF Reorder
<1> HIDE DEF i, q, j
<1>9. /\ Swap(q, i, j) \in Seq(Nat)
      /\ Len(Swap(q, i, j)) = Len(q)
      /\ ToSet(Swap(q, i, j)) = ToSet(q)
      /\ IsInjective(Swap(q, i, j))
  BY <1>3, SwapElements
<1>10. \A k \in 1 .. i - 1 : Swap(q, i, j)[k] = k
  <2> SUFFICES ASSUME NEW k \in 1 .. i - 1 PROVE Swap(q, i, j)[k] = k
    OBVIOUS
  <2>1. k \in 1 .. Len(q) /\ q[k] = k /\ k # i
    <3>1. i \in Nat /\ i <= Len(q) /\ Len(q) \in Nat
      BY <1>3
    <3>2. k \in Nat /\ 1 <= k /\ k < i
      BY <3>1
    <3> QED BY <1>3, <3>1, <3>2
  <2>2. k # j
    BY <1>3, <2>1 DEF j
  <2> QED BY <1>3, <2>1, <2>2 DEF Swap
<1>11. /\ order' \in [Callers -> Seq(Nat)] /\ replies' \in [Callers -> Seq(Nat)]
       /\ next' \in [Callers -> Nat]
       /\ order'[c] = replies'[c] /\ IsInjective(order'[c])
       /\ ToSet(order'[c]) = ToSet(q) /\ Len(order'[c]) = Len(q)
       /\ \A d \in Callers : d # c => /\ order'[d] = order[d] /\ replies'[d] = replies[d]
                                     /\ next'[d] = next[d]
       /\ next'[c] \in 1 .. Len(q) + 1 /\ \A k \in 1 .. next'[c] - 1 : order'[c][k] = k
  <2>1. CASE /\ j # i /\ next' = next
             /\ replies' = [replies EXCEPT ![c] = Swap(replies[c], i, j)]
             /\ order' = [order EXCEPT ![c] = Swap(q, i, j)]
    <3>1. order'[c] = Swap(q, i, j) /\ replies'[c] = Swap(q, i, j) /\ next'[c] = i
      BY <1>3, <1>4, <2>1 DEF i
    <3>2. /\ order' \in [Callers -> Seq(Nat)] /\ replies' \in [Callers -> Seq(Nat)]
          /\ next' \in [Callers -> Nat]
          /\ \A d \in Callers : d # c => /\ order'[d] = order[d] /\ replies'[d] = replies[d]
                                        /\ next'[d] = next[d]
      BY <1>3, <1>4, <1>9, <2>1
    <3> QED BY <1>3, <1>9, <1>10, <3>1, <3>2
  <2>2. CASE /\ j = i /\ next' = [next EXCEPT ![c] = i + 1]
             /\ order' = order /\ replies' = replies
    <3>1. order'[c] = q /\ replies'[c] = q /\ next'[c] = i + 1
      BY <1>3, <1>4, <2>2 DEF q
    <3>2. next' \in [Callers -> Nat] /\ \A d \in Callers : d # c => next'[d] = next[d]
      BY <1>3, <1>4, <2>2
    <3>3. \A k \in 1 .. (i + 1) - 1 : q[k] = k
      BY <1>3, <2>2 DEF j
    <3> QED BY <1>3, <1>4, <2>2, <3>1, <3>2, <3>3
  <2> QED BY <1>8, <2>1, <2>2
<1>12. \A d \in Callers : d # c => CallerKept(d)
  BY <1>1, <1>11 DEF CallerKept
<1>13. Counted(c)'
  <2>1. Passed(c)' = Passed(c) /\ Over(c)' = Over(c)
    BY <1>1, <1>6, <1>7 DEF Passed, Over
  <2> QED BY <1>1, <1>2, <1>6, <1>7, <2>1 DEF Books, Counted
<1>14. Replied(c)'
  BY <1>1, <1>2, <1>7, <1>11 DEF Books, Replied, Shard, q
<1>15. Fixed(c)'
  BY <1>1, <1>11 DEF Fixed
<1>16. (PassedIsCounted /\ RepliesOfShards /\ PlacesAreFixed)'
  BY <1>1, <1>7, <1>12, <1>13, <1>14, <1>15, OneCaller DEF Books
<1>17. TypeOK'
  BY <1>1, <1>2, <1>6, <1>11 DEF TypeOK, Job
<1>18. ShutsDownIdle'
  BY <1>1 DEF ShutsDownIdle, PipelineInv
<1>19. SuccessIsExecuted'
  BY <1>1 DEF PipelineInv, SuccessIsExecuted, Shard
<1> QED BY <1>5, <1>6, <1>16, <1>17, <1>18, <1>19 DEF PipelineInv, PoolKept

LEMMA ReturnKeeps ==
  ASSUME PipelineInv, NEW c \in Callers, Return(c)
  PROVE  PipelineInv'
<1>1. /\ call[c] = "reorder" /\ next[c] > Len(order[c]) /\ call' = [call EXCEPT ![c] = "returned"]
      /\ UNCHANGED <<jobs, job, worker, shuttingDown, results_mutex, nodes, next, count, success,
                     order, replies,
                    attempt, executed, lost>>
  BY DEF Return, poolVars
<1>2. TypeOK /\ TableServes /\ JobInOnePlace /\ Books(c)
  BY AllBooks DEF PipelineInv
<1>3. /\ call' \in [Callers -> {"before", "submit", "spin", "reorder", "returned", "threw"}]
      /\ call'[c] = "returned" /\ \A d \in Callers : d # c => call'[d] = call[d]
  BY <1>1, <1>2 DEF TypeOK
<1>4. PoolKept
  BY <1>1, <1>2, PoolUnchanged
<1>5. TableServes' /\ Shards' = Shards
  BY <1>1, <1>2, TableServesKept
<1>6. \A d \in Callers : Pending(d)' = Pending(d) /\ Taken(d)' \subseteq Taken(d)
  BY <1>1, <1>2, <1>4, PendingKept
<1>7. \A d \in Callers : d # c => CallerKept(d)
  BY <1>1, <1>3 DEF CallerKept
<1>8. Passed(c)' = Passed(c) /\ Over(c)' = Over(c)
  BY <1>1, <1>3, <1>5, <1>6 DEF Passed, Over
<1>9. Counted(c)'
  BY <1>1, <1>2, <1>3, <1>5, <1>6, <1>8 DEF Books, Counted
<1>10. Replied(c)'
  BY <1>1, <1>2, <1>6 DEF Books, Replied, Shard
<1>11. Fixed(c)'
  <2>1. Len(order[c]) \in Nat /\ next[c] = Len(order[c]) + 1
    BY <1>1, <1>2 DEF TypeOK, Books, Fixed
  <2>2. \A i \in 1 .. Len(order[c]) : order[c][i] = i
    BY <1>1, <1>2, <2>1 DEF Books, Fixed
  <2> QED BY <1>1, <1>3, <2>2 DEF Fixed
<1>12. (PassedIsCounted /\ RepliesOfShards /\ PlacesAreFixed)'
  BY <1>1, <1>6, <1>7, <1>9, <1>10, <1>11, OneCaller DEF Books
<1>13. TypeOK'
  BY <1>1, <1>2, <1>3, <1>5 DEF TypeOK, Job
<1>14. ShutsDownIdle'
  BY <1>1, <1>3 DEF ShutsDownIdle, PipelineInv
<1>15. SuccessIsExecuted'
  BY <1>1 DEF PipelineInv, SuccessIsExecuted, Shard
<1> QED BY <1>4, <1>5, <1>12, <1>13, <1>14, <1>15 DEF PipelineInv, PoolKept

-----------------------------------------------------------------------------
(* Each action of a worker.                                                       *)

(* Commands are executed once more, of one caller only.                              *)
LEMMA ExecutesCounts ==
  ASSUME TypeOK, NEW c \in Callers, NEW S, Executes(c, S)
  PROVE  /\ DOMAIN executed' = Callers
         /\ \A d \in Callers : executed'[d] \in [DOMAIN Commands[d] -> Nat]
         /\ \A d \in Callers : d # c => executed'[d] = executed[d]
         /\ \A k \in DOMAIN Commands[c] :
              executed'[c][k] = IF k \in S THEN executed[c][k] + 1 ELSE executed[c][k]
<1> DEFINE f == executed[c]
           g == [k \in DOMAIN f |-> IF k \in S THEN f[k] + 1 ELSE f[k]]
<1>1. /\ DOMAIN executed = Callers /\ f \in [DOMAIN Commands[c] -> Nat]
      /\ \A d \in Callers : executed[d] \in [DOMAIN Commands[d] -> Nat]
  BY DEF TypeOK
<1>2. executed' = [executed EXCEPT ![c] = g]
  BY DEF Executes
<1>3. g \in [DOMAIN Commands[c] -> Nat]
      /\ \A k \in DOMAIN Commands[c] : g[k] = IF k \in S THEN f[k] + 1 ELSE f[k]
  BY <1>1
<1> HIDE DEF g
<1>4. executed'[c] = g /\ DOMAIN executed' = Callers
      /\ \A d \in Callers : d # c => executed'[d] = executed[d]
  BY <1>1, <1>2
<1> QED BY <1>1, <1>3, <1>4

(* The job of a worker that runs is pending until it is stored, and its caller waits.    *)
LEMMA RunningIsPending ==
  ASSUME PipelineInv, NEW w \in Workers, worker[w] = "run",
         attempt[w] > 0 \/ results_mutex[job[w].caller] = NoWorker
  PROVE  /\ job[w] \in Job /\ job[w].caller \in Callers
         /\ job[w].shard \in Pending(job[w].caller)
         /\ job[w] = JobOf(job[w].caller, job[w].shard)
         /\ call[job[w].caller] \in {"submit", "spin"}
<1>1. TypeOK /\ TableServes /\ JobInOnePlace /\ \A c \in Callers : Books(c)
  BY AllBooks DEF PipelineInv
<1>2. job[w] \in Job
  BY <1>1 DEF TypeOK, JobInOnePlace
<1>3. /\ job[w].caller \in Callers /\ job[w].shard \in Shards
      /\ job[w] = JobOf(job[w].caller, job[w].shard)
  BY <1>1, <1>2, JobFacts
<1>4. job[w].shard \in Pending(job[w].caller)
  <2>1. results_mutex[job[w].caller] # w
    BY <1>1, <1>3, PipelineAssumption DEF JobInOnePlace
  <2>2. ~HoldsMutex(job[w])
    BY <1>1, <1>2, <2>1, JobFacts DEF HoldsMutex, JobInOnePlace
  <2> QED BY <1>3, <2>2 DEF Pending, ToBeStored, InPool
<1>5. call[job[w].caller] \in {"before", "submit", "spin", "reorder", "returned", "threw"}
  BY <1>1, <1>3 DEF TypeOK
<1> QED BY <1>1, <1>2, <1>3, <1>4, <1>5, PendingIsCalling DEF Books

(* A worker takes a job, leaves or performs its job; the client is destroyed.          *)
LEMMA PoolMovesKeep ==
  ASSUME PipelineInv,
         \/ /\ \E w \in Workers : Take(w) \/ Leave(w)
            /\ UNCHANGED <<nodes, callVars, attempt, executed, lost>>
         \/ \E w \in Workers : PerformJob(w)
         \/ Destroy
  PROVE  PipelineInv'
<1>1. TypeOK /\ TableServes /\ JobInOnePlace
  BY DEF PipelineInv
<1>2. UNCHANGED <<nodes, call, next, count, success, order, replies, results_mutex, executed, lost>>
  BY DEF callVars, PerformJob, Destroy
<1> DEFINE Moved ==
  /\ PoolKept /\ jobs' \in Seq(Job) /\ job' \in [Workers -> Job \cup {NoJob}]
  /\ worker' \in [Workers -> {"wait", "have", "run", "done"}]
  /\ shuttingDown' \in BOOLEAN /\ attempt' \in [Workers -> Nat]
  /\ ShutsDownIdle'
<1>3. Moved
  <2>1. ASSUME NEW w \in Workers, Take(w), attempt' = attempt
        PROVE  Moved
    BY <1>1, <1>2, <2>1, TakeKeeps DEF TypeOK, Take, ShutsDownIdle, PipelineInv
  <2>2. ASSUME NEW w \in Workers, Leave(w), attempt' = attempt
        PROVE  Moved
    BY <1>1, <1>2, <2>2, LeaveOrPerformKeeps DEF TypeOK, Leave, ShutsDownIdle, PipelineInv
  <2>3. ASSUME NEW w \in Workers, PerformJob(w)
        PROVE  Moved
    BY <1>1, <1>2, <2>3, LeaveOrPerformKeeps
       DEF TypeOK, PerformJob, Perform, ShutsDownIdle, PipelineInv
  <2>4. ASSUME Destroy
        PROVE  Moved
    BY <1>1, <1>2, <2>4, PoolUnchanged DEF TypeOK, Destroy, Shutdown, ShutsDownIdle
  <2>5. \/ (\E w \in Workers : Take(w) \/ Leave(w)) /\ attempt' = attempt
        \/ \E w \in Workers : PerformJob(w)
        \/ Destroy
    BY DEF callVars
  <2> HIDE DEF Moved
  <2> QED BY <2>1, <2>2, <2>3, <2>4, <2>5
<1>4. TableServes' /\ Shards' = Shards
  BY <1>1, <1>2, TableServesKept
<1>5. (PassedIsCounted /\ RepliesOfShards /\ PlacesAreFixed)'
  BY <1>2, <1>3, NoCaller
<1>6. TypeOK'
  BY <1>1, <1>2, <1>3, <1>4 DEF TypeOK, Job
<1>7. SuccessIsExecuted'
  BY <1>2 DEF PipelineInv, SuccessIsExecuted, Shard
<1> QED BY <1>3, <1>4, <1>5, <1>6, <1>7 DEF PipelineInv, PoolKept

LEMMA ConnectionLostKeeps ==
  ASSUME PipelineInv, NEW w \in Workers, ConnectionLost(w)
  PROVE  PipelineInv'
<1> DEFINE c == job[w].caller
<1>1. TypeOK /\ TableServes /\ JobInOnePlace
  BY DEF PipelineInv
<1>2. /\ UNCHANGED <<jobs, job, worker, shuttingDown, results_mutex, nodes, call, next, count,
                     success, order, replies>>
      /\ worker[w] = "run" /\ lost' = lost + 1
      /\ attempt' = [attempt EXCEPT ![w] = IF @ < Attempts THEN @ + 1 ELSE 0]
  BY DEF ConnectionLost, callVars, poolVars
<1>3. PICK S : Executes(c, S)
  BY DEF ConnectionLost
<1>4. c \in Callers
  BY <1>2, RunningIsPending DEF ConnectionLost
<1>5. /\ DOMAIN executed' = Callers
      /\ \A d \in Callers : executed'[d] \in [DOMAIN Commands[d] -> Nat]
      /\ \A d \in Callers : \A k \in DOMAIN Commands[d] : executed'[d][k] >= executed[d][k]
  <2>1. \A d \in Callers : executed[d] \in [DOMAIN Commands[d] -> Nat]
    BY <1>1 DEF TypeOK
  <2> HIDE DEF c
  <2>2. /\ DOMAIN executed' = Callers
        /\ \A d \in Callers : executed'[d] \in [DOMAIN Commands[d] -> Nat]
        /\ \A d \in Callers : d # c => executed'[d] = executed[d]
        /\ \A k \in DOMAIN Commands[c] :
             executed'[c][k] = IF k \in S THEN executed[c][k] + 1 ELSE executed[c][k]
    BY <1>1, <1>3, <1>4, ExecutesCounts
  <2>3. ASSUME NEW d \in Callers, NEW k \in DOMAIN Commands[d]
        PROVE  executed'[d][k] >= executed[d][k]
    <3>1. executed[d][k] \in Nat
      BY <2>1
    <3>2. CASE d = c
      BY <2>2, <3>1, <3>2
    <3>3. CASE d # c
      BY <2>2, <3>1, <3>3
    <3> QED BY <3>2, <3>3
  <2> QED BY <2>2, <2>3
<1>6. PoolKept
  <2>1. attempt[w] > 0 /\ attempt \in [Workers -> Nat]
    BY <1>1 DEF ConnectionLost, TypeOK
  <2>2. \A v \in Workers : attempt[v] = 0 => attempt'[v] = 0
    BY <1>2, <2>1
  <2> QED BY <1>1, <1>2, <2>2, PoolUnchanged
<1>7. TableServes' /\ Shards' = Shards
  BY <1>1, <1>2, TableServesKept
<1>8. (PassedIsCounted /\ RepliesOfShards /\ PlacesAreFixed)'
  BY <1>2, <1>6, NoCaller
<1>9. attempt' \in [Workers -> Nat] /\ lost' \in Nat
  BY <1>1, <1>2 DEF TypeOK
<1>10. TypeOK'
  BY <1>1, <1>2, <1>5, <1>7, <1>9 DEF TypeOK, Job
<1>11. SuccessIsExecuted'
  <2>1. ASSUME NEW d \in Callers, NEW k \in DOMAIN Commands[d], Shard(d, k) \in success[d]
        PROVE  executed'[d][k] > 0
    <3>1. executed[d][k] > 0 /\ executed[d][k] \in Nat /\ executed'[d][k] \in Nat
      BY <1>1, <1>5, <2>1 DEF PipelineInv, SuccessIsExecuted, TypeOK
    <3> QED BY <1>5, <3>1
  <2> QED BY <1>2, <2>1 DEF SuccessIsExecuted, Shard
<1>12. ShutsDownIdle'
  BY <1>2 DEF ShutsDownIdle, PipelineInv
<1> QED BY <1>6, <1>7, <1>8, <1>10, <1>11, <1>12 DEF PipelineInv, PoolKept

LEMMA AnsweredKeeps ==
  ASSUME PipelineInv, NEW w \in Workers, Answered(w)
  PROVE  PipelineInv'
<1>1. TypeOK /\ TableServes /\ JobInOnePlace /\ \A d \in Callers : Books(d)
  BY AllBooks DEF PipelineInv
<1>2. PICK c \in Callers, s \in Shards :
        /\ job[w].caller = c /\ job[w].shard = s
        /\ s \in Pending(c) /\ call[c] \in {"submit", "spin"}
  BY RunningIsPending DEF Answered, Pending
<1>3. /\ UNCHANGED <<jobs, job, worker, shuttingDown, results_mutex, nodes, call, next, count,
                     order, replies, lost>>
      /\ worker[w] = "run" /\ attempt' = [attempt EXCEPT ![w] = 0]
      /\ Executes(c, ShardCmds(c, s))
  BY <1>2 DEF Answered, poolVars
<1>4. PICK ok \in BOOLEAN : success' = [success EXCEPT ![c] = IF ok THEN @ \cup {s} ELSE @]
  BY <1>2 DEF Answered
<1>5. /\ DOMAIN executed' = Callers
      /\ \A d \in Callers : executed'[d] \in [DOMAIN Commands[d] -> Nat]
      /\ \A d \in Callers : d # c => executed'[d] = executed[d]
      /\ \A k \in DOMAIN Commands[c] :
           executed'[c][k] = IF k \in ShardCmds(c, s) THEN executed[c][k] + 1 ELSE executed[c][k]
  BY <1>1, <1>3, <1>2, ExecutesCounts
<1>6. /\ success' \in [Callers -> SUBSET Shards]
      /\ success'[c] \in {success[c], success[c] \cup {s}}
      /\ \A d \in Callers : d # c => success'[d] = success[d]
  BY <1>1, <1>4, <1>2 DEF TypeOK
<1>7. PoolKept
  BY <1>1, <1>3, PoolUnchanged
<1>8. TableServes' /\ Shards' = Shards
  BY <1>1, <1>3, TableServesKept
<1>9. \A d \in Callers : Pending(d)' = Pending(d) /\ Taken(d)' \subseteq Taken(d)
  BY <1>1, <1>3, <1>7, PendingKept
<1>10. \A d \in Callers : d # c => CallerKept(d)
  BY <1>3, <1>6 DEF CallerKept
<1>11. Counted(c)'
  <2>1. Passed(c)' = Passed(c) /\ Over(c)' = Over(c)
    BY <1>3, <1>8, <1>9 DEF Passed, Over
  <2>2. s \in Passed(c)
    BY <1>1, <1>2 DEF Books, Counted, Pending, Taken, ToBeStored
  <2> QED BY <1>1, <1>3, <1>2, <1>6, <1>8, <1>9, <2>1, <2>2 DEF Books, Counted
<1>12. Replied(c)'
  <2>1. success'[c] \ Pending(c)' = success[c] \ Pending(c)
    BY <1>2, <1>6, <1>9
  <2> QED BY <1>1, <1>3, <1>2, <2>1 DEF Books, Replied, Shard
<1>13. Fixed(c)'
  BY <1>3, <1>2 DEF Fixed
<1>14. (PassedIsCounted /\ RepliesOfShards /\ PlacesAreFixed)'
  BY <1>3, <1>2, <1>9, <1>10, <1>11, <1>12, <1>13, OneCaller DEF Books
<1>15. TypeOK'
  <2>1. attempt' \in [Workers -> Nat]
    BY <1>1, <1>3 DEF TypeOK
  <2> QED BY <1>1, <1>3, <1>5, <1>6, <1>8, <2>1 DEF TypeOK, Job
<1>16. SuccessIsExecuted'
  <2>1. ASSUME NEW d \in Callers, NEW k \in DOMAIN Commands[d], Shard(d, k) \in success'[d]
        PROVE  executed'[d][k] > 0
    <3>1. executed[d][k] \in Nat /\ (Shard(d, k) \in success[d] => executed[d][k] > 0)
      BY <1>1 DEF PipelineInv, SuccessIsExecuted, TypeOK
    <3>2. CASE d # c
      BY <1>5, <1>6, <2>1, <3>1, <3>2
    <3>3. CASE d = c /\ Shard(d, k) \in success[d]
      BY <1>5, <3>1, <3>3
    <3>4. CASE d = c /\ Shard(d, k) = s
      <4>1. k \in ShardCmds(c, s)
        BY <3>4 DEF ShardCmds, Shard
      <4> QED BY <1>5, <3>1, <3>4, <4>1
    <3> QED BY <1>6, <2>1, <3>2, <3>3, <3>4
  <2> QED BY <1>3, <2>1 DEF SuccessIsExecuted, Shard
<1>17. ShutsDownIdle'
  BY <1>3 DEF ShutsDownIdle, PipelineInv
<1> QED BY <1>7, <1>8, <1>14, <1>15, <1>16, <1>17 DEF PipelineInv, PoolKept

LEMMA StoreRepliesKeeps ==
  ASSUME PipelineInv, NEW w \in Workers, StoreReplies(w)
  PROVE  PipelineInv'
<1>1. TypeOK /\ TableServes /\ JobInOnePlace /\ \A d \in Callers : Books(d)
  BY AllBooks DEF PipelineInv
<1>2. PICK c \in Callers, s \in Shards :
        /\ job[w].caller = c /\ job[w].shard = s /\ job[w] = JobOf(c, s)
        /\ s \in Pending(c) /\ call[c] \in {"submit", "spin"}
  BY RunningIsPending DEF StoreReplies, Pending
<1> DEFINE S == ShardCmds(c, s)
           new == IF s \in success[c] THEN InOrder(S) ELSE <<>>
<1>3. /\ UNCHANGED <<jobs, job, worker, shuttingDown, nodes, call, next, success, attempt,
                    executed, lost>>
      /\ order' = [order EXCEPT ![c] = @ \o new]
      /\ replies' = [replies EXCEPT ![c] = @ \o new]
      /\ count' = [count EXCEPT ![c] = @ + 1]
  BY <1>2 DEF StoreReplies, Storing, poolVars
<1>4. S \in SUBSET Nat /\ IsFiniteSet(S) /\ \A k \in S : k \in DOMAIN Commands[c] /\ Shard(c, k) = s
  <2>1. DOMAIN Commands[c] = 1 .. Len(Commands[c]) /\ Len(Commands[c]) \in Nat
    BY PipelineAssumption
  <2>2. IsFiniteSet(1 .. Len(Commands[c]))
    <3>1. 1 \in Int /\ Len(Commands[c]) \in Int
      BY <2>1
    <3> QED BY <3>1, FS_Interval
  <2>3. S \in SUBSET (1 .. Len(Commands[c]))
    BY <2>1 DEF ShardCmds
  <2>4. IsFiniteSet(S) /\ S \in SUBSET Nat
    BY <2>1, <2>2, <2>3, FS_Subset
  <2> QED BY <2>4 DEF ShardCmds, Shard
<1>5. /\ new \in Seq(Nat) /\ IsInjective(new)
      /\ ToSet(new) = IF s \in success[c] THEN S ELSE {}
  <2>1. InOrder(S) \in Seq(Nat) /\ ToSet(InOrder(S)) = S /\ IsInjective(InOrder(S))
    BY <1>4, InOrderElements
  <2>2. <<>> \in Seq(Nat) /\ ToSet(<<>>) = {} /\ IsInjective(<<>>)
    BY EmptyElements
  <2> HIDE DEF S
  <2> QED BY <2>1, <2>2
<1> HIDE DEF new
<1>6. /\ results_mutex' \in [Callers -> Workers \cup {NoWorker}] /\ JobInOnePlace'
      /\ \A x \in Job : /\ ToBeStored(x)' <=> ToBeStored(x) /\ x # JobOf(c, s)
                        /\ InPool(x)' => InPool(x)
  BY <1>1, <1>2, StoringRemoves, JobFacts
<1>7. TableServes' /\ Shards' = Shards
  BY <1>1, <1>3, TableServesKept
<1>8. \A d \in Callers : d # c => Pending(d)' = Pending(d) /\ Taken(d)' \subseteq Taken(d)
  BY <1>1, <1>6, <1>7, JobFacts DEF Pending, Taken
<1>9. Pending(c)' = Pending(c) \ {s} /\ Taken(c)' \subseteq Taken(c)
  BY <1>1, <1>6, <1>7, JobFacts DEF Pending, Taken
<1>10. order \in [Callers -> Seq(Nat)] /\ replies \in [Callers -> Seq(Nat)] /\ order[c] = replies[c]
  BY <1>1 DEF TypeOK, Books, Replied
<1>11. /\ order[c] \o new \in Seq(Nat)
       /\ ToSet(order[c] \o new) = ToSet(order[c]) \cup ToSet(new)
       /\ IsInjective(order[c] \o new)
  <2>1. ToSet(order[c]) \cap ToSet(new) = {}
    BY <1>1, <1>2, <1>4, <1>5 DEF Books, Replied
  <2> QED BY <1>1, <1>5, <1>10, <2>1, ConcatElements DEF Books, Replied
<1>12. /\ order' \in [Callers -> Seq(Nat)] /\ replies' \in [Callers -> Seq(Nat)]
       /\ count' \in [Callers -> Nat]
       /\ order'[c] = order[c] \o new /\ replies'[c] = order[c] \o new /\ count'[c] = count[c] + 1
       /\ \A d \in Callers : d # c => CallerKept(d)
  <2>1. count \in [Callers -> Nat]
    BY <1>1 DEF TypeOK
  <2>2. order' \in [Callers -> Seq(Nat)] /\ replies' \in [Callers -> Seq(Nat)]
    BY <1>3, <1>10, <1>11
  <2>3. count' \in [Callers -> Nat]
    BY <1>3, <2>1
  <2>4. order'[c] = order[c] \o new /\ replies'[c] = order[c] \o new /\ count'[c] = count[c] + 1
    BY <1>3, <1>10, <2>1
  <2>5. \A d \in Callers : d # c => CallerKept(d)
    BY <1>3, <1>10, <2>1 DEF CallerKept
  <2> QED BY <2>2, <2>3, <2>4, <2>5
<1>13. Counted(c)'
  <2>1. /\ Taken(c) \subseteq Passed(c) /\ success[c] \subseteq Passed(c)
        /\ Pending(c) \subseteq Taken(c) /\ count[c] = Cardinality(Over(c))
    BY <1>1 DEF Books, Counted, Pending, Taken, ToBeStored
  <2>2. Passed(c)' = Passed(c)
    BY <1>3, <1>7 DEF Passed
  <2>3. Over(c)' = Over(c) \cup {s} /\ s \notin Over(c)
    BY <1>2, <1>9, <2>1, <2>2 DEF Over
  <2>4. IsFiniteSet(Over(c))
    BY <1>1, OverFinite DEF Books
  <2>5. count'[c] = Cardinality(Over(c)')
    BY <1>12, <2>1, <2>3, <2>4, FS_AddElement
  <2> QED BY <1>1, <1>2, <1>3, <1>7, <1>9, <2>1, <2>2, <2>5 DEF Books, Counted
<1>14. Replied(c)'
  <2>1. ToSet(order'[c]) = {k \in DOMAIN Commands[c] : Shard(c, k) \in success[c] \ Pending(c)'}
    <3>1. ToSet(order[c]) = {k \in DOMAIN Commands[c] : Shard(c, k) \in success[c] \ Pending(c)}
      BY <1>1 DEF Books, Replied
    <3>2. S = {k \in DOMAIN Commands[c] : Shard(c, k) = s}
      BY DEF ShardCmds, Shard
    <3> QED BY <1>2, <1>5, <1>9, <1>11, <1>12, <3>1, <3>2
  <2> QED BY <1>3, <1>11, <1>12, <2>1 DEF Replied, Shard
<1>15. Fixed(c)'
  BY <1>2, <1>3 DEF Fixed
<1>16. (PassedIsCounted /\ RepliesOfShards /\ PlacesAreFixed)'
  BY <1>3, <1>8, <1>12, <1>13, <1>14, <1>15, OneCaller DEF Books
<1>17. TypeOK'
  BY <1>1, <1>3, <1>6, <1>7, <1>12 DEF TypeOK, Job
<1>18. ShutsDownIdle'
  BY <1>3 DEF ShutsDownIdle, PipelineInv
<1>19. SuccessIsExecuted'
  BY <1>3 DEF PipelineInv, SuccessIsExecuted, Shard
<1> QED BY <1>6, <1>7, <1>16, <1>17, <1>18, <1>19 DEF PipelineInv

(* A worker unlocks the mutex, whatever the caller does by now.                       *)
LEMMA UnlockKeeps ==
  ASSUME PipelineInv, NEW w \in Workers, Unlock(w)
  PROVE  PipelineInv'
<1>1. TypeOK /\ TableServes /\ JobInOnePlace
  BY DEF PipelineInv
<1>2. /\ UNCHANGED <<jobs, shuttingDown, nodes, call, next, count, success, order, replies, attempt,
                    executed, lost>>
      /\ worker' = [worker EXCEPT ![w] = "wait"]
  BY DEF Unlock, JobDone
<1>3. /\ job' \in [Workers -> Job \cup {NoJob}]
      /\ results_mutex' \in [Callers -> Workers \cup {NoWorker}] /\ PoolKept
  BY <1>1, UnlockRemoves
<1>4. TableServes' /\ Shards' = Shards
  BY <1>1, <1>2, TableServesKept
<1>5. (PassedIsCounted /\ RepliesOfShards /\ PlacesAreFixed)'
  BY <1>2, <1>3, NoCaller
<1>6. TypeOK'
  BY <1>1, <1>2, <1>3, <1>4 DEF TypeOK, Job
<1>7. ShutsDownIdle' /\ SuccessIsExecuted'
  BY <1>2 DEF PipelineInv, ShutsDownIdle, SuccessIsExecuted, Shard
<1> QED BY <1>3, <1>4, <1>5, <1>6, <1>7 DEF PipelineInv, PoolKept

-----------------------------------------------------------------------------
(* The invariant holds at the start, and every step keeps it.                        *)
LEMMA InitPipelineInv == Init => PipelineInv
<1> SUFFICES ASSUME Init PROVE PipelineInv
  OBVIOUS
<1>1. /\ jobs = <<>> /\ shuttingDown = FALSE
      /\ worker = [w \in Workers |-> "wait"] /\ job = [w \in Workers |-> NoJob]
      /\ results_mutex = [c \in Callers |-> NoWorker]
  BY DEF Init, PoolInit
<1>2. TableServes
  <2>1. PICK reply \in Replies : nodes = DbNodes(reply)
    BY DEF Init
  <2>2. Len(nodes) \in Nat \ {0}
    BY <2>1, TableOfReply
  <2>3. ASSUME NEW c \in Callers, NEW k \in DOMAIN Commands[c] PROVE Shard(c, k) \in Shards
    <3>1. PICK i \in DOMAIN reply : Commands[c][k] \in reply[i].lower .. reply[i].upper
      BY PipelineAssumption
    <3>2. Commands[c][k] \in Nat
      BY PipelineAssumption
    <3>3. HashSearch(nodes, Commands[c][k], 0, Len(nodes) - 1) \in 0 .. Len(nodes) - 1
      BY <2>1, <3>1, <3>2, SearchFinds
    <3> QED BY <3>3 DEF Shard, Shards, DbNodeIndex
  <2> QED BY <2>2, <2>3 DEF TableServes
<1>3. TypeOK
  <2>1. \A c \in Callers : executed[c] = [k \in DOMAIN Commands[c] |-> 0]
    BY DEF Init
  <2>2. DOMAIN executed = Callers
    BY DEF Init
  <2>3. ASSUME NEW c \in Callers PROVE executed[c] \in [DOMAIN Commands[c] -> Nat]
    <3>1. [k \in DOMAIN Commands[c] |-> 0] \in [DOMAIN Commands[c] -> Nat]
      OBVIOUS
    <3> QED BY <2>1, <3>1
  <2>4. <<>> \in Seq(Nat) /\ <<>> \in Seq(Job)
    OBVIOUS
  <2> QED BY <1>1, <2>2, <2>3, <2>4 DEF Init, TypeOK
<1>4. JobInOnePlace
  BY <1>1, EmptyElements, PipelineAssumption DEF JobInOnePlace
<1>5. ShutsDownIdle
  BY <1>1 DEF ShutsDownIdle
<1>6. /\ \A c \in Callers : /\ call[c] = "before" /\ next[c] = 0 /\ count[c] = 0 /\ success[c] = {}
                            /\ order[c] = <<>> /\ replies[c] = <<>>
  BY DEF Init
<1>7. \A c \in Callers : Pending(c) = {} /\ Taken(c) = {}
  BY <1>1, <1>2, EmptyElements, JobFacts DEF Pending, Taken, ToBeStored, InPool
<1>8. \A c \in Callers : Passed(c) = {} /\ Over(c) = {}
  BY <1>6 DEF Passed, Over
<1>9. PassedIsCounted
  BY <1>6, <1>7, <1>8, FS_EmptySet DEF PassedIsCounted, Counted
<1>10. RepliesOfShards
  BY <1>6, EmptyElements DEF RepliesOfShards, Replied
<1>11. SuccessIsExecuted
  BY <1>6 DEF SuccessIsExecuted
<1>12. PlacesAreFixed
  BY <1>6 DEF PlacesAreFixed, Fixed
<1> QED BY <1>2, <1>3, <1>4, <1>5, <1>9, <1>10, <1>11, <1>12 DEF PipelineInv

LEMMA UnchangedKeeps == ASSUME PipelineInv, UNCHANGED vars PROVE PipelineInv'
<1>1. UNCHANGED <<jobs, job, worker, shuttingDown, results_mutex, nodes, call, next, count,
                  success, order, replies,
                  attempt, executed, lost>>
  BY DEF vars, poolVars, callVars
<1>2. TypeOK /\ TableServes /\ JobInOnePlace
  BY DEF PipelineInv
<1>3. PoolKept
  BY <1>1, <1>2, PoolUnchanged
<1>4. (PassedIsCounted /\ RepliesOfShards /\ PlacesAreFixed)'
  BY <1>1, <1>3, NoCaller
<1>5. TableServes' /\ Shards' = Shards
  BY <1>1, <1>2, TableServesKept
<1>6. TypeOK'
  BY <1>1, <1>2, <1>5 DEF TypeOK, Job
<1>7. ShutsDownIdle' /\ SuccessIsExecuted'
  BY <1>1 DEF PipelineInv, ShutsDownIdle, SuccessIsExecuted, Shard
<1> QED BY <1>3, <1>4, <1>5, <1>6, <1>7 DEF PipelineInv, PoolKept

LEMMA StepPipelineInv == PipelineInv /\ [Next]_vars => PipelineInv'
<1> SUFFICES ASSUME PipelineInv, [Next]_vars PROVE PipelineInv'
  OBVIOUS
<1>1. CASE UNCHANGED vars
  BY <1>1, UnchangedKeeps
<1>2. ASSUME NEW c \in Callers, Call(c) \/ Caller(c) PROVE PipelineInv'
  BY <1>2, CallKeeps, SkipShardKeeps, SubmitShardKeeps, EndSpinKeeps, ReorderKeeps, ReturnKeeps
     DEF Caller
<1>3. ASSUME NEW w \in Workers, Worker(w) \/ ConnectionLost(w) PROVE PipelineInv'
  BY <1>3, PoolMovesKeep, AnsweredKeeps, StoreRepliesKeeps, UnlockKeeps, ConnectionLostKeeps
     DEF Worker
<1>4. CASE Destroy
  BY <1>4, PoolMovesKeep
<1>5. CASE Finished
  BY <1>5, UnchangedKeeps DEF Finished
<1> QED BY <1>1, <1>2, <1>3, <1>4, <1>5 DEF Next

(* In every behaviour the jobs, the counts and the replies are as PipelineInv says.     *)
THEOREM PipelineInvariant == Spec => []PipelineInv
BY InitPipelineInv, StepPipelineInv, PTL DEF Spec

(* When a call has not begun, puts its replies in order or has ended, none of its jobs is  *)
(* queued or waits to run, and one that runs has stored and counted its results: whatever  *)
(* fails and in whatever order jobs end, nothing of the stack of the caller is written to   *)
(* after that, but for the mutex that such a job unlocks.                              *)
THEOREM PipelineJobsEnd == Spec => []OnlyUnlockOutlivesCall
<1>1. PipelineInv => OnlyUnlockOutlivesCall
  <2> SUFFICES ASSUME PipelineInv, NEW c \in Callers,
                      call[c] \in {"before", "reorder", "returned", "threw"}
               PROVE  /\ \A i \in DOMAIN jobs : jobs[i].caller # c
                      /\ \A w \in Workers :
                           job[w] # NoJob => (job[w].caller = c => results_mutex[c] = w)
    BY DEF OnlyUnlockOutlivesCall
  <2>1. TypeOK /\ TableServes /\ JobInOnePlace /\ Books(c)
    BY AllBooks DEF PipelineInv
  <2>2. Pending(c) = {}
    BY <2>1, PendingIsCalling DEF Books
  <2>3. \A j \in Job : InPool(j) /\ j.caller = c => HoldsMutex(j)
    BY <2>1, <2>2, JobFacts DEF Pending, ToBeStored
  <2>4. ASSUME NEW i \in DOMAIN jobs PROVE jobs[i].caller # c
    <3>1. jobs[i] \in Job /\ InPool(jobs[i]) /\ jobs[i] \in ToSet(jobs)
      BY <2>1, ElementPositions DEF TypeOK, InPool
    <3>2. ~HoldsMutex(jobs[i])
      BY <2>1, <3>1 DEF HoldsMutex, JobInOnePlace
    <3> QED BY <2>3, <3>1, <3>2
  <2>5. ASSUME NEW w \in Workers, job[w] # NoJob, job[w].caller = c PROVE results_mutex[c] = w
    <3>1. job[w] \in Job /\ InPool(job[w])
      BY <2>1, <2>5 DEF TypeOK, InPool
    <3>2. HoldsMutex(job[w])
      BY <2>3, <2>5, <3>1
    <3> QED BY <2>1, <2>5, <3>2 DEF HoldsMutex, JobInOnePlace
  <2> QED BY <2>4, <2>5
<1> QED BY <1>1, PipelineInvariant, PTL

(* A call that returns has one reply for each of its commands, in their order; while the  *)
(* replies are put in order, no reply is lost or doubled.                              *)
THEOREM PipelineReplies == Spec => []RepliesInOrder
<1>1. PipelineInv => RepliesInOrder
  <2> SUFFICES ASSUME PipelineInv, NEW c \in Callers
               PROVE  /\ call[c] = "returned" => replies[c] = [k \in DOMAIN Commands[c] |-> k]
                      /\ order[c] = replies[c] /\ IsInjective(replies[c])
    BY DEF RepliesInOrder
  <2>1. TypeOK /\ Books(c)
    BY AllBooks DEF PipelineInv
  <2>2. order[c] = replies[c] /\ IsInjective(replies[c]) /\ replies[c] \in Seq(Nat)
    BY <2>1 DEF Books, Replied, TypeOK
  <2>3. CASE call[c] = "returned"
    <3>1. \A i \in 1 .. Len(replies[c]) : replies[c][i] = i
      BY <2>1, <2>2, <2>3 DEF Books, Fixed
    <3>2. DOMAIN Commands[c] = 1 .. Len(replies[c])
      BY <2>2, <2>3, AllReplied
    <3> QED BY <2>2, <3>1, <3>2
  <2> QED BY <2>2, <2>3
<1> QED BY <1>1, PipelineInvariant, PTL

-----------------------------------------------------------------------------
(* The promise: what its variables are, and how the actions change them.              *)
Done(c) == {k \in DOMAIN Commands[c] : executed[c][k] > 0}
PhaseMap == [c \in Callers |-> Phase(c)]
DoneMap == [c \in Callers |-> Done(c)]
PromiseStep == Promise!Next \/ (PhaseMap' = PhaseMap /\ DoneMap' = DoneMap)

(* Workers execute commands of a call while it runs.                                  *)
LEMMA ExecutesPromise ==
  ASSUME PipelineInv, NEW w \in Workers, worker[w] = "run", attempt[w] > 0, call' = call,
         NEW S, Executes(job[w].caller, S)
  PROVE  PromiseStep
<1>1. PICK c \in Callers : job[w].caller = c /\ call[c] \in {"submit", "spin"}
  BY RunningIsPending
<1>2. TypeOK
  BY DEF PipelineInv
<1>3. /\ DOMAIN executed' = Callers
      /\ \A d \in Callers : executed'[d] \in [DOMAIN Commands[d] -> Nat]
      /\ \A d \in Callers : d # c => executed'[d] = executed[d]
      /\ \A k \in DOMAIN Commands[c] :
           executed'[c][k] = IF k \in S THEN executed[c][k] + 1 ELSE executed[c][k]
  BY <1>1, <1>2, ExecutesCounts
<1> DEFINE T == S \cap DOMAIN Commands[c]
<1>4. T \in SUBSET (1 .. Len(Commands[c]))
  <2>1. DOMAIN Commands[c] = 1 .. Len(Commands[c])
    BY PipelineAssumption
  <2> QED BY <2>1
<1>5. Done(c)' = Done(c) \cup T
  <2>1. \A k \in DOMAIN Commands[c] : executed[c][k] \in Nat
    BY <1>2 DEF TypeOK
  <2>2. \A k \in DOMAIN Commands[c] : executed'[c][k] > 0 <=> executed[c][k] > 0 \/ k \in T
    BY <1>3, <2>1
  <2> QED BY <2>2 DEF Done
<1>6. \A d \in Callers : d # c => Done(d)' = Done(d)
  BY <1>3 DEF Done
<1>7. DoneMap' = [DoneMap EXCEPT ![c] = @ \cup T]
  BY <1>1, <1>5, <1>6 DEF DoneMap
<1>8. PhaseMap' = PhaseMap /\ PhaseMap[c] = "calling"
  BY <1>1 DEF PhaseMap, Phase
<1>9. Promise!Execute(c)
  BY <1>4, <1>7, <1>8 DEF Promise!Execute, PhaseMap, DoneMap, Done
<1> QED BY <1>9 DEF PromiseStep, Promise!Next

LEMMA StepPromise ==
  ASSUME PipelineInv, [Next]_vars
  PROVE  PromiseStep
<1>1. TypeOK
  BY DEF PipelineInv
<1> DEFINE Same == PhaseMap' = PhaseMap /\ DoneMap' = DoneMap
<1>2. ASSUME call' = call, executed' = executed PROVE Same
  BY <1>2 DEF PhaseMap, Phase, DoneMap, Done
<1>3. ASSUME NEW c \in Callers, executed' = executed, NEW to, call' = [call EXCEPT ![c] = to]
      PROVE  /\ DoneMap' = DoneMap
             /\ PhaseMap' = [PhaseMap EXCEPT ![c] = IF to \in {"submit", "spin", "reorder"}
                                                   THEN "calling" ELSE to]
  <2>1. DoneMap' = DoneMap
    BY <1>3 DEF DoneMap, Done
  <2>2. Phase(c)' = IF to \in {"submit", "spin", "reorder"} THEN "calling" ELSE to
    BY <1>1, <1>3 DEF Phase, TypeOK
  <2>3. \A d \in Callers : d # c => Phase(d)' = Phase(d)
    BY <1>1, <1>3 DEF Phase, TypeOK
  <2> QED BY <2>1, <2>2, <2>3 DEF PhaseMap
<1> HIDE DEF Same
<1>4. ASSUME NEW c \in Callers, Call(c) PROVE PromiseStep
  <2>1. /\ DoneMap' = DoneMap /\ PhaseMap' = [PhaseMap EXCEPT ![c] = "calling"]
        /\ PhaseMap[c] = "before"
    BY <1>3, <1>4 DEF Call, PhaseMap, Phase
  <2>2. Promise!Call(c)
    BY <2>1 DEF Promise!Call, PhaseMap, DoneMap, Done
  <2> QED BY <2>2 DEF PromiseStep, Promise!Next
<1>5. ASSUME NEW c \in Callers, SkipShard(c) \/ SubmitShard(c) PROVE Same
  <2>1. PICK to \in {"submit", "spin"} : call' = [call EXCEPT ![c] = to]
    BY <1>5 DEF SkipShard, SubmitShard, NextShard
  <2>2. call[c] = "submit" /\ executed' = executed
    BY <1>5 DEF SkipShard, SubmitShard
  <2>3. DoneMap' = DoneMap /\ PhaseMap' = [PhaseMap EXCEPT ![c] = "calling"]
    BY <1>3, <2>1, <2>2
  <2>4. PhaseMap[c] = "calling"
    BY <2>2 DEF PhaseMap, Phase
  <2> QED BY <2>3, <2>4 DEF Same, PhaseMap
<1>6. ASSUME NEW c \in Callers, EndSpin(c) PROVE PromiseStep
  <2>1. PhaseMap[c] = "calling" /\ executed' = executed
    BY <1>6 DEF EndSpin, PhaseMap, Phase
  <2>2. CASE call' = [call EXCEPT ![c] = "reorder"]
    <3>1. DoneMap' = DoneMap /\ PhaseMap' = [PhaseMap EXCEPT ![c] = "calling"]
      BY <1>3, <2>1, <2>2
    <3> QED BY <2>1, <3>1 DEF PromiseStep, PhaseMap
  <2>3. CASE call' = [call EXCEPT ![c] = "threw"]
    <3>1. DoneMap' = DoneMap /\ PhaseMap' = [PhaseMap EXCEPT ![c] = "threw"]
      BY <1>3, <2>1, <2>3
    <3>2. Promise!Throw(c)
      BY <2>1, <3>1 DEF Promise!Throw, PhaseMap, DoneMap, Done
    <3> QED BY <3>2 DEF PromiseStep, Promise!Next
  <2> QED BY <1>6, <2>2, <2>3 DEF EndSpin
<1>7. ASSUME NEW c \in Callers, Reorder(c) PROVE Same
  BY <1>2, <1>7 DEF Reorder
<1>8. ASSUME NEW c \in Callers, Return(c) PROVE PromiseStep
  <2>1. /\ DoneMap' = DoneMap /\ PhaseMap' = [PhaseMap EXCEPT ![c] = "returned"]
        /\ PhaseMap[c] = "calling"
    BY <1>3, <1>8 DEF Return, PhaseMap, Phase
  <2>2. success[c] = Shards
    BY <1>8 DEF Return, PipelineInv, PassedIsCounted, Counted
  <2>3. \A k \in DOMAIN Commands[c] : executed[c][k] > 0
    BY <2>2 DEF PipelineInv, SuccessIsExecuted, TableServes
  <2>4. Done(c) = 1 .. Len(Commands[c])
    BY <2>3, PipelineAssumption DEF Done
  <2>5. DoneMap[c] = 1 .. Len(Commands[c])
    BY <2>4 DEF DoneMap
  <2>6. Promise!Return(c)
    BY <2>1, <2>5 DEF Promise!Return, PhaseMap, DoneMap, Done
  <2> QED BY <2>6 DEF PromiseStep, Promise!Next
<1>9. ASSUME NEW w \in Workers, Worker(w) \/ ConnectionLost(w) PROVE PromiseStep
  <2>1. CASE /\ Take(w) \/ Leave(w)
             /\ UNCHANGED <<nodes, callVars, attempt, executed, lost>>
    BY <1>2, <2>1 DEF callVars, PromiseStep, Same
  <2>2. CASE PerformJob(w)
    BY <1>2, <2>2 DEF PerformJob, callVars, PromiseStep, Same
  <2>3. CASE Answered(w)
    BY <2>3, ExecutesPromise DEF Answered
  <2>4. CASE StoreReplies(w)
    BY <1>2, <2>4 DEF StoreReplies, PromiseStep, Same
  <2>5. CASE Unlock(w)
    BY <1>2, <2>5 DEF Unlock, PromiseStep, Same
  <2>6. CASE ConnectionLost(w)
    BY <2>6, ExecutesPromise DEF ConnectionLost, callVars
  <2> QED BY <1>9, <2>1, <2>2, <2>3, <2>4, <2>5, <2>6 DEF Worker
<1>10. CASE Destroy
  BY <1>2, <1>10 DEF Destroy, callVars, PromiseStep, Same
<1>11. CASE UNCHANGED vars
  BY <1>2, <1>11 DEF vars, callVars, PromiseStep, Same
<1> QED BY <1>4, <1>5, <1>6, <1>7, <1>8, <1>9, <1>10, <1>11 DEF Next, Caller, Finished, PromiseStep, Same

LEMMA InitPromise == Init => Promise!Init
<1> SUFFICES ASSUME Init PROVE Promise!Init
  OBVIOUS
<1>1. \A c \in Callers : Phase(c) = "before"
  BY DEF Init, Phase
<1>2. \A c \in Callers : {k \in DOMAIN Commands[c] : executed[c][k] > 0} = {}
  BY DEF Init
<1> QED BY <1>1, <1>2 DEF Promise!Init

(* The calls implement CallPromise: commands are executed only while their call runs,    *)
(* though perhaps more than once, and a call that returns has executed all of them.     *)
THEOREM PipelineKeepsPromise == Spec => KeepsPromise
<1>1. PipelineInv /\ [Next]_vars =>
        [Promise!Next]_<<[c \in Callers |-> Phase(c)],
                         [c \in Callers |-> {k \in DOMAIN Commands[c] : executed[c][k] > 0}]>>
  BY StepPromise DEF PromiseStep, PhaseMap, DoneMap, Done
<1> QED BY <1>1, InitPromise, PipelineInvariant, PTL DEF Spec, KeepsPromise, Promise!Spec

-----------------------------------------------------------------------------
(* The table is that of a report, and does not change.                               *)
TableIsReported == \E reply \in Replies : nodes = DbNodes(reply)

LEMMA ReportedServe == TableIsReported => ShardsAreFound
<1> SUFFICES ASSUME NEW reply \in Replies, nodes = DbNodes(reply), NEW slot \in Slots
             PROVE  /\ Serves(DbNodeIndex(nodes, slot), slot)
                    /\ Serves(HashSearch(nodes, slot, 0, Len(nodes)), slot)
  BY DEF TableIsReported, ShardsAreFound
<1>1. PICK c \in Callers : slot \in ToSet(Commands[c])
  BY DEF Slots
<1>2. PICK k \in DOMAIN Commands[c] : slot = Commands[c][k]
  BY <1>1 DEF ToSet
<1>3. /\ slot \in Nat
      /\ \E i \in DOMAIN reply : slot \in reply[i].lower .. reply[i].upper
  BY <1>2, PipelineAssumption
<1>4. \A rhs \in {Len(nodes) - 1, Len(nodes)} :
        /\ Lower(nodes, HashSearch(nodes, slot, 0, rhs)) <= slot
        /\ slot <= Upper(nodes, HashSearch(nodes, slot, 0, rhs))
  BY <1>3, SearchFinds
<1> QED BY <1>4 DEF Serves, DbNodeIndex, Lower, Upper, At

(* The search of _get_db_node_index finds the shard that serves the slot of a command,    *)
(* for any report of shards whose slots do not overlap, and also when it begins one place  *)
(* too far.                                                                        *)
THEOREM PipelineShardsFound == Spec => []ShardsAreFound
<1>1. Init => TableIsReported
  BY DEF Init, TableIsReported
<1>2. TableIsReported /\ [Next]_vars => TableIsReported'
  BY TableKept DEF TableIsReported
<1> QED BY <1>1, <1>2, ReportedServe, PTL DEF Spec
=============================================================================
