---------------------------- MODULE HookPipelineProofs ----------------------------
(***************************************************************************)
(* Proofs about HookPipeline and Plugins, for any number of hooks, of plugins  *)
(* and of runs.                                                              *)
(***************************************************************************)
EXTENDS Plugins, FiniteSetTheorems, SequenceTheorems, TLAPS

EntryRecords == [priority : Nat, seq : Nat, hook : Hooks]

(* What is common to lists of hooks, registered or sorted                      *)
IsRegistry(es) ==
  /\ es \in Seq(EntryRecords)
  /\ \A i, j \in 1..Len(es) : es[i].hook = es[j].hook => i = j
--------------------------------------------------------------------------------
(* Before is a strict order on entries, total where no counter occurs twice     *)
LEMMA BeforeIsOrder ==
  ASSUME NEW d \in EntryRecords, NEW e \in EntryRecords, NEW f \in EntryRecords
  PROVE  /\ ~Before(e, e)
         /\ Before(d, e) /\ Before(e, f) => Before(d, f)
         /\ d.seq # e.seq => Before(d, e) \/ Before(e, d)
BY DEF Before, EntryRecords

(* How many entries of S come before e                                          *)
Rank(S, e) == Cardinality({d \in S : Before(d, e)})

(* In a finite set ordered so, each place up to its size is taken by one entry  *)
LEMMA RanksAreTaken ==
  ASSUME NEW S \in SUBSET EntryRecords, IsFiniteSet(S),
         \A d, e \in S : d.seq = e.seq => d = e
  PROVE  /\ \A k \in 1..Cardinality(S) : \E e \in S : Rank(S, e) = k - 1
         /\ \A d, e \in S : Rank(S, d) < Rank(S, e) => Before(d, e)
         /\ \A e \in S : Rank(S, e) \in Nat
<1> DEFINE Below(e) == {d \in S : Before(d, e)}
           n == Cardinality(S)
           rank == [e \in S |-> Cardinality(Below(e))]
<1>1. n \in Nat
  BY FS_CardinalityType
<1>2. ASSUME NEW e \in S PROVE IsFiniteSet(Below(e)) /\ rank[e] \in 0..(n - 1)
  <2>1. Below(e) \subseteq S \ {e}
    BY BeforeIsOrder
  <2>2. IsFiniteSet(S \ {e}) /\ Cardinality(S \ {e}) = n - 1
    BY FS_RemoveElement
  <2>3. IsFiniteSet(Below(e)) /\ Cardinality(Below(e)) <= n - 1
    <3> HIDE DEF Below
    <3> QED BY <2>1, <2>2, FS_Subset
  <2>4. Cardinality(Below(e)) \in Nat
    BY <2>3, FS_CardinalityType
  <2> HIDE DEF Below, n
  <2> QED BY <1>1, <2>3, <2>4
<1>3. ASSUME NEW d \in S, NEW e \in S, Before(d, e) PROVE rank[d] < rank[e]
  <2>1. d \notin Below(d) /\ Below(d) \cup {d} \subseteq Below(e)
    BY <1>3, BeforeIsOrder
  <2>2. Cardinality(Below(d) \cup {d}) = Cardinality(Below(d)) + 1
    BY <1>2, <2>1, FS_AddElement
  <2>3. Cardinality(Below(d) \cup {d}) <= Cardinality(Below(e))
    <3> HIDE DEF Below
    <3> QED BY <1>2, <2>1, FS_Subset
  <2>4. rank[d] + 1 <= rank[e]
    <3> HIDE DEF Below
    <3> QED BY <2>2, <2>3
  <2>5. rank[d] \in Int /\ rank[e] \in Int
    <3>1. rank[d] \in 0..(n - 1) /\ rank[e] \in 0..(n - 1)
      BY <1>2
    <3> HIDE DEF rank, n
    <3> QED BY <1>1, <3>1
  <2> HIDE DEF rank
  <2> QED BY <2>4, <2>5
<1>4. \A e \in S : rank[e] = Rank(S, e)
  BY DEF Rank
<1>4a. \A e \in S : rank[e] \in 0..(n - 1)
  BY <1>2
<1>4b. \A d, e \in S : Before(d, e) => rank[d] < rank[e]
  BY <1>3
<1> HIDE DEF rank, n, Below
<1>5. ASSUME NEW d \in S, NEW e \in S, d # e PROVE rank[d] # rank[e]
  <2>1. Before(d, e) \/ Before(e, d)
    BY <1>5, BeforeIsOrder
  <2> QED BY <1>1, <1>4a, <1>4b, <2>1
<1>6. ASSUME NEW d \in S, NEW e \in S, rank[d] < rank[e] PROVE Before(d, e)
  <2>1. d # e /\ ~Before(e, d)
    BY <1>1, <1>4a, <1>4b, <1>6
  <2> QED BY <2>1, BeforeIsOrder
<1>7. rank \in Injection(S, 0..(n - 1))
  <2>1. rank \in [S -> 0..(n - 1)]
    <3>1. rank = [e \in S |-> rank[e]]
      BY DEF rank
    <3> QED BY <1>4a, <3>1
  <2> QED BY <1>5, <2>1 DEF Injection, IsInjective
<1>8. IsFiniteSet(0..(n - 1)) /\ Cardinality(0..(n - 1)) = n
  BY <1>1, FS_Interval
<1>9. rank \in Surjection(S, 0..(n - 1))
  BY <1>7, <1>8, FS_Injection DEF n
<1>10. \A k \in 1..n : \E e \in S : rank[e] = k - 1
  <2> SUFFICES ASSUME NEW k \in 1..n PROVE \E e \in S : rank[e] = k - 1
    OBVIOUS
  <2>1. k - 1 \in 0..(n - 1)
    BY <1>1
  <2> QED BY <1>9, <2>1 DEF Surjection
<1>11. \A e \in S : Rank(S, e) \in Nat
  BY <1>1, <1>4a, <1>4
<1> QED BY <1>4, <1>6, <1>10, <1>11 DEF n

LEMMA FunIsSeq ==
  ASSUME NEW S, NEW n \in Nat, NEW f \in [1..n -> S]
  PROVE  f \in Seq(S) /\ Len(f) = n
<1>1. f \in Seq(S)
  BY SeqDef
<1> QED BY <1>1, LenProperties

(* HookRegistry.build: the same hooks, in the order of (priority, counter)       *)
LEMMA SortedIsSorted ==
  ASSUME NEW es, IsRegistry(es), \A i \in 1..Len(es) : es[i].seq = i - 1
  PROVE  /\ IsRegistry(Sorted(es)) /\ Len(Sorted(es)) = Len(es)
         /\ \A i \in 1..(Len(es) - 1) : Before(Sorted(es)[i], Sorted(es)[i + 1])
<1> DEFINE S == Range(es)
           n == Len(es)
<1>1. n \in Nat /\ DOMAIN es = 1..n /\ \A i \in 1..n : es[i] \in EntryRecords
  BY DEF IsRegistry
<1>2. S \in SUBSET EntryRecords /\ \A d, e \in S : d.seq = e.seq => d = e
  <2>1. \A i, j \in 1..n : es[i].seq = es[j].seq => i = j
    BY <1>1
  <2> QED BY <1>1, <2>1 DEF Range
<1>3. IsFiniteSet(S) /\ Cardinality(S) = n
  <2> DEFINE g == [i \in 1..n |-> es[i]]
  <2>1. \A i, j \in 1..n : es[i] = es[j] => i = j
    BY DEF IsRegistry
  <2>2. g \in Bijection(1..n, S)
    BY <1>1, <2>1 DEF Bijection, Injection, Surjection, IsInjective, Range
  <2>3. IsFiniteSet(1..n) /\ Cardinality(1..n) = n
    BY <1>1, FS_Interval
  <2>4. ExistsBijection(1..n, S)
    BY <2>2 DEF ExistsBijection
  <2> QED BY <2>3, <2>4, FS_Bijection
<1>4. /\ \A k \in 1..n : \E e \in S : Rank(S, e) = k - 1
      /\ \A d, e \in S : Rank(S, d) < Rank(S, e) => Before(d, e)
      /\ \A e \in S : Rank(S, e) \in Nat
  <2> HIDE DEF S
  <2> QED BY <1>2, <1>3, RanksAreTaken
<1> DEFINE s == Sorted(es)
<1>5. DOMAIN s = 1..n /\ \A k \in 1..n : s[k] = CHOOSE e \in S : Rank(S, e) = k - 1
  BY <1>1 DEF Sorted, Rank
<1> HIDE DEF s, S
<1>6. \A k \in 1..n : s[k] \in S /\ Rank(S, s[k]) = k - 1
  BY <1>4, <1>5
<1>7. s \in Seq(EntryRecords) /\ Len(s) = n
  <2>1. s = [k \in 1..n |-> s[k]]
    BY <1>1, <1>5 DEF s, Sorted
  <2>2. s \in [1..n -> EntryRecords]
    BY <1>2, <1>6, <2>1
  <2> QED BY <1>1, <2>2, FunIsSeq
<1>8. ASSUME NEW i \in 1..n, NEW j \in 1..n, s[i].hook = s[j].hook PROVE i = j
  <2>1. PICK k \in 1..n, l \in 1..n : s[i] = es[k] /\ s[j] = es[l]
    <3>1. \A e \in S : \E k \in 1..n : e = es[k]
      BY <1>1 DEF S, Range
    <3>2. s[i] \in S /\ s[j] \in S
      BY <1>6
    <3> QED BY <3>1, <3>2
  <2>2. k = l
    BY <1>8, <2>1 DEF IsRegistry
  <2> QED BY <1>1, <1>6, <2>1, <2>2
<1>9. ASSUME NEW i \in 1..(n - 1) PROVE Before(s[i], s[i + 1])
  <2>1. i \in 1..n /\ i + 1 \in 1..n
    BY <1>1
  <2>2. Rank(S, s[i]) < Rank(S, s[i + 1])
    BY <1>1, <1>6, <2>1
  <2> QED BY <1>4, <1>6, <2>1, <2>2
<1> QED BY <1>7, <1>8, <1>9 DEF IsRegistry, s

(* Where the i-th call of a run stands                                           *)
LEMMA Position ==
  ASSUME NEW n \in Nat \ {0}, NEW p \in Nat \ {0}, NEW k \in 1..n, NEW i, i = (p - 1) * n + k
  PROVE  ((i - 1) \div n) + 1 = p /\ ((i - 1) % n) + 1 = k
<1>1. \A q \in Nat, r \in 0..(n - 1) : (q * n + r) \div n = q /\ (q * n + r) % n = r
  OBVIOUS
<1>2. p - 1 \in Nat /\ k - 1 \in 0..(n - 1) /\ (p - 1) * n \in Int
  OBVIOUS
<1> DEFINE x == (p - 1) * n
<1>3. x \in Int /\ i = x + k
  BY <1>2
<1>4. i - 1 = x + (k - 1)
  <2> HIDE DEF x
  <2> QED BY <1>3
<1>5. (i - 1) \div n = p - 1 /\ (i - 1) % n = k - 1
  BY <1>1, <1>2, <1>4
<1> QED BY <1>5

--------------------------------------------------------------------------------
(* The indices of the hook points                                                *)
Points == DOMAIN HOOK_SEQUENCE

LEMMA HookPoints ==
  /\ Points = 1..5 /\ Len(HOOK_SEQUENCE) = 5
  /\ \A p, q \in Points : HOOK_SEQUENCE[p] = HOOK_SEQUENCE[q] => p = q
  /\ Range(HOOK_SEQUENCE) = {HOOK_SEQUENCE[p] : p \in Points}
<1>1. Points = 1..5 /\ Len(HOOK_SEQUENCE) = 5
  BY DEF Points, HOOK_SEQUENCE
<1>2. \A p, q \in 1..5 : HOOK_SEQUENCE[p] = HOOK_SEQUENCE[q] => p = q
  BY DEF HOOK_SEQUENCE
<1> QED BY <1>1, <1>2 DEF Range, Points

CallRecords == [point : {HOOK_SEQUENCE[p] : p \in Points}, hook : Hooks, did : Outcomes]

(* A context has these fields and no other                                       *)
IsContext(c) ==
  c \in [decision : {c.decision}, shortCircuited : {c.shortCircuited}, evolved : {c.evolved}]

(* The registry: hooks are distinct, numbered while they are registered, sorted   *)
(* from then on.                                                               *)
Registry ==
  /\ IsRegistry(entries) /\ frozen \in BOOLEAN
  /\ ~frozen => pc = "setup" /\ \A i \in 1..Len(entries) : entries[i].seq = i - 1
  /\ frozen => /\ Len(entries) > 0
               /\ \A i \in 1..(Len(entries) - 1) : Before(entries[i], entries[i + 1])

(* Where a run is                                                                *)
Running ==
  /\ pc \in {"setup", "running", "notifying", "done"}
  /\ executed \in Seq(CallRecords)
  /\ run \in Nat /\ IsContext(start)
  /\ pc = "setup" => executed = <<>>
  /\ pc \in {"running", "notifying"} => index \in 1..Len(entries)
  /\ pc = "running" => point \in Points /\ Len(executed) = (point - 1) * Len(entries) + (index - 1)

(* The first conjunct of ExecutionOrder                                          *)
PointOf(i) == ((i - 1) \div Len(entries)) + 1
IndexOf(i) == ((i - 1) % Len(entries)) + 1

InPlace(c, i) == c.point = HOOK_SEQUENCE[PointOf(i)] /\ c.hook = entries[IndexOf(i)].hook

InOrder == \A i \in 1..Len(executed) : InPlace(executed[i], i)

(* The progress of the broadcast                                                 *)
Told(k) == /\ notified \in Seq([hook : Hooks, saw : {ctx}]) /\ Len(notified) = k
           /\ \A i \in 1..k : notified[i].hook = entries[i].hook

Broadcast ==
  /\ pc = "running" => failure = "none" /\ notified = <<>>
  /\ pc = "notifying" => failure \in Raises /\ Told(index - 1)
  /\ pc = "done" => IF failure = "none" THEN notified = <<>> ELSE Told(Len(entries))

OrderInv == Registry /\ Running /\ InOrder /\ Broadcast

LEMMA RegistryIs ==
  ASSUME Registry
  PROVE  /\ Len(entries) \in Nat /\ DOMAIN entries = 1..Len(entries)
         /\ \A i \in 1..Len(entries) : entries[i] \in EntryRecords
         /\ hooks \in Seq(Hooks) /\ Len(hooks) = Len(entries)
         /\ \A i \in 1..Len(entries) : hooks[i] = entries[i].hook /\ hooks[i] \in Hooks
         /\ DOMAIN hooks = 1..Len(entries)
<1>1. /\ Len(entries) \in Nat /\ DOMAIN entries = 1..Len(entries)
      /\ \A i \in 1..Len(entries) : entries[i] \in EntryRecords
  BY DEF Registry, IsRegistry
<1>2. /\ hooks = [i \in 1..Len(entries) |-> entries[i].hook]
      /\ \A i \in 1..Len(entries) : entries[i].hook \in Hooks
  BY <1>1 DEF hooks, EntryRecords
<1>3. hooks \in [1..Len(entries) -> Hooks]
  BY <1>2
<1>4. hooks \in Seq(Hooks) /\ Len(hooks) = Len(entries)
  BY <1>1, <1>3, FunIsSeq
<1> QED BY <1>1, <1>2, <1>4

LEMMA RegisterKeepsOrder ==
  ASSUME OrderInv, NEW h \in Hooks, NEW p \in Nat, Register(h, p)
  PROVE  OrderInv'
<1> DEFINE n == Len(entries)
           e == [priority |-> p, seq |-> n, hook |-> h]
<1>1. /\ ~frozen /\ entries' = Append(entries, e) /\ \A i \in 1..n : entries[i].hook # h
      /\ UNCHANGED <<frozen, pc, run, point, index, start, ctx, executed, failure, notified>>
  BY RegistryIs DEF Register, OrderInv
<1>2. /\ entries \in Seq(EntryRecords) /\ n \in Nat /\ e \in EntryRecords
      /\ e.hook = h /\ e.seq = n /\ pc = "setup"
      /\ \A i \in 1..n : entries[i].seq = i - 1
      /\ \A i, j \in 1..n : entries[i].hook = entries[j].hook => i = j
  BY <1>1, RegistryIs DEF OrderInv, Registry, EntryRecords, IsRegistry
<1> HIDE DEF n, e
<1>3. /\ entries' \in Seq(EntryRecords) /\ Len(entries') = n + 1 /\ entries'[n + 1] = e
      /\ \A i \in 1..n : entries'[i] = entries[i]
  BY <1>1, <1>2 DEF n
<1>4. \A i \in 1..(n + 1) : i \in 1..n \/ i = n + 1
  BY <1>2
<1>5. IsRegistry(entries')
  <2> SUFFICES ASSUME NEW i \in 1..(n + 1), NEW j \in 1..(n + 1), entries'[i].hook = entries'[j].hook
               PROVE  i = j
    BY <1>3 DEF IsRegistry
  <2> QED BY <1>1, <1>2, <1>3, <1>4
<1>6. \A i \in 1..(n + 1) : entries'[i].seq = i - 1
  BY <1>2, <1>3, <1>4
<1>7. Registry'
  BY <1>1, <1>2, <1>3, <1>5, <1>6 DEF Registry, OrderInv
<1>8. executed = <<>> /\ executed' = <<>>
  BY <1>1, <1>2 DEF OrderInv, Running
<1>9. Running' /\ InOrder' /\ Broadcast'
  BY <1>1, <1>2, <1>8 DEF OrderInv, Running, InOrder, Broadcast
<1> QED BY <1>7, <1>9 DEF OrderInv

LEMMA BuildKeepsOrder == ASSUME OrderInv, Build PROVE OrderInv'
<1>1. /\ ~frozen /\ frozen' /\ entries' = Sorted(entries) /\ entries # <<>>
      /\ UNCHANGED <<pc, run, point, index, start, ctx, executed, failure, notified>>
  BY DEF Build
<1>2. /\ IsRegistry(entries') /\ Len(entries') = Len(entries)
      /\ \A i \in 1..(Len(entries) - 1) : Before(entries'[i], entries'[i + 1])
  BY <1>1, SortedIsSorted DEF OrderInv, Registry
<1>3. Len(entries) > 0
  BY <1>1 DEF OrderInv, Registry, IsRegistry
<1>4. Registry'
  BY <1>1, <1>2, <1>3 DEF Registry, OrderInv
<1>5. pc = "setup" /\ executed = <<>>
  BY <1>1 DEF OrderInv, Registry, Running
<1>6. Running' /\ InOrder' /\ Broadcast'
  BY <1>1, <1>5 DEF OrderInv, Running, InOrder, Broadcast
<1> QED BY <1>4, <1>6 DEF OrderInv

LEMMA EnterKeepsOrder == ASSUME OrderInv, NEW c, IsContext(c), Enter(c) PROVE OrderInv'
<1>1. /\ frozen /\ pc' = "running" /\ run' = run + 1 /\ point' = 1 /\ index' = 1 /\ start' = c
      /\ executed' = <<>> /\ failure' = "none" /\ notified' = <<>> /\ UNCHANGED <<entries, frozen>>
  BY DEF Enter
<1>2. Len(entries) \in Nat /\ Len(entries) > 0
  BY <1>1, RegistryIs DEF OrderInv, Registry
<1>3. Registry'
  BY <1>1 DEF OrderInv, Registry
<1>4. Running'
  BY <1>1, <1>2, HookPoints DEF OrderInv, Running
<1> QED BY <1>1, <1>3, <1>4 DEF OrderInv, InOrder, Broadcast

(* The call of one hook, appended to the log in its place                        *)
LEMMA CallInOrder ==
  ASSUME OrderInv, pc = "running", NEW o \in Outcomes, Call(o), UNCHANGED entries
  PROVE  /\ executed' \in Seq(CallRecords)
         /\ Len(executed') = (point - 1) * Len(entries) + index
         /\ InOrder'
<1> DEFINE n == Len(entries)
           e == [point |-> HOOK_SEQUENCE[point], hook |-> hooks[index], did |-> o]
           m == Len(executed)
<1>1. /\ n \in Nat /\ index \in 1..n /\ point \in Points /\ executed \in Seq(CallRecords)
      /\ m = (point - 1) * n + (index - 1) /\ m \in Nat
  BY RegistryIs DEF OrderInv, Running
<1>2. e \in CallRecords /\ e.point = HOOK_SEQUENCE[point] /\ e.hook = entries[index].hook
  BY <1>1, RegistryIs DEF OrderInv, CallRecords
<1>3. executed' = Append(executed, e) /\ executed \in Seq(CallRecords) /\ m \in Nat
  BY <1>1 DEF Call
<1> HIDE DEF e
<1>4. /\ executed' \in Seq(CallRecords) /\ Len(executed') = m + 1 /\ executed'[m + 1] = e
      /\ \A i \in 1..m : executed'[i] = executed[i]
  BY <1>2, <1>3
<1>11. m + 1 = (point - 1) * n + index
  <2>1. (point - 1) * n \in Int
    BY <1>1, HookPoints
  <2> QED BY <1>1, <2>1
<1>5. PointOf(m + 1) = point /\ IndexOf(m + 1) = index
  <2>1. n \in Nat \ {0} /\ point \in Nat \ {0}
    BY <1>1, HookPoints
  <2> DEFINE i == m + 1
  <2>2. index \in 1..n /\ i = (point - 1) * n + index
    BY <1>1, <1>11
  <2> HIDE DEF i
  <2>3. ((i - 1) \div n) + 1 = point /\ ((i - 1) % n) + 1 = index
    <3> HIDE DEF n
    <3> QED BY <2>1, <2>2, Position
  <2>4. PointOf(i) = ((i - 1) \div n) + 1 /\ IndexOf(i) = ((i - 1) % n) + 1
    BY DEF PointOf, IndexOf
  <2> QED BY <2>3, <2>4 DEF i
<1> HIDE DEF n, m
<1>6. \A i \in 1..(m + 1) : i \in 1..m \/ i = m + 1
  BY <1>1
<1>7. InPlace(e, m + 1)
  BY <1>2, <1>5 DEF InPlace
<1>8. \A i \in 1..m : InPlace(executed[i], i)
  BY DEF OrderInv, InOrder, m
<1>9. \A i \in 1..(m + 1) : InPlace(executed'[i], i)
  BY <1>4, <1>6, <1>7, <1>8
<1>10. InOrder'
  <2>1. \A c, i : InPlace(c, i)' = InPlace(c, i)
    BY DEF InPlace, PointOf, IndexOf
  <2> QED BY <1>4, <1>9, <2>1 DEF InOrder
<1> QED BY <1>4, <1>10, <1>11 DEF n

LEMMA ReturnsKeepsOrder == ASSUME OrderInv, NEW o \in Outcomes, HookReturns(o) PROVE OrderInv'
<1> DEFINE n == Len(entries)
<1>1. /\ pc = "running" /\ Call(o) /\ UNCHANGED <<entries, frozen, run, start, failure, notified>>
      /\ index' = NextIndex
      /\ IF index = n THEN IF point = 5 THEN pc' = "done" /\ point' = point
                                        ELSE pc' = pc /\ point' = point + 1
                      ELSE UNCHANGED <<pc, point>>
  BY RegistryIs, HookPoints DEF HookReturns, OrderInv
<1>2. index' = IF index = n THEN 1 ELSE index + 1
  BY <1>1, RegistryIs DEF NextIndex, OrderInv
<1>3. /\ executed' \in Seq(CallRecords)
      /\ Len(executed') = (point - 1) * n + index /\ InOrder'
  BY <1>1, CallInOrder
<1>4. n \in Nat /\ index \in 1..n /\ point \in 1..5
  BY <1>1, RegistryIs, HookPoints DEF OrderInv, Running
<1>5. Registry'
  BY <1>1 DEF OrderInv, Registry
<1>6. pc' = "running" =>
        /\ index' \in 1..n /\ point' \in 1..5
        /\ Len(executed') = (point' - 1) * n + (index' - 1)
  <2> HIDE DEF n
  <2>1. CASE index = n
    <3>1. (point - 1) * n + n = point * n
      BY <1>4
    <3> QED BY <1>1, <1>2, <1>3, <1>4, <2>1, <3>1
  <2>2. CASE index # n
    <3>1. (point - 1) * n \in Int
      BY <1>4
    <3> QED BY <1>1, <1>2, <1>3, <1>4, <2>2, <3>1
  <2> QED BY <2>1, <2>2
<1>7. Running'
  BY <1>1, <1>3, <1>6, HookPoints DEF OrderInv, Running
<1>8. Broadcast'
  BY <1>1 DEF OrderInv, Broadcast
<1> QED BY <1>3, <1>5, <1>7, <1>8 DEF OrderInv

LEMMA RaisesKeepsOrder == ASSUME OrderInv, NEW o \in Outcomes, HookRaises(o) PROVE OrderInv'
<1>1. /\ pc = "running" /\ o \in Raises /\ Call(o) /\ failure' = o /\ pc' = "notifying" /\ index' = 1
      /\ UNCHANGED <<entries, frozen, run, point, start, notified>>
  BY DEF HookRaises
<1>2. /\ executed' \in Seq(CallRecords)
      /\ InOrder'
  BY <1>1, CallInOrder
<1>3. Registry'
  BY <1>1 DEF OrderInv, Registry
<1>4. 1 \in 1..Len(entries)
  BY <1>1, RegistryIs DEF OrderInv, Running
<1>5. Running'
  BY <1>1, <1>2, <1>4 DEF OrderInv, Running
<1>6. notified = <<>>
  BY <1>1 DEF OrderInv, Broadcast
<1>7. Broadcast'
  BY <1>1, <1>6 DEF Broadcast, Told
<1> QED BY <1>2, <1>3, <1>5, <1>7 DEF OrderInv

LEMMA NotifyKeepsOrder == ASSUME OrderInv, NEW raises \in BOOLEAN, Notify(raises) PROVE OrderInv'
<1> DEFINE n == Len(entries)
           e == [hook |-> hooks[index], saw |-> ctx]
           R == [hook : Hooks, saw : {ctx}]
<1>1. /\ pc = "notifying" /\ notified' = Append(notified, e)
      /\ pc' = (IF index = n THEN "done" ELSE pc) /\ index' = (IF index = n THEN 1 ELSE index + 1)
      /\ UNCHANGED <<entries, frozen, run, point, start, ctx, local, executed, failure>>
  BY RegistryIs DEF Notify, LastNotified, NextIndex, OrderInv
<1>2. /\ n \in Nat /\ index \in 1..n /\ notified \in Seq(R) /\ Len(notified) = index - 1
      /\ \A i \in 1..(index - 1) : notified[i].hook = entries[i].hook
      /\ failure \in Raises
  BY <1>1, RegistryIs DEF OrderInv, Running, Broadcast, Told
<1>3. e \in R /\ e.hook = entries[index].hook
  BY <1>2, RegistryIs DEF OrderInv
<1> HIDE DEF e, R, n
<1>4. /\ notified' \in Seq(R) /\ Len(notified') = index /\ notified'[index] = e
      /\ \A i \in 1..(index - 1) : notified'[i] = notified[i]
  BY <1>1, <1>2, <1>3
<1>5. \A i \in 1..index : notified'[i].hook = entries[i].hook
  <2>1. \A i \in 1..index : i \in 1..(index - 1) \/ i = index
    BY <1>2
  <2> QED BY <1>2, <1>3, <1>4, <2>1
<1>6. /\ notified' \in Seq([hook : Hooks, saw : {ctx'}])
      /\ \A i \in 1..index : notified'[i].hook = entries'[i].hook
  BY <1>1, <1>4, <1>5 DEF R
<1>7. Registry'
  BY <1>1 DEF OrderInv, Registry
<1>8. Running'
  BY <1>1, <1>2 DEF OrderInv, Running, n
<1>9. InOrder'
  BY <1>1 DEF OrderInv, InOrder, InPlace, PointOf, IndexOf
<1>10. Broadcast'
  <2>1. CASE index = n
    BY <1>1, <1>2, <1>4, <1>6, <2>1 DEF Broadcast, Told, n, Raises
  <2>2. CASE index # n
    BY <1>1, <1>2, <1>4, <1>6, <2>2 DEF Broadcast, Told, n
  <2> QED BY <2>1, <2>2
<1> QED BY <1>7, <1>8, <1>9, <1>10 DEF OrderInv
--------------------------------------------------------------------------------
(* The points before the q-th                                                    *)
Past(q) == {HOOK_SEQUENCE[p] : p \in 1..(q - 1)}

(* The calls at points of S, and what they make of the context c in run n          *)
Kept(log, S) == {i \in DOMAIN log : log[i].point \in S}
EvolvedOf(log, n, S) == {<<n, log[i].point, log[i].hook>> : i \in Kept(log, S)}
Allows(log, S) == \E i \in Kept(log, S) : log[i].did = "allow"

ContextOf(log, n, c, S) ==
  [decision |-> IF Allows(log, S) THEN "allow" ELSE c.decision,
   shortCircuited |-> c.shortCircuited,
   evolved |-> c.evolved \cup EvolvedOf(log, n, S)]

Completed(log, hs) ==
  {p \in Range(HOOK_SEQUENCE) : \A k \in DOMAIN hs : \E i \in DOMAIN log :
     log[i].point = p /\ log[i].hook = hs[k] /\ log[i].did \notin Raises}

(* The log has the hooks hs before the j-th at the q-th point, all of them at the   *)
(* points before, and nothing else; and nobody raised.                            *)
Covers(log, hs, q, j) ==
  /\ log \in Seq(CallRecords)
  /\ \A i \in 1..Len(log) :
       /\ log[i].did \notin Raises
       /\ \E p \in 1..q, k \in 1..Len(hs) :
            /\ log[i].point = HOOK_SEQUENCE[p] /\ log[i].hook = hs[k]
            /\ p < q \/ k < j
  /\ \A p \in 1..q, k \in 1..Len(hs) : p < q \/ k < j =>
       \E i \in 1..Len(log) : log[i].point = HOOK_SEQUENCE[p] /\ log[i].hook = hs[k]

CallOf(hs, q, j, o) == [point |-> HOOK_SEQUENCE[q], hook |-> hs[j], did |-> o]

LEMMA AppendIs ==
  ASSUME NEW log \in Seq(CallRecords), NEW e \in CallRecords
  PROVE  /\ Append(log, e) \in Seq(CallRecords) /\ Len(log) \in Nat
         /\ DOMAIN log = 1..Len(log)
         /\ DOMAIN Append(log, e) = 1..Len(log) \cup {Len(log) + 1}
         /\ Len(Append(log, e)) = Len(log) + 1
         /\ Append(log, e)[Len(log) + 1] = e
         /\ \A i \in 1..Len(log) : Append(log, e)[i] = log[i]
<1>1. Len(log) \in Nat
  OBVIOUS
<1>2. 1..(Len(log) + 1) = 1..Len(log) \cup {Len(log) + 1}
  BY <1>1
<1> QED BY <1>1, <1>2

LEMMA ContextFields ==
  ASSUME NEW c, IsContext(c), NEW d, NEW b, NEW x
  PROVE  /\ c = [decision |-> c.decision, shortCircuited |-> c.shortCircuited, evolved |-> c.evolved]
         /\ [c EXCEPT !.evolved = x, !.decision = d] =
              [decision |-> d, shortCircuited |-> c.shortCircuited, evolved |-> x]
         /\ IsContext([c EXCEPT !.shortCircuited = b, !.decision = d])
<1> DEFINE r == [c EXCEPT !.evolved = x, !.decision = d]
           t == [c EXCEPT !.shortCircuited = b, !.decision = d]
           D == {c.decision, d}
           B == {c.shortCircuited, b}
           V == {c.evolved, x}
<1>1. c \in [decision : D, shortCircuited : B, evolved : V]
  BY DEF IsContext
<1>2. d \in D /\ b \in B /\ x \in V
  OBVIOUS
<1> HIDE DEF D, B, V
<1>3. /\ r \in [decision : D, shortCircuited : B, evolved : V]
      /\ t \in [decision : D, shortCircuited : B, evolved : V]
  BY <1>1, <1>2
<1>4. r.decision = d /\ r.shortCircuited = c.shortCircuited /\ r.evolved = x
  BY <1>1, <1>2
<1> HIDE DEF r, t
<1>5. /\ c = [decision |-> c.decision, shortCircuited |-> c.shortCircuited, evolved |-> c.evolved]
      /\ r = [decision |-> r.decision, shortCircuited |-> r.shortCircuited, evolved |-> r.evolved]
  BY <1>1, <1>3
<1>6. IsContext(t)
  BY <1>3 DEF IsContext
<1>7. r = [decision |-> d, shortCircuited |-> c.shortCircuited, evolved |-> x]
  BY <1>4, <1>5
<1> QED BY <1>5, <1>6, <1>7 DEF r, t

Evolution(c, n, p, h, o) ==
  [decision |-> IF o = "allow" THEN "allow" ELSE c.decision,
   shortCircuited |-> c.shortCircuited, evolved |-> c.evolved \cup {<<n, p, h>>}]

LEMMA EvolveIs ==
  ASSUME NEW c, IsContext(c), NEW n, NEW p, NEW h, NEW o
  PROVE  Evolve(c, n, p, h, o) = Evolution(c, n, p, h, o)
BY ContextFields DEF Evolve, Evolution

LEMMA AfterFailureTyped ==
  ASSUME NEW c, IsContext(c), NEW o
  PROVE  IsContext(AfterFailure(c, o))
BY ContextFields DEF AfterFailure

LEMMA ContextTyped == ASSUME NEW log, NEW n, NEW c, NEW S PROVE IsContext(ContextOf(log, n, c, S))
<1> DEFINE r == ContextOf(log, n, c, S)
<1>1. r.decision = (IF Allows(log, S) THEN "allow" ELSE c.decision)
  BY DEF ContextOf
<1>2. r.shortCircuited = c.shortCircuited /\ r.evolved = c.evolved \cup EvolvedOf(log, n, S)
  BY DEF ContextOf
<1>3. r \in [decision : {r.decision}, shortCircuited : {r.shortCircuited}, evolved : {r.evolved}]
  BY <1>1, <1>2 DEF ContextOf
<1> QED BY <1>3 DEF IsContext

LEMMA EmptyContext ==
  ASSUME NEW c, IsContext(c), NEW n, NEW S
  PROVE  ContextOf(<<>>, n, c, S) = c
<1>1. EvolvedOf(<<>>, n, S) = {} /\ ~Allows(<<>>, S)
  BY DEF EvolvedOf, Allows, Kept
<1> QED BY <1>1, ContextFields DEF ContextOf

LEMMA ContextGrows ==
  ASSUME NEW log \in Seq(CallRecords), NEW hs \in Seq(Hooks), NEW q \in Points, NEW j \in 1..Len(hs),
         NEW o \in Outcomes, NEW n, NEW c, NEW S
  PROVE  ContextOf(Append(log, CallOf(hs, q, j, o)), n, c, S) =
           IF HOOK_SEQUENCE[q] \in S
           THEN Evolve(ContextOf(log, n, c, S), n, HOOK_SEQUENCE[q], hs[j], o)
           ELSE ContextOf(log, n, c, S)
<1> DEFINE e == CallOf(hs, q, j, o)
           new == Append(log, e)
           m == Len(log) + 1
<1>1. /\ e \in CallRecords /\ e.point = HOOK_SEQUENCE[q] /\ e.hook = hs[j] /\ e.did = o
  <2>1. hs[j] \in Hooks
    OBVIOUS
  <2> QED BY <2>1 DEF CallOf, CallRecords
<1> HIDE DEF e
<1>2. /\ DOMAIN new = DOMAIN log \cup {m} /\ m \notin DOMAIN log /\ new[m] = e
      /\ \A i \in DOMAIN log : new[i] = log[i]
  BY <1>1, AppendIs
<1> HIDE DEF new, m
<1>3. CASE HOOK_SEQUENCE[q] \in S
  <2>1. Kept(new, S) = Kept(log, S) \cup {m}
    BY <1>1, <1>2, <1>3 DEF Kept
  <2>2. EvolvedOf(new, n, S) = EvolvedOf(log, n, S) \cup {<<n, HOOK_SEQUENCE[q], hs[j]>>}
    BY <1>1, <1>2, <2>1 DEF Kept, EvolvedOf
  <2>3. Allows(new, S) <=> Allows(log, S) \/ o = "allow"
    BY <1>1, <1>2, <2>1 DEF Kept, Allows
  <2>5. Evolve(ContextOf(log, n, c, S), n, HOOK_SEQUENCE[q], hs[j], o) =
          [decision |-> IF o = "allow" THEN "allow" ELSE ContextOf(log, n, c, S).decision,
           shortCircuited |-> ContextOf(log, n, c, S).shortCircuited,
           evolved |-> ContextOf(log, n, c, S).evolved \cup {<<n, HOOK_SEQUENCE[q], hs[j]>>}]
    <3> DEFINE r == ContextOf(log, n, c, S)
    <3>1. IsContext(r)
      BY ContextTyped
    <3> HIDE DEF r
    <3>2. Evolve(r, n, HOOK_SEQUENCE[q], hs[j], o) = Evolution(r, n, HOOK_SEQUENCE[q], hs[j], o)
      BY <3>1, EvolveIs
    <3> QED BY <3>2 DEF r, Evolution
  <2>6. ContextOf(new, n, c, S) = Evolve(ContextOf(log, n, c, S), n, HOOK_SEQUENCE[q], hs[j], o)
    BY <2>2, <2>3, <2>5 DEF ContextOf
  <2> QED BY <1>3, <2>6 DEF new, e
<1>4. CASE HOOK_SEQUENCE[q] \notin S
  <2>1. Kept(new, S) = Kept(log, S)
    BY <1>1, <1>2, <1>4 DEF Kept
  <2>2. EvolvedOf(new, n, S) = EvolvedOf(log, n, S)
    BY <1>2, <2>1 DEF Kept, EvolvedOf
  <2>3. Allows(new, S) <=> Allows(log, S)
    BY <1>2, <2>1 DEF Kept, Allows
  <2>4. ContextOf(new, n, c, S) = ContextOf(log, n, c, S)
    BY <2>2, <2>3 DEF ContextOf
  <2> QED BY <1>4, <2>4 DEF new, e
<1> QED BY <1>3, <1>4 DEF new, e

LEMMA CoversGrows ==
  ASSUME NEW log, NEW hs \in Seq(Hooks), NEW q \in Points, NEW j \in 1..Len(hs), Covers(log, hs, q, j),
         NEW o \in Outcomes \ Raises
  PROVE  LET new == Append(log, CallOf(hs, q, j, o))
         IN /\ j # Len(hs) => Covers(new, hs, q, j + 1)
            /\ j = Len(hs) /\ q # 5 => Covers(new, hs, q + 1, 1)
            /\ j = Len(hs) /\ q = 5 => Completed(new, hs) = Range(HOOK_SEQUENCE)
<1> DEFINE e == CallOf(hs, q, j, o)
           new == Append(log, e)
           m == Len(log) + 1
<1>1. /\ e \in CallRecords /\ e.point = HOOK_SEQUENCE[q] /\ e.hook = hs[j] /\ e.did \notin Raises
  <2>1. hs[j] \in Hooks
    OBVIOUS
  <2> QED BY <2>1 DEF CallOf, CallRecords
<1>2. log \in Seq(CallRecords) /\ q \in 1..5 /\ Len(hs) \in Nat /\ DOMAIN hs = 1..Len(hs)
  BY HookPoints DEF Covers
<1> HIDE DEF e
<1>3. /\ new \in Seq(CallRecords) /\ Len(new) = m /\ new[m] = e /\ m \in Nat
      /\ DOMAIN new = 1..m /\ m \in 1..m
      /\ \A i \in 1..m : i \in 1..Len(log) \/ i = m
      /\ \A i \in 1..Len(log) : i \in 1..m /\ new[i] = log[i]
  BY <1>1, <1>2, AppendIs
<1> HIDE DEF new, m
<1>4. ASSUME NEW i \in 1..m
      PROVE  /\ new[i].did \notin Raises
             /\ \E p \in 1..q, k \in 1..Len(hs) :
                  /\ new[i].point = HOOK_SEQUENCE[p] /\ new[i].hook = hs[k]
                  /\ p < q \/ k < j \/ k = j
  <2>1. CASE i \in 1..Len(log)
    <3>1. /\ log[i].did \notin Raises
          /\ \E p \in 1..q, k \in 1..Len(hs) :
               /\ log[i].point = HOOK_SEQUENCE[p] /\ log[i].hook = hs[k]
               /\ p < q \/ k < j
      BY <2>1 DEF Covers
    <3>2. new[i] = log[i]
      BY <1>3, <2>1
    <3> QED BY <3>1, <3>2
  <2>2. CASE i = m
    <3>1. q \in 1..q
      BY <1>2
    <3> QED BY <1>1, <1>3, <2>2, <3>1
  <2> QED BY <1>3, <2>1, <2>2
<1>5. ASSUME NEW p \in 1..q, NEW k \in 1..Len(hs), p < q \/ k < j \/ k = j
      PROVE  \E i \in 1..m : new[i].point = HOOK_SEQUENCE[p] /\ new[i].hook = hs[k]
  <2>1. CASE p < q \/ k < j
    <3>1. PICK i \in 1..Len(log) : log[i].point = HOOK_SEQUENCE[p] /\ log[i].hook = hs[k]
      BY <2>1 DEF Covers
    <3> QED BY <1>3, <3>1
  <2>2. CASE p = q /\ k = j
    BY <1>1, <1>3, <2>2
  <2> QED BY <1>2, <1>5, <2>1, <2>2
<1>6. CASE j # Len(hs)
  <2>1. j + 1 \in Nat /\ \A k \in 1..Len(hs) : k < j + 1 <=> k < j \/ k = j
    BY <1>2
  <2>2. \A i \in 1..Len(new) :
          /\ new[i].did \notin Raises
          /\ \E p \in 1..q, k \in 1..Len(hs) :
               /\ new[i].point = HOOK_SEQUENCE[p] /\ new[i].hook = hs[k]
               /\ p < q \/ k < j + 1
    BY <1>3, <1>4, <2>1
  <2>3. \A p \in 1..q, k \in 1..Len(hs) : p < q \/ k < j + 1 =>
          \E i \in 1..Len(new) : new[i].point = HOOK_SEQUENCE[p] /\ new[i].hook = hs[k]
    BY <1>3, <1>5, <2>1
  <2>4. Covers(new, hs, q, j + 1)
    BY <1>3, <2>2, <2>3 DEF Covers
  <2> QED BY <1>6, <2>4 DEF new, e
<1>7. CASE j = Len(hs)
  <2>1. /\ \A k \in 1..Len(hs) : (k < j \/ k = j) /\ ~(k < 1)
        /\ \A p \in 1..(q + 1) : p < q + 1 <=> p \in 1..q
        /\ \A p \in 1..q : p \in 1..(q + 1)
    <3>1. \A l \in Nat : \A k \in 1..l : (k < l \/ k = l) /\ ~(k < 1)
      OBVIOUS
    <3>2. \A r \in 1..5 :
            /\ \A p \in 1..(r + 1) : p < r + 1 <=> p \in 1..r
            /\ \A p \in 1..r : p \in 1..(r + 1)
      OBVIOUS
    <3>3. \A k \in 1..Len(hs) : (k < Len(hs) \/ k = Len(hs)) /\ ~(k < 1)
      BY <1>2, <3>1
    <3>4. /\ \A p \in 1..(q + 1) : p < q + 1 <=> p \in 1..q
          /\ \A p \in 1..q : p \in 1..(q + 1)
      BY <1>2, <3>2
    <3> QED BY <1>7, <3>3, <3>4
  <2>2. Covers(new, hs, q + 1, 1)
    <3>1. \A i \in 1..Len(new) :
           /\ new[i].did \notin Raises
           /\ \E p \in 1..(q + 1), k \in 1..Len(hs) :
                /\ new[i].point = HOOK_SEQUENCE[p] /\ new[i].hook = hs[k]
                /\ p < q + 1 \/ k < 1
      BY <1>3, <1>4, <2>1
    <3>2. \A p \in 1..(q + 1), k \in 1..Len(hs) : p < q + 1 \/ k < 1 =>
            \E i \in 1..Len(new) : new[i].point = HOOK_SEQUENCE[p] /\ new[i].hook = hs[k]
      BY <1>3, <1>5, <2>1
    <3> QED BY <1>3, <3>1, <3>2 DEF Covers
  <2>3. q = 5 => Completed(new, hs) = Range(HOOK_SEQUENCE)
    <3>1. ASSUME q = 5, NEW p \in 1..5, NEW k \in 1..Len(hs)
          PROVE  \E i \in DOMAIN new : /\ new[i].point = HOOK_SEQUENCE[p] /\ new[i].hook = hs[k]
                                       /\ new[i].did \notin Raises
      <4>1. PICK i \in 1..m : new[i].point = HOOK_SEQUENCE[p] /\ new[i].hook = hs[k]
        BY <1>5, <2>1, <3>1
      <4> QED BY <1>3, <1>4, <4>1
    <3>2. Range(HOOK_SEQUENCE) = {HOOK_SEQUENCE[p] : p \in 1..5}
      BY HookPoints
    <3>3. ASSUME q = 5, NEW p \in 1..5
          PROVE  \A k \in DOMAIN hs : \E i \in DOMAIN new :
                   new[i].point = HOOK_SEQUENCE[p] /\ new[i].hook = hs[k] /\ new[i].did \notin Raises
      BY <1>2, <3>1, <3>3
    <3>4. q = 5 => \A x \in Range(HOOK_SEQUENCE) : \A k \in DOMAIN hs : \E i \in DOMAIN new :
                     new[i].point = x /\ new[i].hook = hs[k] /\ new[i].did \notin Raises
      BY <3>2, <3>3
    <3> QED BY <3>4 DEF Completed
  <2> QED BY <1>7, <2>2, <2>3 DEF new, e
<1> QED BY <1>6, <1>7

(* When a point begins, those before it are the only ones in the log              *)
LEMMA SameContext ==
  ASSUME NEW log, NEW hs \in Seq(Hooks), NEW q \in Points, NEW n, NEW c, Covers(log, hs, q, 1)
  PROVE  ContextOf(log, n, c, Past(q + 1)) = ContextOf(log, n, c, Past(q))
<1>1. q \in 1..5 /\ DOMAIN log = 1..Len(log) /\ Len(hs) \in Nat
  BY HookPoints DEF Covers
<1>2. ASSUME NEW i \in DOMAIN log PROVE log[i].point \in Past(q) /\ log[i].point \in Past(q + 1)
  <2>1. PICK p \in 1..q, k \in 1..Len(hs) : log[i].point = HOOK_SEQUENCE[p] /\ (p < q \/ k < 1)
    BY <1>1 DEF Covers
  <2>2. p \in 1..(q - 1) /\ p \in 1..((q + 1) - 1)
    BY <1>1, <2>1
  <2>3. HOOK_SEQUENCE[p] \in Past(q)
    BY <2>2 DEF Past
  <2>4. HOOK_SEQUENCE[p] \in Past(q + 1)
    BY <2>2 DEF Past
  <2> QED BY <2>1, <2>3, <2>4
<1>3. Kept(log, Past(q)) = Kept(log, Past(q + 1))
  BY <1>2 DEF Kept
<1> QED BY <1>3 DEF ContextOf, EvolvedOf, Allows

(* When a hook raises, the points before its own are the completed ones            *)
LEMMA CompletedFails ==
  ASSUME NEW log, NEW hs \in Seq(Hooks), NEW q \in Points, NEW j \in 1..Len(hs), Covers(log, hs, q, j),
         \A k, l \in 1..Len(hs) : hs[k] = hs[l] => k = l,
         NEW o \in Outcomes \cap Raises
  PROVE  Completed(Append(log, CallOf(hs, q, j, o)), hs) = Past(q)
<1> DEFINE e == CallOf(hs, q, j, o)
           new == Append(log, e)
           m == Len(log) + 1
<1>1. /\ e \in CallRecords /\ e.point = HOOK_SEQUENCE[q] /\ e.hook = hs[j] /\ e.did \in Raises
  <2>1. hs[j] \in Hooks
    OBVIOUS
  <2> QED BY <2>1 DEF CallOf, CallRecords
<1>2. log \in Seq(CallRecords) /\ q \in 1..5 /\ Len(hs) \in Nat /\ DOMAIN hs = 1..Len(hs)
  BY HookPoints DEF Covers
<1> HIDE DEF e
<1>3. /\ DOMAIN new = 1..Len(log) \cup {m} /\ new[m] = e
      /\ \A i \in 1..Len(log) : new[i] = log[i]
  BY <1>1, <1>2, AppendIs
<1> HIDE DEF new, m
<1>4. ASSUME NEW p \in 1..(q - 1), NEW k \in 1..Len(hs)
      PROVE  \E i \in DOMAIN new : /\ new[i].point = HOOK_SEQUENCE[p] /\ new[i].hook = hs[k]
                                   /\ new[i].did \notin Raises
  <2>1. p \in 1..q /\ p < q
    BY <1>2
  <2>2. PICK i \in 1..Len(log) : log[i].point = HOOK_SEQUENCE[p] /\ log[i].hook = hs[k]
    BY <2>1 DEF Covers
  <2>3. log[i].did \notin Raises
    BY DEF Covers
  <2> QED BY <1>3, <2>2, <2>3
<1>5. ASSUME NEW p \in 1..5, p \notin 1..(q - 1), NEW i \in DOMAIN new, new[i].did \notin Raises,
             new[i].point = HOOK_SEQUENCE[p], new[i].hook = hs[j]
      PROVE  FALSE
  <2>1. i \in 1..Len(log) /\ new[i] = log[i]
    BY <1>1, <1>3, <1>5
  <2>2. PICK r \in 1..q, k \in 1..Len(hs) :
          log[i].point = HOOK_SEQUENCE[r] /\ log[i].hook = hs[k] /\ (r < q \/ k < j)
    BY <2>1 DEF Covers
  <2>3. r \in 1..5 /\ r = p
    <3>1. r \in 1..5
      BY <1>2
    <3> QED BY <1>5, <2>1, <2>2, <3>1, HookPoints
  <2>4. k = j
    BY <1>5, <2>1, <2>2
  <2> QED BY <1>2, <1>5, <2>2, <2>3, <2>4
<1>6. \A p \in 1..5 : HOOK_SEQUENCE[p] \in Completed(new, hs) => p \in 1..(q - 1)
  BY <1>2, <1>5 DEF Completed
<1>7. Range(HOOK_SEQUENCE) = {HOOK_SEQUENCE[p] : p \in 1..5}
  BY HookPoints
<1>8. Completed(new, hs) \subseteq Past(q)
  <2> SUFFICES ASSUME NEW x \in Completed(new, hs) PROVE x \in Past(q)
    OBVIOUS
  <2>1. PICK p \in 1..5 : x = HOOK_SEQUENCE[p]
    BY <1>7 DEF Completed
  <2>2. p \in 1..(q - 1)
    BY <1>6, <2>1
  <2> QED BY <2>1, <2>2 DEF Past
<1>9. ASSUME NEW p \in 1..(q - 1) PROVE HOOK_SEQUENCE[p] \in Completed(new, hs)
  <2>1. HOOK_SEQUENCE[p] \in Range(HOOK_SEQUENCE)
    BY <1>2, <1>7
  <2>2. \A k \in DOMAIN hs : \E i \in DOMAIN new :
          new[i].point = HOOK_SEQUENCE[p] /\ new[i].hook = hs[k] /\ new[i].did \notin Raises
    BY <1>2, <1>4
  <2> QED BY <2>1, <2>2 DEF Completed
<1>10. Completed(new, hs) = Past(q)
  BY <1>8, <1>9 DEF Past
<1> QED BY <1>10 DEF new, e

--------------------------------------------------------------------------------
(* What the contexts of a run are, in terms of its log                           *)
Trace ==
  /\ pc = "running" =>
       /\ Covers(executed, hooks, point, index)
       /\ ctx = ContextOf(executed, run, start, Past(point))
       /\ local = ContextOf(executed, run, start, Past(point + 1))
  /\ pc \in {"notifying", "done"} => ctx = ExpectedContext /\ IsContext(ctx)

(* What a run should return, from its log                                        *)
Result ==
  LET base == ContextOf(executed, run, start, Completed(executed, hooks))
  IN IF failure = "none" THEN base ELSE AfterFailure(base, failure)

LEMMA ExpectedIs == IsContext(start) => ExpectedContext = Result
<1> SUFFICES ASSUME IsContext(start) PROVE ExpectedContext = Result
  OBVIOUS
<1> DEFINE completed == CompletedPoints
           kept == {i \in DOMAIN executed : executed[i].point \in completed}
           base == [start EXCEPT
                 !.evolved = @ \cup {<<run, executed[i].point, executed[i].hook>> : i \in kept},
                 !.decision = IF \E i \in kept : executed[i].did = "allow"
                              THEN "allow" ELSE @]
<1>1. CompletedPoints = Completed(executed, hooks)
  BY DEF CompletedPoints, Completed
<1>2. kept = Kept(executed, Completed(executed, hooks))
  BY <1>1 DEF Kept
<1>3. base = [decision |-> IF \E i \in kept : executed[i].did = "allow"
                          THEN "allow" ELSE start.decision,
              shortCircuited |-> start.shortCircuited,
              evolved |-> start.evolved \cup
                {<<run, executed[i].point, executed[i].hook>> : i \in kept}]
  <2> HIDE DEF kept
  <2> QED BY ContextFields
<1> HIDE DEF kept
<1>4. base = ContextOf(executed, run, start, Completed(executed, hooks))
  <2> HIDE DEF base
  <2> QED BY <1>2, <1>3 DEF ContextOf, EvolvedOf, Allows
<1>5. ExpectedContext = IF failure = "none" THEN base ELSE AfterFailure(base, failure)
  BY DEF ExpectedContext, kept
<1> HIDE DEF base
<1> QED BY <1>4, <1>5 DEF Result

LEMMA EnterKeepsTrace ==
  ASSUME OrderInv, NEW c, IsContext(c), Enter(c)
  PROVE  Trace'
<1>1. /\ pc' = "running" /\ point' = 1 /\ index' = 1 /\ start' = c /\ ctx' = c /\ local' = c
      /\ executed' = <<>> /\ UNCHANGED <<entries, frozen>>
  BY DEF Enter
<1>2. Covers(<<>>, hooks', 1, 1)
  <2>1. <<>> \in Seq(CallRecords) /\ Len(<<>>) = 0 /\ 1..0 = {}
    OBVIOUS
  <2>2. \A p \in 1..1, k \in 1..Len(hooks') : ~(p < 1) /\ ~(k < 1)
    <3>1. \A k \in 1..Len(hooks') : k >= 1
      OBVIOUS
    <3> QED BY <3>1
  <2> QED BY <2>1, <2>2 DEF Covers
<1>3. ContextOf(<<>>, run', c, Past(1)) = c /\ ContextOf(<<>>, run', c, Past(1 + 1)) = c
  BY EmptyContext
<1> QED BY <1>1, <1>2, <1>3 DEF Trace

LEMMA ReturnsKeepsTrace == ASSUME OrderInv, Trace, NEW o \in Outcomes, HookReturns(o) PROVE Trace'
<1> DEFINE n == Len(hooks)
           new == executed'
<1>1. /\ pc = "running" /\ o \in Outcomes \ Raises
      /\ new = Append(executed, CallOf(hooks, point, index, o))
      /\ local' = Evolve(local, run, HOOK_SEQUENCE[point], hooks[index], o)
      /\ ctx' = (IF index = n THEN local' ELSE ctx)
      /\ index' = (IF index = n THEN 1 ELSE index + 1)
      /\ IF index = n THEN IF point = 5 THEN pc' = "done" /\ point' = point
                                        ELSE pc' = pc /\ point' = point + 1
                      ELSE UNCHANGED <<pc, point>>
      /\ UNCHANGED <<entries, frozen, run, start, failure, notified>>
  BY HookPoints DEF HookReturns, Call, CallOf, Commit, NextIndex, Returns, Raises
<1>2. /\ hooks \in Seq(Hooks) /\ n \in Nat /\ n = Len(entries) /\ index \in 1..n
      /\ point \in Points /\ point \in 1..5 /\ IsContext(start) /\ failure = "none" /\ hooks' = hooks
  <2>1. hooks' = hooks
    BY <1>1 DEF hooks
  <2> QED BY <1>1, <2>1, RegistryIs, HookPoints DEF OrderInv, Running, Broadcast
<1>3. /\ Covers(executed, hooks, point, index) /\ executed \in Seq(CallRecords)
      /\ ctx = ContextOf(executed, run, start, Past(point))
      /\ local = ContextOf(executed, run, start, Past(point + 1))
  BY <1>1 DEF Trace, Covers
<1>4. HOOK_SEQUENCE[point] \in Past(point + 1) /\ HOOK_SEQUENCE[point] \notin Past(point)
  <2>1. point \in 1..((point + 1) - 1)
    BY <1>2
  <2>2. \A p \in 1..(point - 1) : p \in Points /\ p # point
    BY <1>2, HookPoints
  <2>3. HOOK_SEQUENCE[point] \in Past(point + 1)
    BY <2>1 DEF Past
  <2> QED BY <1>2, <2>2, <2>3, HookPoints DEF Past
<1>5. /\ local' = ContextOf(new, run, start, Past(point + 1))
      /\ ctx = ContextOf(new, run, start, Past(point))
  BY <1>1, <1>2, <1>3, <1>4, ContextGrows
<1>6. /\ index # n => Covers(new, hooks, point, index + 1)
      /\ index = n /\ point # 5 => Covers(new, hooks, point + 1, 1)
      /\ index = n /\ point = 5 => Completed(new, hooks) = Range(HOOK_SEQUENCE)
  BY <1>1, <1>2, <1>3, CoversGrows
<1> HIDE DEF n, new
<1>7. CASE index # n
  BY <1>1, <1>2, <1>5, <1>6, <1>7 DEF Trace, new
<1>8. CASE index = n /\ point # 5
  <2>1. point + 1 \in Points
    BY <1>2, <1>8, HookPoints
  <2>2. ContextOf(new, run, start, Past((point + 1) + 1)) = ContextOf(new, run, start, Past(point + 1))
    BY <1>2, <1>6, <1>8, <2>1, SameContext
  <2> QED BY <1>1, <1>2, <1>5, <1>6, <1>8, <2>2 DEF Trace, new
<1>9. CASE index = n /\ point = 5
  <2>1. Past(point + 1) = Range(HOOK_SEQUENCE)
    <3>1. 1..((5 + 1) - 1) = 1..5
      OBVIOUS
    <3> QED BY <1>9, <3>1, HookPoints DEF Past
  <2>2. ctx' = ContextOf(new, run, start, Completed(new, hooks))
    BY <1>1, <1>5, <1>6, <1>9, <2>1
  <2>3. IsContext(start') /\ failure' = "none" /\ run' = run /\ start' = start /\ hooks' = hooks
    BY <1>1, <1>2
  <2>4. (IsContext(start) => ExpectedContext = Result)'
    BY ExpectedIs, PTL
  <2>5. ctx' = ExpectedContext' /\ IsContext(ctx')
    BY <2>2, <2>3, <2>4, ContextTyped DEF new, Result
  <2> QED BY <1>1, <1>9, <2>5 DEF Trace
<1> QED BY <1>7, <1>8, <1>9

LEMMA RaisesKeepsTrace == ASSUME OrderInv, Trace, NEW o \in Outcomes, HookRaises(o) PROVE Trace'
<1> DEFINE new == executed'
<1>1. /\ pc = "running" /\ o \in Outcomes \cap Raises
      /\ new = Append(executed, CallOf(hooks, point, index, o))
      /\ failure' = o /\ ctx' = AfterFailure(ctx, o) /\ pc' = "notifying"
      /\ UNCHANGED <<entries, run, start>>
  BY DEF HookRaises, Call, CallOf
<1>2. /\ hooks \in Seq(Hooks) /\ index \in 1..Len(hooks) /\ Len(hooks) \in Nat
      /\ point \in Points /\ point \in 1..5 /\ IsContext(start) /\ hooks' = hooks
  <2>1. hooks' = hooks
    BY <1>1 DEF hooks
  <2> QED BY <1>1, <2>1, RegistryIs, HookPoints DEF OrderInv, Running
<1>3. \A k, l \in 1..Len(hooks) : hooks[k] = hooks[l] => k = l
  BY RegistryIs DEF OrderInv, Registry, IsRegistry
<1>4. /\ Covers(executed, hooks, point, index) /\ executed \in Seq(CallRecords)
      /\ ctx = ContextOf(executed, run, start, Past(point))
  BY <1>1 DEF Trace, Covers
<1>5. HOOK_SEQUENCE[point] \notin Past(point)
  <2>1. \A p \in 1..(point - 1) : p \in Points /\ p # point
    BY <1>2, HookPoints
  <2> QED BY <1>2, <2>1, HookPoints DEF Past
<1>6. ctx = ContextOf(new, run, start, Past(point))
  BY <1>1, <1>2, <1>4, <1>5, ContextGrows
<1>7. Completed(new, hooks) = Past(point)
  BY <1>1, <1>2, <1>3, <1>4, CompletedFails
<1> HIDE DEF new
<1>8. o # "none"
  BY <1>1 DEF Raises
<1>9. (IsContext(start) => ExpectedContext = Result)'
  BY ExpectedIs, PTL
<1>10. ctx' = ExpectedContext'
  BY <1>1, <1>2, <1>6, <1>7, <1>8, <1>9 DEF new, Result
<1>11. IsContext(ctx')
  <2>1. IsContext(ctx)
    BY <1>6, ContextTyped
  <2> QED BY <1>1, <2>1, AfterFailureTyped
<1> QED BY <1>1, <1>10, <1>11 DEF Trace

LEMMA NotifyKeepsTrace == ASSUME OrderInv, Trace, NEW raises \in BOOLEAN, Notify(raises) PROVE Trace'
<1>1. /\ pc = "notifying" /\ pc' \in {"notifying", "done"}
      /\ UNCHANGED <<entries, run, start, ctx, executed, failure>>
  BY DEF Notify
<1>2. ExpectedContext' = ExpectedContext
  BY <1>1 DEF ExpectedContext, CompletedPoints, hooks
<1> QED BY <1>1, <1>2 DEF Trace
--------------------------------------------------------------------------------
PipelineInv == OrderInv /\ Trace

LEMMA InitInv == ASSUME Init PROVE PipelineInv
<1>1. Registry
  <2>1. <<>> \in Seq(EntryRecords) /\ Len(<<>>) = 0 /\ 1..0 = {}
    OBVIOUS
  <2> QED BY <2>1 DEF Init, Registry, IsRegistry
<1>2. IsContext(FreshContext)
  BY DEF IsContext, FreshContext
<1>3. Running
  BY <1>2 DEF Init, Running
<1> QED BY <1>1, <1>3 DEF Init, PipelineInv, OrderInv, InOrder, Broadcast, Trace

LEMMA ExecuteKeeps == ASSUME PipelineInv, Execute PROVE PipelineInv'
<1>1. IsContext(FreshContext)
  BY DEF IsContext, FreshContext
<1>2. PICK c \in {FreshContext, ctx} : IsContext(c) /\ Enter(c)
  BY <1>1 DEF Execute, PipelineInv, Trace
<1> QED BY <1>2, EnterKeepsOrder, EnterKeepsTrace DEF PipelineInv

LEMMA HookStepKeeps ==
  ASSUME PipelineInv, \E o \in Outcomes : HookReturns(o) \/ HookRaises(o)
  PROVE  PipelineInv'
BY ReturnsKeepsOrder, ReturnsKeepsTrace, RaisesKeepsOrder, RaisesKeepsTrace DEF PipelineInv

LEMMA NotifyKeeps == ASSUME PipelineInv, NEW raises \in BOOLEAN, Notify(raises) PROVE PipelineInv'
BY NotifyKeepsOrder, NotifyKeepsTrace DEF PipelineInv

LEMMA RegisterKeeps ==
  ASSUME PipelineInv, NEW h \in Hooks, NEW p \in Nat, Register(h, p)
  PROVE  PipelineInv'
<1>1. pc = "setup" /\ pc' = pc
  BY DEF Register, PipelineInv, OrderInv, Registry
<1> QED BY <1>1, RegisterKeepsOrder DEF PipelineInv, Trace

LEMMA BuildKeeps == ASSUME PipelineInv, Build PROVE PipelineInv'
<1>1. pc = "setup" /\ pc' = pc
  BY DEF Build, PipelineInv, OrderInv, Registry
<1> QED BY <1>1, BuildKeepsOrder DEF PipelineInv, Trace

LEMMA StutterKeeps == ASSUME PipelineInv, UNCHANGED vars PROVE PipelineInv'
<1>1. ExpectedContext' = ExpectedContext
  BY DEF vars, ExpectedContext, CompletedPoints, hooks
<1>2. hooks' = hooks
  BY DEF vars, hooks
<1>3. Trace'
  BY <1>1, <1>2 DEF vars, PipelineInv, Trace
<1> QED BY <1>3 DEF vars, PipelineInv, OrderInv, Registry, Running, InOrder, InPlace, PointOf, IndexOf,
     Broadcast, Told

LEMMA ExitKeeps == ASSUME PipelineInv, Exit, frozen PROVE PipelineInv'
<1>1. /\ pc' = "setup" /\ run' = 0 /\ start' = FreshContext /\ executed' = <<>>
      /\ UNCHANGED <<entries, frozen>>
  BY DEF Exit
<1>2. IsContext(FreshContext)
  BY DEF IsContext, FreshContext
<1>3. Registry'
  BY <1>1 DEF PipelineInv, OrderInv, Registry
<1>4. Running'
  BY <1>1, <1>2 DEF Running
<1> QED BY <1>1, <1>3, <1>4 DEF PipelineInv, OrderInv, InOrder, Broadcast, Trace

(* The stages of the process: what teardown_all has reached                      *)
Stages ==
  /\ loaded \in Seq(PluginNames) /\ ended \in Seq(PluginNames)
  /\ \A i \in 1..Len(ended) : ended[i] = loaded[Len(loaded) + 1 - i]
  /\ stage \in {"first", "plugins", "last", "built"} => ~frozen
  /\ stage \in {"serving", "exiting"} => frozen
  /\ stage \notin {"exiting", "gone"} => ended = <<>>
  /\ stage = "exiting" => Len(ended) < Len(loaded)
  /\ stage = "gone" => IF frozen THEN Len(ended) = Len(loaded) ELSE ended = <<>>

ProcessInv == PipelineInv /\ Stages

LEMMA RegisterOwnKeeps ==
  ASSUME ProcessInv, NEW own \in {OwnFirst, OwnLast}, NEW before, NEW after,
         <<before, after>> \in {<<"first", "plugins">>, <<"last", "built">>},
         RegisterOwn(own, before, after)
  PROVE  ProcessInv'
<1>1. PICK i \in DOMAIN own : /\ stage = before /\ Register(own[i].hook, own[i].priority)
                             /\ stage' \in {before, after} /\ UNCHANGED <<loaded, ended>>
  BY DEF RegisterOwn
<1>2. own[i].hook \in Hooks /\ own[i].priority \in Nat
  <2>1. own[i] \in [hook : Hooks \ PluginNames, priority : Nat]
    BY PluginAssumption DEF Range
  <2> QED BY <2>1
<1>3. PipelineInv'
  BY <1>1, <1>2, RegisterKeeps DEF ProcessInv
<1>4. frozen' = frozen
  BY <1>1 DEF Register
<1>5. /\ stage \in {"first", "last"} /\ stage' \in {"first", "last", "plugins", "built"}
  BY <1>1
<1>6. Stages'
  BY <1>1, <1>4, <1>5 DEF ProcessInv, Stages
<1> QED BY <1>3, <1>6 DEF ProcessInv

LEMMA LoadKeeps == ASSUME ProcessInv, NEW n \in PluginNames, LoadPlugin(n) PROVE ProcessInv'
<1>1. /\ stage = "plugins" /\ loaded' = Append(loaded, n) /\ UNCHANGED <<stage, ended>>
      /\ UNCHANGED vars \/ \E p \in Priorities : Register(n, p)
  BY DEF LoadPlugin
<1>2. PipelineInv' /\ frozen' = frozen
  <2>1. CASE UNCHANGED vars
    BY <2>1, StutterKeeps DEF ProcessInv, vars
  <2>2. ASSUME NEW p \in Priorities, Register(n, p) PROVE PipelineInv' /\ frozen' = frozen
    <3>1. p \in Nat /\ n \in Hooks
      BY PipelineAssumption, PluginAssumption
    <3> QED BY <2>2, <3>1, RegisterKeeps DEF ProcessInv, Register
  <2> QED BY <1>1, <2>1, <2>2
<1>3. loaded' \in Seq(PluginNames)
  BY <1>1 DEF ProcessInv, Stages
<1>4. ended = <<>> /\ ended' = <<>> /\ ended' \in Seq(PluginNames) /\ 1..Len(<<>>) = {}
  BY <1>1 DEF ProcessInv, Stages
<1>5. Stages'
  BY <1>1, <1>2, <1>3, <1>4 DEF ProcessInv, Stages
<1> QED BY <1>2, <1>5 DEF ProcessInv

LEMMA TeardownKeeps == ASSUME ProcessInv, NEW raises \in BOOLEAN, Teardown(raises) PROVE ProcessInv'
<1> DEFINE n == Len(loaded)
           m == Len(ended)
<1>1. /\ stage = "exiting" /\ ended' = Append(ended, loaded[n - m]) /\ UNCHANGED <<vars, loaded>>
      /\ stage' = IF m + 1 = n THEN "gone" ELSE "exiting"
  BY DEF Teardown, LastTornDown
<1>2. /\ n \in Nat /\ m \in Nat /\ m < n /\ frozen /\ frozen' = frozen
      /\ loaded \in Seq(PluginNames) /\ ended \in Seq(PluginNames) /\ n - m \in 1..n
  BY <1>1 DEF ProcessInv, Stages, vars
<1>3. loaded[n - m] \in PluginNames
  BY <1>2
<1>4. /\ ended' \in Seq(PluginNames) /\ Len(ended') = m + 1
      /\ ended'[m + 1] = loaded[n - m] /\ \A i \in 1..m : ended'[i] = ended[i]
  BY <1>1, <1>2, <1>3
<1>5. \A i \in 1..m : ended[i] = loaded[n + 1 - i]
  BY DEF ProcessInv, Stages
<1> HIDE DEF n, m
<1>6. ASSUME NEW i \in 1..(m + 1) PROVE ended'[i] = loaded[n + 1 - i]
  <2>1. CASE i = m + 1
    <3>1. n + 1 - i = n - m
      BY <1>2, <2>1
    <3> QED BY <1>4, <2>1, <3>1
  <2>2. CASE i # m + 1
    <3>1. i \in 1..m
      BY <1>2, <2>2
    <3> QED BY <1>4, <1>5, <3>1
  <2> QED BY <2>1, <2>2
<1>7. Stages'
  BY <1>1, <1>2, <1>4, <1>6 DEF Stages, n
<1>8. PipelineInv'
  BY <1>1, StutterKeeps DEF ProcessInv
<1> QED BY <1>7, <1>8 DEF ProcessInv

LEMMA ProcessKeeps == ASSUME ProcessInv, [PluginNext]_allVars PROVE ProcessInv'
<1>1. CASE RegisterOwn(OwnFirst, "first", "plugins")
  BY <1>1, RegisterOwnKeeps
<1>2. CASE \E n \in PluginNames : LoadPlugin(n)
  BY <1>2, LoadKeeps
<1>3. CASE LoadFails
  BY <1>3, StutterKeeps DEF LoadFails, ProcessInv, Stages, vars
<1>4. CASE AllLoaded
  BY <1>4, StutterKeeps DEF AllLoaded, ProcessInv, Stages, vars
<1>5. CASE RegisterOwn(OwnLast, "last", "built")
  BY <1>5, RegisterOwnKeeps
<1>6. CASE BuildPipeline
  BY <1>6, BuildKeeps DEF BuildPipeline, Build, ProcessInv, Stages
<1>7. CASE ServeRequests
  <2>1. PipelineInv'
    BY <1>7, ExecuteKeeps, HookStepKeeps, NotifyKeeps DEF ServeRequests, ProcessInv
  <2>2. frozen' = frozen
    BY <1>7 DEF ServeRequests, Execute, Enter, HookReturns, HookRaises, Notify
  <2> QED BY <1>7, <2>1, <2>2 DEF ServeRequests, process, ProcessInv, Stages
<1>8. CASE Exit
  <2>1. frozen /\ stage = "serving" /\ UNCHANGED <<frozen, loaded, ended>>
        /\ stage' = (IF loaded = <<>> THEN "gone" ELSE "exiting")
    BY <1>8 DEF Exit, ProcessInv, Stages
  <2>2. ended = <<>> /\ Len(ended) = 0 /\ loaded \in Seq(PluginNames)
    BY <2>1 DEF ProcessInv, Stages
  <2>3. Len(loaded) \in Nat /\ (loaded = <<>> <=> Len(loaded) = 0)
    BY <2>2, EmptySeq
  <2>4. Stages'
    BY <2>1, <2>2, <2>3 DEF ProcessInv, Stages
  <2> QED BY <1>8, <2>1, <2>4, ExitKeeps DEF ProcessInv
<1>9. CASE \E raises \in BOOLEAN : Teardown(raises)
  BY <1>9, TeardownKeeps
<1>10. CASE UNCHANGED allVars
  BY <1>10, StutterKeeps DEF allVars, process, ProcessInv, Stages, vars
<1> QED BY <1>1, <1>2, <1>3, <1>4, <1>5, <1>6, <1>7, <1>8, <1>9, <1>10 DEF PluginNext

LEMMA ProcessStarts == ASSUME PluginInit PROVE ProcessInv
<1>1. PipelineInv
  BY InitInv DEF PluginInit
<1>2. Stages
  <2>1. <<>> \in Seq(PluginNames) /\ 1..Len(<<>>) = {}
    OBVIOUS
  <2> QED BY <2>1 DEF PluginInit, Init, Stages
<1> QED BY <1>1, <1>2 DEF ProcessInv

LEMMA AlwaysInv == PluginSpec => []ProcessInv
BY ProcessStarts, ProcessKeeps, PTL DEF PluginSpec

(* The hooks of every run of the pipeline, in any process from registration to    *)
(* exit, are called in the order of (point, priority, registration), none skipped *)
(* and none called twice (Pipeline._execute_hook_point).                        *)
THEOREM HooksRunInOrder == PluginSpec => []ExecutionOrder
<1>1. ASSUME ProcessInv PROVE ExecutionOrder
  <2> DEFINE n == Len(entries)
  <2>1. \A i \in DOMAIN executed : /\ executed[i].point = HOOK_SEQUENCE[((i - 1) \div n) + 1]
                                  /\ executed[i].hook = entries[((i - 1) % n) + 1].hook
    BY <1>1 DEF ProcessInv, PipelineInv, OrderInv, Running, InOrder, InPlace, PointOf, IndexOf
  <2>2. executed # <<>> => frozen
    BY <1>1 DEF ProcessInv, PipelineInv, OrderInv, Running, Registry
  <2>3. frozen => \A i \in 1..(n - 1) : Before(entries[i], entries[i + 1])
    BY <1>1 DEF ProcessInv, PipelineInv, OrderInv, Registry
  <2> QED BY <2>1, <2>2, <2>3 DEF ExecutionOrder, Before
<1> QED BY <1>1, AlwaysInv, PTL

(* A hook that raises leaves the context of the last completed point, and every    *)
(* on_error hook sees that one (the except clauses of Pipeline.execute).         *)
THEOREM FailuresLeaveNoTrace == PluginSpec => []FailedPointLeavesNoTrace
<1>1. ASSUME ProcessInv PROVE FailedPointLeavesNoTrace
  <2>1. pc \in {"notifying", "done"} => ctx = ExpectedContext
    BY <1>1 DEF ProcessInv, PipelineInv, Trace
  <2>2. ASSUME NEW k, Told(k), NEW i \in DOMAIN notified PROVE notified[i].saw = ctx
    <3> DEFINE R == [hook : Hooks, saw : {ctx}]
    <3>1. notified \in Seq(R)
      BY <2>2 DEF Told
    <3> HIDE DEF R
    <3>2. notified[i] \in R
      BY <2>2, <3>1
    <3> QED BY <3>2 DEF R
  <2>3. pc \in {"notifying", "done"} => notified = <<>> \/ \E k : Told(k)
    BY <1>1 DEF ProcessInv, PipelineInv, OrderInv, Broadcast
  <2>4. notified = <<>> => DOMAIN notified = {}
    OBVIOUS
  <2> QED BY <2>1, <2>2, <2>3, <2>4 DEF FailedPointLeavesNoTrace
<1> QED BY <1>1, AlwaysInv, PTL

(* A failed run has told every hook, once and in order (_fire_error_hooks).        *)
THEOREM EveryHookIsTold == PluginSpec => []ErrorHooksAllFire
<1>1. ASSUME ProcessInv PROVE ErrorHooksAllFire
  <2> SUFFICES ASSUME pc = "done"
               PROVE  [i \in DOMAIN notified |-> notified[i].hook] =
                        (IF failure = "none" THEN <<>> ELSE hooks)
    BY DEF ErrorHooksAllFire
  <2> DEFINE told == [i \in DOMAIN notified |-> notified[i].hook]
  <2>1. CASE failure = "none"
    <3>1. notified = <<>>
      BY <1>1, <2>1 DEF ProcessInv, PipelineInv, OrderInv, Broadcast
    <3>2. told = <<>>
      BY <3>1
    <3> QED BY <2>1, <3>2
  <2>2. CASE failure # "none"
    <3>1. Told(Len(entries)) /\ Registry
      BY <1>1, <2>2 DEF ProcessInv, PipelineInv, OrderInv, Broadcast
    <3>2. /\ DOMAIN notified = 1..Len(entries) /\ DOMAIN entries = 1..Len(entries)
          /\ \A i \in 1..Len(entries) : notified[i].hook = entries[i].hook
      BY <3>1, RegistryIs DEF Told
    <3>3. told = hooks
      BY <3>2 DEF hooks
    <3> QED BY <2>2, <3>3
  <2> QED BY <2>1, <2>2
<1> QED BY <1>1, AlwaysInv, PTL

(* When the process is gone, every plugin of a gateway that was built has been    *)
(* torn down, in reverse order (PluginManager.teardown_all).                    *)
THEOREM PluginsEndInReverse == PluginSpec => []TornDownInReverse
<1>1. ASSUME ProcessInv PROVE TornDownInReverse
  <2>1. /\ loaded \in Seq(PluginNames) /\ ended \in Seq(PluginNames)
        /\ \A i \in 1..Len(ended) : ended[i] = loaded[Len(loaded) + 1 - i]
        /\ stage = "gone" => IF frozen THEN Len(ended) = Len(loaded) ELSE ended = <<>>
    BY <1>1 DEF ProcessInv, Stages
  <2>2. DOMAIN ended = 1..Len(ended) /\ Len(loaded) \in Nat
    BY <2>1
  <2>3. Len(ended) = Len(loaded) => ended = Reverse(loaded)
    <3>1. \A i \in 1..Len(loaded) : Len(loaded) + 1 - i = (Len(loaded) - i) + 1
      BY <2>2
    <3>2. ended = [i \in 1..Len(ended) |-> ended[i]]
      BY <2>1, <2>2
    <3>3. ASSUME Len(ended) = Len(loaded) PROVE ended = Reverse(loaded)
      <4>1. \A i \in 1..Len(loaded) : ended[i] = loaded[(Len(loaded) - i) + 1]
        BY <2>1, <3>1, <3>3
      <4> QED BY <3>2, <3>3, <4>1 DEF Reverse
    <3> QED BY <3>3
  <2> QED BY <2>1, <2>2, <2>3 DEF TornDownInReverse
<1> QED BY <1>1, AlwaysInv, PTL
=====================================================================================
