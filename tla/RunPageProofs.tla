---------------------------- MODULE RunPageProofs ----------------------------
(***************************************************************************)
(* Theorems about the pages that say what runs where, for any files,       *)
(* machines, runtimes and measurements.                                    *)
(***************************************************************************)
EXTENDS RunPage, TLAPS

----------------------------------------------------------------------------
(* What the engine makes of numbers are numbers.                           *)

Pools == [gb : Nat \ {0}, bandwidth : Nat]

\* What a device offers are pools of memory.
LEMMA DevicePoolsTyped ==
    ASSUME NEW hw, hw.unified \in Nat, NEW c, IsDevice(c.device), c.count \in Nat, NEW rt
    PROVE  DevicePools(hw, c, rt) \in Seq(Pools)
<1> DEFINE d == c.device
<1>0. d.gb \in Nat /\ d.bandwidth \in Nat /\ d.usable \in Nat
  BY DEF IsDevice
<1>1. CASE SharedBackends(d, rt) = {}
  <2>1. DevicePools(hw, c, rt) = << >>
    BY <1>1 DEF DevicePools
  <2> QED
    BY <2>1
<1>2. CASE SharedBackends(d, rt) # {} /\ d.memory = "dedicated" /\ d.gb # 0
  <2> DEFINE p == [gb |-> d.gb * DedicatedUsable, bandwidth |-> d.bandwidth]
  <2>1. p \in Pools
    <3>1. d.gb * 95 \in Nat \ {0}
      BY <1>0, <1>2
    <3> QED
      BY <1>0, <3>1 DEF Pools, DedicatedUsable
  <2>2. DevicePools(hw, c, rt) = [i \in 1 .. c.count |-> p]
    BY <1>2 DEF DevicePools
  <2> HIDE DEF p
  <2> QED
    BY <2>1, <2>2
<1>3. CASE SharedBackends(d, rt) # {} /\ ~(d.memory = "dedicated" /\ d.gb # 0) /\ d.memory = "unified" /\ hw.unified # 0
  <2> DEFINE usable == IF d.usable # 0 THEN d.usable ELSE DefaultUnifiedUsable
             p == [gb |-> hw.unified * usable, bandwidth |-> d.bandwidth]
  <2>1. p \in Pools
    <3>1. usable \in Nat \ {0} /\ hw.unified \in Nat \ {0}
      BY <1>0, <1>3 DEF DefaultUnifiedUsable
    <3> HIDE DEF usable
    <3>2. \A x, y \in Nat \ {0} : x * y \in Nat \ {0}
      OBVIOUS
    <3>3. hw.unified * usable \in Nat \ {0}
      BY <3>1, <3>2
    <3> QED
      BY <1>0, <3>3 DEF Pools
  <2>2. DevicePools(hw, c, rt) = << p >>
    BY <1>3 DEF DevicePools
  <2> HIDE DEF p
  <2> QED
    BY <2>1, <2>2
<1>4. CASE SharedBackends(d, rt) # {} /\ ~(d.memory = "dedicated" /\ d.gb # 0) /\ ~(d.memory = "unified" /\ hw.unified # 0)
  <2>1. DevicePools(hw, c, rt) = << >>
    BY <1>4 DEF DevicePools
  <2> QED
    BY <2>1
<1> QED
  BY <1>1, <1>2, <1>3, <1>4

\* So is what a machine offers, on one card or on all.
LEMMA PoolsTyped ==
    ASSUME NEW hw, IsMachine(hw), NEW rt
    PROVE  AcceleratorPools(hw, rt) \in Seq(Pools)
<1> DEFINE parts == [i \in DOMAIN hw.components |-> DevicePools(hw, hw.components[i], rt)]
           all == FlattenSeq(parts)
           n == Len(hw.components)
<1>1. n \in Nat /\ DOMAIN hw.components = 1 .. n
  BY DEF IsMachine
<1>2. parts \in [1 .. n -> Seq(Pools)]
  BY <1>1, DevicePoolsTyped DEF IsMachine
<1>3. FlattenSeq(Each(hw.components, LAMBDA c : DevicePools(hw, c, rt))) = all
  <2>1. Evaluated(parts) = parts
    BY <1>1, ListOf
  <2> QED
    BY <2>1 DEF Each
<1> HIDE DEF parts
<1>4. all \in Seq(Pools)
  <2>1. CASE n = 0
    <3>1. parts = << >>
      BY <1>2, <2>1
    <3> QED
      BY <3>1 DEF FlattenSeq
  <2>2. CASE n # 0
    <3>1. PICK f : IsJoin(f, Pools, parts, n) /\ all = f[n]
      BY <1>1, <1>2, <2>2, FlattenHolds
    <3> QED
      BY <1>1, <2>2, <3>1 DEF IsJoin
  <2> QED
    BY <2>1, <2>2
<1> HIDE DEF all
<1> DEFINE keys == [i \in 1 .. Len(all) |-> << all[i].gb >>]
           largest == SortedBy(all, LAMBDA p : << p.gb >>)
<1>5. ASSUME Len(all) > 1 PROVE << Head(largest) >> \in Seq(Pools)
  <2>1. keys \in [1 .. Len(all) -> [1 .. 1 -> Int]]
    <3>0. \A i \in 1 .. Len(all) : all[i] \in Pools
      BY <1>4
    <3>1. \A i \in 1 .. Len(all) : all[i].gb \in Int
      BY <3>0 DEF Pools
    <3>2. \A i \in 1 .. Len(all) : << all[i].gb >> \in [1 .. 1 -> Int]
      BY <3>1, TupleOfInts
    <3> QED
      BY <3>2
  <2>2. largest = Sorted(all, keys)
    <3>1. DOMAIN all = 1 .. Len(all) /\ Len(all) \in Nat
      BY <1>4
    <3>2. Evaluated(keys) = keys
      BY <3>1, ListOf
    <3> QED
      BY <3>1, <3>2 DEF SortedBy, Each
  <2>3. DOMAIN all = 1 .. Len(all) /\ Len(all) \in Nat
    BY <1>4
  <2> HIDE DEF keys, largest
  <2>4. Len(largest) = Len(all) /\ largest \in Seq(Range(all))
    <3>1. 1 \in Nat
      OBVIOUS
    <3>2. IsListing(Sorted(all, keys), Len(all), Range(all))
      BY <2>1, <2>3, <3>1, SortedHolds
    <3> QED
      BY <2>2, <3>2 DEF IsListing
  <2>5. Range(all) \subseteq Pools
    BY <1>4, <2>3 DEF Range
  <2>6. Head(largest) \in Pools
    BY <1>5, <2>4, <2>5
  <2> QED
    BY <2>6
<1>6. AcceleratorPools(hw, rt) = IF rt.multiGpu \/ Len(all) <= 1 THEN all ELSE << Head(largest) >>
  BY <1>3 DEF AcceleratorPools
<1>7. ~(Len(all) <= 1) => Len(all) > 1
  BY <1>4
<1> QED
  BY <1>4, <1>5, <1>6, <1>7

\* A quotient is a number.
LEMMA IntQuotient == \A x \in Int, y \in Nat \ {0} : x \div y \in Int
OBVIOUS

\* Every file needs some memory.
LEMMA WeightsTyped ==
    ASSUME NEW a, IsFile(a)
    PROVE  WeightsGb(a) \in Nat \ {0} /\ \A ctx \in Nat : TotalGb(a, ctx) \in Nat
<1>1. {a.bits, a.size, a.params, a.kvPerToken, a.context} \subseteq Nat /\ WeightsGb(a) > 0
  BY DEF IsFile
<1>2. WeightsGb(a) \in Nat
  <2>1. a.params * a.bits * 100000 \in Nat
    BY <1>1
  <2>2. \A x \in Nat : x \div (16 * 1074) \in Nat
    OBVIOUS
  <2> QED
    BY <1>1, <2>1, <2>2 DEF WeightsGb
<1>3. ASSUME NEW ctx \in Nat PROVE TotalGb(a, ctx) \in Nat
  <2> DEFINE w == WeightsGb(a)  c == AtMost(ctx, a.context)
  <2>1. c \in Nat
    BY <1>1 DEF AtMost
  <2>2. (w * 4) \div 100 \in Nat
    <3>1. \A x \in Nat : (x * 4) \div 100 \in Nat
      OBVIOUS
    <3> QED
      BY <1>2, <3>1
  <2>3. a.kvPerToken * c \in Nat
    BY <1>1, <2>1
  <2>4. TotalGb(a, ctx) = w + a.kvPerToken * c + 50 + (w * 4) \div 100
    BY DEF TotalGb, KvCacheGb, BaseOverhead
  <2> HIDE DEF w, c
  <2>5. w \in Nat
    BY <1>2 DEF w
  <2> QED
    BY <2>2, <2>3, <2>4, <2>5
<1> QED
  BY <1>1, <1>2, <1>3

\* A machine with pools has memory in them.
LEMMA PoolsGbTyped ==
    ASSUME NEW pools \in Seq(Pools)
    PROVE  PoolsGb(pools) \in Nat /\ (pools # << >> => PoolsGb(pools) > 0)
<1> DEFINE n == Len(pools)
           sizes == [i \in DOMAIN pools |-> pools[i].gb]
<1>1. n \in Nat /\ DOMAIN pools = 1 .. n
  OBVIOUS
<1>2. \A i \in 1 .. n : pools[i] \in Pools
  OBVIOUS
<1>3. sizes \in [1 .. n -> Nat] /\ \A i \in 1 .. n : sizes[i] > 0
  BY <1>1, <1>2 DEF Pools
<1>4. PoolsGb(pools) = Total(sizes)
  <2>1. Evaluated(sizes) = sizes
    BY <1>1, ListOf
  <2> QED
    BY <2>1 DEF PoolsGb, SumOver, Each
<1> HIDE DEF sizes
<1>5. Total(sizes) \in Nat /\ \A i \in 1 .. n : sizes[i] <= Total(sizes)
  BY <1>1, <1>3, TotalOfNats
<1>6. ASSUME pools # << >> PROVE Total(sizes) > 0
  <2>1. 1 \in 1 .. n
    BY <1>1, <1>6
  <2>2. sizes[1] > 0 /\ sizes[1] <= Total(sizes) /\ sizes[1] \in Nat
    BY <1>3, <1>5, <2>1
  <2> QED
    BY <1>5, <2>2
<1> QED
  BY <1>4, <1>5, <1>6

\* An estimated speed is a number.
LEMMA EstimateTyped ==
    ASSUME NEW a, IsFile(a), NEW hw, IsMachine(hw), NEW pools \in Seq(Pools), NEW placement, NEW offloaded \in Int
    PROVE  EstimateDecodeTps(a, pools, placement, offloaded, hw) \in Int
<1> DEFINE w == WeightsGb(a)
           read == (IF a.active # 0 THEN (w * a.active) \div a.params ELSE w) + 50
           onAccel == IF placement = "cpu" THEN 0 ELSE w - AtMost(offloaded, w)
           readAccel == (read * onAccel) \div w
           used == IF onAccel > 0 THEN pools ELSE << >>
           share(p) == SegmentTime((readAccel * p.gb) \div PoolsGb(pools), p.bandwidth)
           rest == IF onAccel < w THEN SegmentTime(read - readAccel, hw.ramBandwidth) ELSE 0
           times == [i \in DOMAIN used |-> share(used[i])]
           time == SumOver(used, LAMBDA p : share(p)) + rest
           known == /\ \A i \in DOMAIN used : used[i].bandwidth # 0
                    /\ onAccel < w => hw.ramBandwidth # 0
           further == IF placement = "cpu" THEN 0 ELSE Len(pools) - 1
<1>1. w \in Nat \ {0}
  BY WeightsTyped
<1>2. read \in Int
  <2>1. a.active \in Nat /\ a.params \in Nat /\ (a.active # 0 => a.params # 0)
    BY DEF IsFile
  <2>2. \A x \in Nat, y \in Nat : x * y \in Int
    OBVIOUS
  <2> QED
    BY <1>1, <2>1, <2>2, IntQuotient
<1>3. onAccel \in Int
  BY <1>1 DEF AtMost
<1> HIDE DEF w, read, onAccel
<1>4. readAccel \in Int
  <2>1. read * onAccel \in Int
    BY <1>2, <1>3
  <2> QED
    BY <1>1, <2>1, IntQuotient
<1> HIDE DEF readAccel
<1>5. used \in Seq(Pools) /\ DOMAIN used = 1 .. Len(used) /\ Len(used) \in Nat /\ (used # << >> => used = pools)
  OBVIOUS
<1> HIDE DEF used
<1>6. ASSUME known PROVE time \in Int
  <2>1. ASSUME NEW i \in 1 .. Len(used) PROVE share(used[i]) \in Int
    <3>1. used[i] \in Pools /\ used[i].bandwidth # 0 /\ pools # << >>
      BY <1>5, <1>6
    <3>2. used[i].gb \in Nat /\ used[i].bandwidth \in Nat \ {0}
      BY <3>1 DEF Pools
    <3>3. PoolsGb(pools) \in Nat \ {0}
      BY <3>1, PoolsGbTyped
    <3>4. (readAccel * used[i].gb) \div PoolsGb(pools) \in Int
      <4>1. readAccel * used[i].gb \in Int
        BY <1>4, <3>2
      <4> QED
        BY <3>3, <4>1, IntQuotient
    <3> QED
      BY <3>2, <3>4, IntQuotient DEF SegmentTime
  <2> HIDE DEF share
  <2>2. times \in [1 .. Len(used) -> Int]
    BY <1>5, <2>1
  <2>3. SumOver(used, LAMBDA p : share(p)) = Total(times)
    <3>1. Evaluated(times) = times
      BY <1>5, ListOf
    <3> QED
      BY <3>1 DEF SumOver, Each
  <2> HIDE DEF times
  <2>4. Total(times) \in Int
    <3>1. PICK f : IsSum(f, times, Len(used)) /\ Total(times) = f[Len(used)]
      BY <1>5, <2>2, TotalHolds
    <3> QED
      BY <1>5, <3>1 DEF IsSum
  <2>5. rest \in Int
    <3>1. hw.ramBandwidth \in Nat /\ (onAccel < w => hw.ramBandwidth # 0)
      BY <1>6 DEF IsMachine
    <3> QED
      BY <1>2, <1>4, <3>1, IntQuotient DEF SegmentTime
  <2> QED
    BY <2>3, <2>4, <2>5
<1>7. EstimateDecodeTps(a, pools, placement, offloaded, hw)
        = IF known /\ time > 0 THEN ((605383 \div time) * (100 - 5 * further)) \div 100 ELSE 0
  BY DEF EstimateDecodeTps, w, read, onAccel, readAccel, used
<1>8. further \in Int
  OBVIOUS
<1> HIDE DEF known, time, further
<1>9. ASSUME known, time > 0 PROVE ((605383 \div time) * (100 - 5 * further)) \div 100 \in Int
  <2>1. 605383 \div time \in Int
    BY <1>6, <1>9, IntQuotient
  <2>2. (605383 \div time) * (100 - 5 * further) \in Int
    BY <1>8, <2>1
  <2> QED
    BY <2>2, IntQuotient
<1> QED
  BY <1>7, <1>9

Measurements(S) == IsFiniteSet(S) /\ \A m \in S : m.gen \in Nat

Bases == {"measured", "estimated", "unknown"}

\* What an assessment of a file says.
Assessed(r) ==
    /\ r.fit \in Fits /\ r.bits \in Nat
    /\ r.speed.basis \in Bases /\ r.speed.gen \in Int
    /\ r.speed = [basis |-> r.speed.basis, gen |-> r.speed.gen]

\* A finite set can be listed.
LEMMA SetToSeqHolds ==
    ASSUME NEW S, IsFiniteSet(S)
    PROVE  SetToSeq(S) \in [1 .. Cardinality(S) -> S] /\ Cardinality(S) \in Nat
<1>1. Cardinality(S) \in Nat /\ ExistsBijection(1 .. Cardinality(S), S)
  BY FS_CardinalityType
<1>2. \E f \in [1 .. Cardinality(S) -> S] : IsInjective(f)
  BY <1>1 DEF ExistsBijection, Bijection, Injection, IsInjective
<1> QED
  BY <1>1, <1>2 DEF SetToSeq

\* The median of speeds is a speed.
LEMMA MedianTyped ==
    ASSUME NEW n \in Nat, NEW values \in [1 .. n -> Nat]
    PROVE  Median(values) \in Nat
<1> DEFINE keys == [i \in 1 .. n |-> << values[i] >>]
           s == SortedBy(values, LAMBDA v : << v >>)
           mid == Len(s) \div 2
<1>1. keys \in [1 .. n -> [1 .. 1 -> Int]]
  BY TupleOfInts
<1>2. s = Sorted(values, keys)
  <2>1. Evaluated(keys) = keys
    BY ListOf
  <2>2. DOMAIN values = 1 .. n
    OBVIOUS
  <2> QED
    BY <2>1, <2>2 DEF SortedBy, Each
<1> HIDE DEF keys, s
<1>3. Len(s) = n /\ DOMAIN s = 1 .. n /\ s \in Seq(Range(values))
  <2>1. 1 \in Nat /\ DOMAIN values = 1 .. n
    OBVIOUS
  <2>2. IsListing(Sorted(values, keys), n, Range(values))
    BY <1>1, <2>1, SortedHolds
  <2> QED
    BY <1>2, <2>2 DEF IsListing
<1>4. Range(values) \subseteq Nat
  BY DEF Range
<1>5. \A i \in 1 .. n : s[i] \in Nat
  BY <1>3, <1>4
<1>10. Median(values) = CASE s = << >> -> 0
                          [] Len(s) % 2 = 1 -> s[mid + 1]
                          [] OTHER -> (s[mid] + s[mid + 1]) \div 2
  BY DEF Median, s
<1>6. CASE s = << >>
  <2>1. ~(Len(s) % 2 = 1)
    BY <1>6
  <2> QED
    BY <1>6, <1>10, <2>1
<1>7. CASE s # << >> /\ n % 2 = 1
  <2>1. mid + 1 \in 1 .. n
    BY <1>3, <1>7
  <2>2. Median(values) = s[mid + 1]
    BY <1>3, <1>7, <1>10
  <2> QED
    BY <1>5, <2>1, <2>2
<1>8. CASE s # << >> /\ n % 2 # 1
  <2>1. mid \in 1 .. n /\ mid + 1 \in 1 .. n
    BY <1>3, <1>8
  <2>2. Median(values) = (s[mid] + s[mid + 1]) \div 2
    BY <1>3, <1>8, <1>10
  <2>3. \A x, y \in Nat : (x + y) \div 2 \in Nat
    OBVIOUS
  <2> HIDE DEF mid
  <2> QED
    BY <1>5, <2>1, <2>2, <2>3
<1> QED
  BY <1>6, <1>7, <1>8

\* A speed is a number with a basis, measured or not.
LEMMA SpeedTyped ==
    ASSUME NEW a, IsFile(a), NEW rt, NEW hw, IsMachine(hw), NEW pools \in Seq(Pools), NEW placement,
           NEW offloaded \in Int, NEW measurements, Measurements(measurements)
    PROVE  SpeedOf(a, rt, hw, pools, placement, offloaded, measurements) \in [basis : Bases, gen : Int]
<1> DEFINE measured == {m \in measurements : m.system = hw.id /\ m.artifact = a.id /\ m.runtime = rt.id}
           known == {m \in measured : m.gen # 0}
           list == SetToSeq(known)
           speeds == [i \in DOMAIN list |-> list[i].gen]
           estimate == EstimateDecodeTps(a, pools, placement, offloaded, hw)
<1>1. known \in SUBSET measurements /\ IsFiniteSet(measurements) /\ \A m \in known : m.gen \in Nat
  BY DEF Measurements
<1> HIDE DEF known
<1>2. IsFiniteSet(known)
  BY <1>1, FS_Subset
<1>3. list \in [1 .. Cardinality(known) -> known] /\ Cardinality(known) \in Nat
  BY <1>2, SetToSeqHolds
<1> HIDE DEF list
<1>4. speeds \in [1 .. Cardinality(known) -> Nat]
  BY <1>1, <1>3
<1>5. Each(list, LAMBDA m : m.gen) = speeds
  <2>1. Evaluated(speeds) = speeds
    BY <1>3, ListOf
  <2> QED
    BY <2>1 DEF Each
<1> HIDE DEF speeds
<1>6. Median(speeds) \in Int
  <2>1. Median(speeds) \in Nat
    BY <1>3, <1>4, MedianTyped
  <2> QED
    BY <2>1
<1>7. estimate \in Int
  BY EstimateTyped
<1> DEFINE m == [basis |-> "measured", gen |-> Median(speeds)]
           e == [basis |-> "estimated", gen |-> estimate]
           u == [basis |-> "unknown", gen |-> 0]
<1>8. SpeedOf(a, rt, hw, pools, placement, offloaded, measurements)
        = CASE placement # "nowhere" /\ measured # {} -> m
            [] placement # "nowhere" /\ measured = {} /\ estimate # 0 -> e
            [] OTHER -> u
  BY <1>5 DEF SpeedOf, list, known
<1>9. SpeedOf(a, rt, hw, pools, placement, offloaded, measurements) \in {m, e, u}
  <2> HIDE DEF m, e, u, measured, estimate
  <2> QED
    BY <1>8
<1>10. \A x \in {m, e, u} : x \in [basis : Bases, gen : Int]
  <2> HIDE DEF estimate
  <2> QED
    BY <1>6, <1>7 DEF Bases
<1> QED
  BY <1>9, <1>10

(* One file with one runtime on one machine. *)
LEMMA EvaluateTyped ==
    ASSUME NEW hw, IsMachine(hw), NEW a, IsFile(a), NEW rt, NEW ctx \in Nat, NEW measurements, Measurements(measurements)
    PROVE  Assessed(Evaluate(hw, a, rt, ctx, measurements))
<1> DEFINE pools == AcceleratorPools(hw, rt)
           accel == PoolsGb(pools)
           ram == hw.ram * SystemRamUsable
           total == TotalGb(a, ctx)
           cpu == CpuAvailable(hw, rt)
           runs_ == a.format \in rt.formats /\ (pools # << >> \/ cpu)
           fit == IF runs_ THEN FitOf(total, accel, ram, pools # << >>, cpu, rt.offload) ELSE "none"
           placement == PlacementOf(fit, pools # << >>)
           offloaded == IF fit = "offload" THEN total - accel ELSE 0
           speed == SpeedOf(a, rt, hw, pools, placement, offloaded, measurements)
           r == Evaluate(hw, a, rt, ctx, measurements)
<1>1. pools \in Seq(Pools)
  BY PoolsTyped
<1>2. accel \in Int /\ total \in Int
  BY <1>1, PoolsGbTyped, WeightsTyped
<1>3. fit \in Fits
  <2> HIDE DEF pools, accel, ram, total, cpu, runs_
  <2> QED
    BY DEF FitOf, WithinMemory, Fits
<1> HIDE DEF fit
<1>4. offloaded \in Int
  <2> HIDE DEF accel, total
  <2> QED
    BY <1>2
<1> HIDE DEF pools, offloaded, placement
<1>5. speed \in [basis : Bases, gen : Int]
  BY <1>1, <1>4, SpeedTyped
<1>6. r.fit = fit /\ r.bits = a.bits /\ r.speed = speed
  BY DEF Evaluate, fit, pools, offloaded, placement
<1>7. a.bits \in Nat
  BY DEF IsFile
<1> QED
  BY <1>3, <1>5, <1>6, <1>7 DEF Assessed

----------------------------------------------------------------------------
(* What is recommended of the assessments of the files of a variant.       *)

\* Those in memory if there are any, or else all that run, by the criteria of either.
Viable(S) == IF \E x \in S : InMemory(x) THEN {x \in S : InMemory(x)} ELSE {x \in S : x.fit # "none"}
Merit(x) == IF InMemory(x) THEN InMemoryKey(x) ELSE OffloadKey(x)

\* Assessments compare by numbers.
LEMMA KeysTyped ==
    ASSUME NEW r, Assessed(r)
    PROVE  /\ CompareKey(r) \in [1 .. 3 -> Int] /\ OffloadKey(r) \in [1 .. 3 -> Int]
           /\ InMemoryKey(r) \in [1 .. 4 -> Int] /\ DownloadKey(r) \in [1 .. 4 -> Int]
<1>1. FitRank[r.fit] \in Int /\ BasisRank[r.speed.basis] \in Int /\ r.speed.gen \in Int /\ r.bits \in Int
  BY DEF Assessed, Fits, Bases, FitRank, BasisRank
<1>2. AtMost(r.bits, QualityCeiling) \in Int
  BY <1>1 DEF AtMost, QualityCeiling
<1>3. \A b \in BOOLEAN : Flag(b) \in Int
  BY DEF Flag
<1>4. Flag(r.fit = "full") \in Int /\ Flag(r.speed.basis = "measured") \in Int
  BY <1>3
<1>5. CompareKey(r) \in [1 .. 3 -> Int]
  BY <1>1, TupleOfInts DEF CompareKey
<1>6. OffloadKey(r) \in [1 .. 3 -> Int]
  BY <1>1, TupleOfInts DEF OffloadKey
<1>7. InMemoryKey(r) \in [1 .. 4 -> Int]
  BY <1>1, <1>2, TupleOfInts DEF InMemoryKey
<1>8. DownloadKey(r) \in [1 .. 4 -> Int]
  BY <1>1, <1>2, <1>4, TupleOfInts DEF DownloadKey
<1> QED
  BY <1>5, <1>6, <1>7, <1>8

\* The first of the ranked assessments is one that none of its kind beats.
LEMMA PickRecommendedHolds ==
    ASSUME NEW results, IsList(results), \A r \in Range(results) : Assessed(r)
    PROVE  /\ IsList(PickRecommended(results))
           /\ Range(PickRecommended(results)) = Viable(Range(results))
           /\ PickRecommended(results) # << >> =>
                 \A x \in Viable(Range(results)) : ~Ahead(Merit(x), Merit(PickRecommended(results)[1]))
<1> DEFINE S == Range(results)
           n == Len(results)
           I == {i \in DOMAIN results : results[i].fit # "none"}
           viable == Part(results, I)
           m == Len(viable)
           J == {i \in DOMAIN viable : InMemory(viable[i])}
           inMemory == Part(viable, J)
           k == Len(inMemory)
<1>1. n \in Nat /\ DOMAIN results = 1 .. n /\ \A x : x \in S <=> \E i \in 1 .. n : x = results[i]
  BY DEF IsList, Range
<1>2. viable = Select(results, LAMBDA r : r.fit # "none")
  BY DEF Select
<1>3. viable \in Seq(S) /\ \A x : x \in Range(viable) <=> x \in S /\ x.fit # "none"
  <2>1. I \in SUBSET (1 .. n)
    BY <1>1
  <2>2. Part(results, I) \in Seq(Range(results)) /\ \A x : x \in Range(Part(results, I)) <=> \E i \in I : x = results[i]
    <3> HIDE DEF I, n
    <3> QED
      BY <1>1, <2>1, PartList
  <2> QED
    BY <1>1, <2>2
<1> HIDE DEF I, n
<1>4. m \in Nat /\ DOMAIN viable = 1 .. m
  BY <1>3
<1>5. inMemory \in Seq(Range(viable)) /\ \A x : x \in Range(inMemory) <=> x \in Range(viable) /\ InMemory(x)
  <2>1. J \in SUBSET (1 .. m)
    BY <1>4
  <2>2. Part(viable, J) \in Seq(Range(viable)) /\ \A x : x \in Range(Part(viable, J)) <=> \E i \in J : x = viable[i]
    <3> HIDE DEF J, m, viable
    <3> QED
      BY <1>4, <2>1, PartList
  <2> QED
    BY <2>2 DEF Range
<1>6. inMemory = Select(viable, InMemory)
  BY DEF Select
<1>7. PickRecommended(results) =
        IF inMemory # << >> THEN SortedBy(inMemory, InMemoryKey) ELSE SortedBy(viable, OffloadKey)
  BY <1>2, <1>6 DEF PickRecommended
<1> HIDE DEF viable, inMemory, J, m
<1>8. k \in Nat /\ DOMAIN inMemory = 1 .. k /\ inMemory \in Seq(S)
  BY <1>3, <1>5 DEF Range
<1>9. \A x : InMemory(x) => x.fit # "none"
  BY DEF InMemory
<1>10. inMemory # << >> <=> \E x \in S : InMemory(x)
  BY <1>3, <1>5, <1>8, <1>9 DEF Range
<1>11. CASE inMemory # << >>
  <2> DEFINE keys == [i \in 1 .. k |-> InMemoryKey(inMemory[i])]
             t == Sorted(inMemory, keys)
  <2>1. PickRecommended(results) = t
    <3>1. Evaluated(keys) = keys
      BY <1>8, ListOf
    <3> QED
      BY <1>7, <1>8, <1>11, <3>1 DEF SortedBy, Each
  <2>2. keys \in [1 .. k -> [1 .. 4 -> Int]] /\ 4 \in Nat /\ k # 0
    <3>1. \A i \in 1 .. k : inMemory[i] \in S
      BY <1>8
    <3> QED
      BY <1>8, <1>11, <3>1, KeysTyped
  <2>3. \A i \in 1 .. k : keys[i] = InMemoryKey(inMemory[i])
    OBVIOUS
  <2> HIDE DEF keys
  <2>4. t \in Seq(Range(inMemory)) /\ Range(t) = Range(inMemory) /\ Len(t) = k
    <3>1. IsListing(Sorted(inMemory, keys), k, Range(inMemory))
      BY <1>8, <2>2, SortedHolds
    <3> QED
      BY <3>1 DEF IsListing
  <2>5. PICK j \in 1 .. k : t[1] = inMemory[j] /\ \A i \in 1 .. k : ~Ahead(keys[i], keys[j])
    <3>1. IsFirst(Sorted(inMemory, keys)[1], inMemory, k, keys)
      BY <1>8, <2>2, SortedHead
    <3> QED
      BY <3>1 DEF IsFirst
  <2>6. Range(inMemory) = Viable(S)
    BY <1>3, <1>5, <1>9, <1>10, <1>11 DEF Viable
  <2>7. \A x \in Range(inMemory) : Merit(x) = InMemoryKey(x)
    BY <1>5 DEF Merit
  <2>8. \A x \in Range(inMemory) : \E i \in 1 .. k : x = inMemory[i]
    BY <1>8 DEF Range
  <2>9. t[1] \in Range(inMemory)
    BY <1>8, <2>5 DEF Range
  <2>10. \A x \in Viable(S) : ~Ahead(Merit(x), Merit(t[1]))
    BY <2>3, <2>5, <2>6, <2>7, <2>8, <2>9
  <2> QED
    BY <2>1, <2>4, <2>6, <2>10 DEF IsList
<1>12. CASE inMemory = << >>
  <2> DEFINE keys == [i \in 1 .. m |-> OffloadKey(viable[i])]
             t == Sorted(viable, keys)
  <2>0. m \in Nat /\ DOMAIN viable = 1 .. m /\ m = Len(viable)
    BY <1>4 DEF m
  <2>1. PickRecommended(results) = t
    <3>1. Evaluated(keys) = keys
      BY <2>0, ListOf
    <3> QED
      BY <1>7, <2>0, <1>12, <3>1 DEF SortedBy, Each
  <2>2. keys \in [1 .. m -> [1 .. 3 -> Int]] /\ 3 \in Nat
    <3>1. \A i \in 1 .. m : viable[i] \in S
      BY <1>3, <2>0
    <3> QED
      BY <3>1, KeysTyped
  <2>3. \A i \in 1 .. m : keys[i] = OffloadKey(viable[i])
    OBVIOUS
  <2> HIDE DEF keys
  <2>4. t \in Seq(Range(viable)) /\ Range(t) = Range(viable) /\ Len(t) = m
    <3>1. IsListing(Sorted(viable, keys), m, Range(viable))
      BY <2>0, <2>2, SortedHolds
    <3> QED
      BY <3>1 DEF IsListing
  <2>5. ASSUME t # << >>
        PROVE  \E j \in 1 .. m : t[1] = viable[j] /\ \A i \in 1 .. m : ~Ahead(keys[i], keys[j])
    <3>1. m # 0
      BY <2>0, <2>4, <2>5
    <3>2. IsFirst(Sorted(viable, keys)[1], viable, m, keys)
      BY <2>0, <2>2, <3>1, SortedHead
    <3> QED
      BY <3>2 DEF IsFirst
  <2>6. Range(viable) = Viable(S)
    BY <1>3, <1>10, <1>12 DEF Viable
  <2>7. \A x \in Range(viable) : Merit(x) = OffloadKey(x)
    BY <1>3, <1>10, <1>12 DEF Merit
  <2>8. \A x : x \in Range(viable) <=> \E i \in 1 .. m : x = viable[i]
    BY <2>0 DEF Range
  <2>9. ASSUME t # << >>, NEW x \in Viable(S) PROVE ~Ahead(Merit(x), Merit(t[1]))
    BY <2>3, <2>5, <2>6, <2>7, <2>8, <2>9
  <2> QED
    BY <2>1, <2>4, <2>6, <2>9 DEF IsList
<1> QED
  BY <1>11, <1>12

Assess(spec, f, runtimes, measurements, ctx) == Head(EvaluateAcrossRuntimes(spec, f, runtimes, ctx, measurements))

(* The best runtime for a file gives an assessment of it. *)
LEMMA AssessTyped ==
    ASSUME NEW spec, IsMachine(spec), NEW f, IsFile(f), NEW runtimes, IsList(runtimes), runtimes # << >>,
           NEW ctx \in Nat, NEW measurements, Measurements(measurements)
    PROVE  Assessed(Assess(spec, f, runtimes, measurements, ctx))
<1> DEFINE n == Len(runtimes)
           e(rt) == Evaluate(spec, f, rt, ctx, measurements)
           list == [i \in 1 .. n |-> e(runtimes[i])]
           keys == [i \in 1 .. n |-> CompareKey(list[i])]
           t == Sorted(list, keys)
<1>1. n \in Nat /\ n # 0 /\ DOMAIN runtimes = 1 .. n
  BY DEF IsList
<1>2. \A i \in 1 .. n : Assessed(list[i])
  BY EvaluateTyped
<1>3. DOMAIN list = 1 .. n /\ Evaluated(list) = list
  BY <1>1, ListOf
<1>4. Each(runtimes, LAMBDA rt : e(rt)) = list
  BY <1>1, <1>3 DEF Each
<1> HIDE DEF n, list
<1>5. Evaluated(keys) = keys
  BY <1>1, ListOf
<1>6. SortedBy(list, CompareKey) = t
  BY <1>3, <1>5 DEF SortedBy, Each
<1>7. keys \in [1 .. n -> [1 .. 3 -> Int]] /\ 3 \in Nat
  BY <1>2, KeysTyped
<1> HIDE DEF keys
<1>8. IsListing(t, n, Range(list)) /\ IsFirst(t[1], list, n, keys)
  <2>1. IsListing(t, n, Range(list))
    BY <1>1, <1>3, <1>7, SortedHolds
  <2>2. IsFirst(t[1], list, n, keys)
    BY <1>1, <1>3, <1>7, SortedHead
  <2> QED
    BY <2>1, <2>2
<1>9. Assess(spec, f, runtimes, measurements, ctx) = Head(t)
  BY <1>4, <1>6 DEF Assess, EvaluateAcrossRuntimes
<1>10. Head(t) = t[1]
  BY <1>1, <1>8 DEF IsListing
<1>11. PICK j \in 1 .. n : t[1] = list[j]
  BY <1>8 DEF IsFirst
<1> QED
  BY <1>2, <1>9, <1>10, <1>11

Candidates(spec, group, runtimes, measurements, ctx) ==
    IF runtimes = << >> THEN << >> ELSE Each(group, LAMBDA f : Assess(spec, f, runtimes, measurements, ctx))

AreCandidates(c, spec, group, runtimes, measurements, ctx) ==
    /\ IsList(c) /\ \A x \in Range(c) : Assessed(x)
    /\ \A x : x \in Range(c) <=>
          runtimes # << >> /\ \E f \in Range(group) : x = Assess(spec, f, runtimes, measurements, ctx)

(* The candidates of a group are the assessments of its files. *)
LEMMA CandidatesHold ==
    ASSUME NEW spec, IsMachine(spec), NEW group, IsList(group), \A f \in Range(group) : IsFile(f),
           NEW runtimes, IsList(runtimes), NEW ctx \in Nat, NEW measurements, Measurements(measurements)
    PROVE  AreCandidates(Candidates(spec, group, runtimes, measurements, ctx), spec, group, runtimes, measurements, ctx)
<1> DEFINE c == Candidates(spec, group, runtimes, measurements, ctx)
           a(f) == Assess(spec, f, runtimes, measurements, ctx)
<1>1. CASE runtimes = << >>
  <2>1. c = << >>
    BY <1>1 DEF Candidates
  <2> HIDE DEF c
  <2>2. AreCandidates(c, spec, group, runtimes, measurements, ctx)
    BY <1>1, <2>1 DEF IsList, Range, AreCandidates
  <2> QED
    BY <2>2 DEF c
<1>2. CASE runtimes # << >>
  <2> DEFINE n == Len(group)
             list == [i \in 1 .. n |-> a(group[i])]
  <2>1. n \in Nat /\ DOMAIN group = 1 .. n
    BY DEF IsList
  <2>2. c = list /\ list \in Seq(Range(list))
    <3>1. Evaluated(list) = list /\ list \in Seq(Range(list))
      BY <2>1, ListOf
    <3> QED
      BY <1>2, <2>1, <3>1 DEF Candidates, Each
  <2>3. \A f \in Range(group) : Assessed(a(f))
    BY <1>2, AssessTyped
  <2> HIDE DEF a, c
  <2>4. \A x : x \in Range(list) <=> \E f \in Range(group) : x = a(f)
    BY <2>1 DEF Range
  <2> HIDE DEF list
  <2>5. IsList(c) /\ (\A x \in Range(c) : Assessed(x))
        /\ \A x : x \in Range(c) <=> \E f \in Range(group) : x = a(f)
    BY <2>2, <2>3, <2>4 DEF IsList
  <2>6. AreCandidates(c, spec, group, runtimes, measurements, ctx)
    BY <1>2, <2>5 DEF AreCandidates, a
  <2> QED
    BY <2>6 DEF c
<1> QED
  BY <1>1, <1>2

\* What /run says of a variant.
Reported(r) ==
    /\ Runs(r) => /\ r.recommended = << Recommended(r) >>
                  /\ Assessed(Recommended(r)) /\ Recommended(r).fit # "none"
    /\ r.alternatives \in Seq(Range(r.alternatives)) /\ \A x \in Range(r.alternatives) : Assessed(x)
    /\ r.params \in Nat /\ Quality[r.model] \in Nat

\* The first of a list, if it has one.
LEMMA FirstOf ==
    ASSUME NEW s, IsList(s)
    PROVE  SubSeq(s, 1, AtMost(1, Len(s))) = IF s = << >> THEN << >> ELSE << s[1] >>
<1>1. Len(s) \in Nat /\ DOMAIN s = 1 .. Len(s) /\ s \in Seq(Range(s))
  BY DEF IsList
<1>2. CASE Len(s) = 0
  BY <1>1, <1>2 DEF AtMost
<1>3. CASE Len(s) # 0
  <2> DEFINE t == SubSeq(s, 1, 1)
  <2>1. AtMost(1, Len(s)) = 1
    BY <1>1, <1>3 DEF AtMost
  <2>2. Len(t) = 1 /\ t[1] = s[1] /\ t \in Seq(Range(s))
    BY <1>1, <1>3
  <2> HIDE DEF t
  <2>3. t = << s[1] >>
    BY <2>2
  <2>4. s # << >>
    BY <1>3
  <2> QED
    BY <2>1, <2>3, <2>4 DEF t
<1> QED
  BY <1>2, <1>3

\* What is reported of a variant was assessed, the recommendation too.
LEMMA ResultHolds ==
    ASSUME NEW group \in Seq(Files), group # << >>, NEW candidates, IsList(candidates),
           \A x \in Range(candidates) : Assessed(x)
    PROVE  /\ Reported(VariantResult(group, candidates))
           /\ \A x \in Range(VariantResult(group, candidates).recommended) : x \in Range(candidates)
<1> DEFINE ranked == PickRecommended(candidates)
           recommended == SubSeq(ranked, 1, AtMost(1, Len(ranked)))
           I == {i \in DOMAIN candidates : /\ candidates[i].fit # "none"
                                          /\ \A j \in DOMAIN recommended : recommended[j] # candidates[i]}
           others == Part(candidates, I)
           n == Len(others)
           keys == [i \in 1 .. n |-> CompareKey(others[i])]
           r == VariantResult(group, candidates)
<1>1. IsList(ranked) /\ Range(ranked) = Viable(Range(candidates))
  BY PickRecommendedHolds
<1>2. recommended = << >> \/ (recommended = << ranked[1] >> /\ ranked[1] \in Viable(Range(candidates)))
  <2>1. recommended = IF ranked = << >> THEN << >> ELSE << ranked[1] >>
    BY <1>1, FirstOf
  <2> HIDE DEF recommended, ranked
  <2>2. ranked # << >> => ranked[1] \in Range(ranked)
    BY <1>1 DEF IsList, Range
  <2> QED
    BY <1>1, <2>1, <2>2
<1>3. \A x \in Viable(Range(candidates)) : x \in Range(candidates) /\ x.fit # "none"
  BY DEF Viable, InMemory
<1>4. others = Select(candidates, LAMBDA c : c.fit # "none" /\ \A i \in DOMAIN recommended : recommended[i] # c)
  BY DEF Select
<1>5. IsPart(others, candidates, I)
  BY PartIsPart
<1> HIDE DEF ranked, recommended, others
<1>6. n \in Nat /\ DOMAIN others = 1 .. n /\ \A i \in 1 .. n : Assessed(others[i])
  <2>1. others \in Seq(Range(candidates))
    BY <1>5 DEF IsPart
  <2>2. \A i \in 1 .. n : others[i] \in Range(candidates)
    BY <2>1
  <2> QED
    BY <2>1, <2>2
<1> HIDE DEF n
<1>7. keys \in [1 .. n -> [1 .. 3 -> Int]] /\ 3 \in Nat
  BY <1>6, KeysTyped
<1>8. SortedBy(others, CompareKey) = Sorted(others, keys)
  <2>1. Evaluated(keys) = keys
    BY <1>6, ListOf
  <2> QED
    BY <1>6, <2>1 DEF SortedBy, Each
<1> HIDE DEF keys
<1>9. IsListing(Sorted(others, keys), n, Range(others))
  BY <1>6, <1>7, SortedHolds
<1>10. /\ r.recommended = recommended /\ r.alternatives = Sorted(others, keys)
       /\ r.params = group[1].params /\ r.model = group[1].model
  BY <1>4, <1>8 DEF VariantResult, ResultOf, ranked, recommended
<1>11. group[1] \in Files
  OBVIOUS
<1>12. r.params \in Nat /\ Quality[r.model] \in Nat
  BY <1>10, <1>11, RunPageAssumption DEF IsFile
<1>13. r.alternatives \in Seq(Range(r.alternatives)) /\ \A x \in Range(r.alternatives) : Assessed(x)
  <2> DEFINE t == Sorted(others, keys)
  <2>1. t \in Seq(Range(others)) /\ Range(t) = Range(others)
    BY <1>9 DEF IsListing
  <2>2. \A x \in Range(others) : Assessed(x)
    BY <1>6 DEF Range
  <2> HIDE DEF t
  <2>3. t \in Seq(Range(t)) /\ \A x \in Range(t) : Assessed(x)
    BY <2>1, <2>2
  <2>4. r.alternatives = t
    BY <1>10 DEF t
  <2> HIDE DEF r
  <2> QED
    BY <2>3, <2>4
<1>14. Runs(r) => r.recommended = << Recommended(r) >> /\ Assessed(Recommended(r)) /\ Recommended(r).fit # "none"
  <2>1. r.recommended = recommended
    BY <1>10
  <2> HIDE DEF r
  <2>2. ASSUME recommended # << >>
        PROVE  /\ r.recommended = << r.recommended[1] >>
               /\ Assessed(r.recommended[1]) /\ r.recommended[1].fit # "none"
    BY <1>2, <1>3, <2>1, <2>2
  <2> QED
    BY <2>1, <2>2 DEF Recommended, Runs
<1>15. \A x \in Range(r.recommended) : x \in Range(candidates)
  BY <1>2, <1>3, <1>10 DEF Range
<1> HIDE DEF r
<1>16. Reported(r)
  BY <1>12, <1>13, <1>14 DEF Reported
<1> QED
  BY <1>15, <1>16 DEF r

----------------------------------------------------------------------------
(* The starter.                                                            *)

(* The download is the one recommended, or a quicker one of the others. *)
LEMMA BalanceHolds ==
    ASSUME NEW recommended, Assessed(recommended), NEW alternatives, IsList(alternatives),
           \A x \in Range(alternatives) : Assessed(x)
    PROVE  LET b == BalanceStarterDownload(recommended, alternatives)
           IN \/ b = recommended
              \/ b \in Range(alternatives) /\ InMemoryPlaced(b) /\ b.speed.gen >= StarterMinTps
<1> DEFINE I == {i \in DOMAIN alternatives : InMemoryPlaced(alternatives[i]) /\ alternatives[i].speed.gen >= StarterMinTps}
           quick == Part(alternatives, I)
           n == Len(quick)
           keys == [i \in 1 .. n |-> DownloadKey(quick[i])]
           t == Sorted(quick, keys)
           b == BalanceStarterDownload(recommended, alternatives)
<1>1. IsPart(quick, alternatives, I)
  BY PartIsPart
<1>2. quick = Select(alternatives, LAMBDA a : InMemoryPlaced(a) /\ a.speed.gen >= StarterMinTps)
  BY DEF Select
<1> HIDE DEF quick
<1>3. n \in Nat /\ DOMAIN quick = 1 .. n /\ quick \in Seq(Range(alternatives)) /\ quick \in Seq(Range(quick))
  BY <1>1 DEF IsPart, IsList
<1>4. \A i \in 1 .. n : Assessed(quick[i])
  BY <1>3
<1>5. keys \in [1 .. n -> [1 .. 4 -> Int]] /\ 4 \in Nat
  BY <1>4, KeysTyped
<1>6. SortedBy(quick, DownloadKey) = t
  <2>1. Evaluated(keys) = keys
    BY <1>3, ListOf
  <2> QED
    BY <1>3, <2>1 DEF SortedBy, Each
<1> HIDE DEF n, keys
<1>7. b = IF recommended.speed.gen >= StarterMinTps \/ quick = << >> THEN recommended ELSE Head(t)
  BY <1>2, <1>6 DEF BalanceStarterDownload
<1>8. ASSUME quick # << >> PROVE Head(t) \in Range(quick)
  <2>1. n # 0
    BY <1>3, <1>8 DEF n
  <2>2. IsListing(t, n, Range(quick))
    BY <1>3, <1>5, SortedHolds
  <2>3. Head(t) = t[1] /\ t[1] \in Range(t)
    BY <1>3, <2>1, <2>2 DEF IsListing, Range
  <2> QED
    BY <2>2, <2>3 DEF IsListing
<1>9. \A x \in Range(quick) : x \in Range(alternatives) /\ InMemoryPlaced(x) /\ x.speed.gen >= StarterMinTps
  BY <1>1 DEF IsPart, Range
<1> QED
  BY <1>7, <1>8, <1>9

\* A candidate is made from a variant that runs.
CandidateOf(r) ==
    [kind |-> r.kind, capabilities |-> r.capabilities, params |-> r.params, quality |-> Quality[r.model],
     from |-> Recommended(r), pick |-> BalanceStarterDownload(Recommended(r), r.alternatives)]

Proper(c) ==
    /\ Assessed(c.from) /\ Assessed(c.pick) /\ c.quality \in Int /\ c.params \in Int
    /\ c.pick = c.from \/ (InMemoryPlaced(c.pick) /\ c.pick.speed.gen >= StarterMinTps)

\* What a result brings into the choice of a starter is on the page.
LEMMA CandidateOfHolds ==
    ASSUME NEW r, Reported(r), Runs(r)
    PROVE  Proper(CandidateOf(r)) /\ CandidateOf(r).pick \in {Recommended(r)} \cup Range(r.alternatives)
<1> DEFINE b == BalanceStarterDownload(Recommended(r), r.alternatives)
           c == CandidateOf(r)
<1>1. /\ Assessed(Recommended(r)) /\ IsList(r.alternatives) /\ \A x \in Range(r.alternatives) : Assessed(x)
      /\ r.params \in Nat /\ Quality[r.model] \in Nat
  BY DEF Reported, Runs, IsList
<1>2. \/ b = Recommended(r)
      \/ b \in Range(r.alternatives) /\ InMemoryPlaced(b) /\ b.speed.gen >= StarterMinTps
  BY <1>1, BalanceHolds
<1>3. c.from = Recommended(r) /\ c.pick = b /\ c.quality = Quality[r.model] /\ c.params = r.params
  BY DEF CandidateOf
<1> HIDE DEF b, c
<1>4. Proper(c)
  BY <1>1, <1>2, <1>3 DEF Proper
<1>5. c.pick \in {Recommended(r)} \cup Range(r.alternatives)
  BY <1>2, <1>3
<1> QED
  BY <1>4, <1>5 DEF c

AllReported(results) == IsList(results) /\ \A r \in Range(results) : Reported(r)

\* Exactly the results that run are candidates.
LEMMA StarterCandidatesHold ==
    ASSUME NEW results, AllReported(results)
    PROVE  /\ IsList(StarterCandidates(results))
           /\ \A c : c \in Range(StarterCandidates(results)) <=> \E r \in Shown(results) : c = CandidateOf(r)
<1> DEFINE I == {i \in DOMAIN results : Runs(results[i])}
           running == Part(results, I)
           n == Len(running)
           list == [i \in 1 .. n |-> CandidateOf(running[i])]
<1>1. IsPart(running, results, I)
  BY PartIsPart DEF AllReported
<1>2. running = Select(results, Runs)
  BY DEF Select
<1>3. \A r : r \in Range(running) <=> r \in Shown(results)
  BY <1>1 DEF IsPart, Shown, Range
<1> HIDE DEF running
<1>4. n \in Nat /\ DOMAIN running = 1 .. n
  BY <1>1 DEF IsPart, IsList
<1>5. Evaluated(list) = list /\ IsList(list)
  BY <1>4, ListOf DEF IsList
<1>6. StarterCandidates(results) = list
  BY <1>2, <1>4, <1>5 DEF StarterCandidates, Each, CandidateOf
<1>7. \A c : c \in Range(list) <=> \E r \in Range(running) : c = CandidateOf(r)
  <2> HIDE DEF n
  <2> QED
    BY <1>4 DEF Range
<1> HIDE DEF list
<1> QED
  BY <1>3, <1>5, <1>6, <1>7

\* Candidates compare by numbers.
LEMMA StarterKeyTyped ==
    ASSUME NEW c, Proper(c)
    PROVE  StarterKey(c) \in [1 .. 4 -> Int]
<1>1. c.quality \in Int /\ c.pick.speed.gen \in Int /\ 0 - c.params \in Int
  BY DEF Proper, Assessed
<1>2. \A b \in BOOLEAN : Flag(b) \in Int
  BY DEF Flag
<1>3. Flag(c.pick.fit = "full") \in Int
  BY <1>2
<1> QED
  BY <1>1, <1>3, TupleOfInts DEF StarterKey

\* Whatever the results, the starter is a comfortable one when a chat model among them is.
LEMMA ComfortableHolds ==
    ASSUME NEW results, AllReported(results)
    PROVE  ComfortableAmong(results)
<1> DEFINE candidates == StarterCandidates(results)
           offered == {c \in Range(candidates) : General(c)}
           test(c) == /\ c.kind \in {"instruct", "vision"} /\ "chat" \in c.capabilities /\ InMemoryPlaced(c.pick)
           I == {i \in DOMAIN candidates : test(candidates[i])}
           general == Part(candidates, I)
           J == {i \in DOMAIN general : general[i].pick.speed.gen >= ComfortableTps}
           comfortable == Part(general, J)
           pool == IF comfortable # << >> THEN comfortable ELSE general
           n == Len(pool)
           keys == [i \in 1 .. n |-> StarterKey(pool[i])]
           ranked == Sorted(pool, keys)
           starter == Starter(results)
<1>1. IsList(candidates) /\ \A c : c \in Range(candidates) <=> \E r \in Shown(results) : c = CandidateOf(r)
  BY StarterCandidatesHold
<1>2. ASSUME NEW c \in Range(candidates)
      PROVE  Proper(c) /\ \E r \in Shown(results) : c.pick \in {Recommended(r)} \cup Range(r.alternatives)
  <2>1. PICK r \in Shown(results) : c = CandidateOf(r)
    BY <1>1
  <2>2. Reported(r) /\ Runs(r)
    BY DEF AllReported, Shown
  <2> QED
    BY <2>1, <2>2, CandidateOfHolds
<1> HIDE DEF candidates
<1>3. IsPart(general, candidates, I) /\ general = Select(candidates, LAMBDA c : test(c))
  BY <1>1, PartIsPart DEF Select
<1>4. \A c : c \in Range(general) <=> c \in Range(candidates) /\ test(c)
  BY <1>3 DEF IsPart, Range
<1> HIDE DEF general
<1>5. IsPart(comfortable, general, J) /\ comfortable = Select(general, LAMBDA c : c.pick.speed.gen >= ComfortableTps)
  <2>1. IsList(general)
    BY <1>3 DEF IsPart
  <2>2. IsPart(Part(general, J), general, J)
    BY <2>1, PartIsPart
  <2> QED
    BY <2>2 DEF Select
<1>6. \A c : c \in Range(comfortable) <=> c \in Range(general) /\ c.pick.speed.gen >= ComfortableTps
  BY <1>5 DEF IsPart, Range
<1> HIDE DEF comfortable, test
<1>7. IsList(pool) /\ \A c \in Range(pool) : c \in Range(general)
  BY <1>3, <1>5, <1>6 DEF IsPart
<1>8. comfortable # << >> => \A c \in Range(pool) : c.pick.speed.gen >= ComfortableTps
  BY <1>6
<1>9. pool = << >> => comfortable = << >> /\ general = << >>
  OBVIOUS
<1>18. starter = LET s == SortedBy(pool, StarterKey) IN SubSeq(s, 1, AtMost(1, Len(s)))
  BY <1>3, <1>5 DEF Starter, PickStarter, candidates, test
<1> HIDE DEF pool
<1>10. n \in Nat /\ DOMAIN pool = 1 .. n /\ \A i \in 1 .. n : Proper(pool[i])
  <2>1. n \in Nat /\ DOMAIN pool = 1 .. n
    BY <1>7 DEF IsList
  <2>2. \A i \in 1 .. n : pool[i] \in Range(candidates)
    BY <1>4, <1>7, <2>1 DEF Range
  <2> QED
    BY <1>2, <2>1, <2>2
<1>11. SortedBy(pool, StarterKey) = ranked
  <2>1. Evaluated(keys) = keys
    BY <1>10, ListOf
  <2> QED
    BY <1>10, <2>1 DEF SortedBy, Each
<1>12. keys \in [1 .. n -> [1 .. 4 -> Int]] /\ 4 \in Nat
  BY <1>10, StarterKeyTyped
<1> HIDE DEF keys, n
<1>13. IsListing(ranked, n, Range(pool))
  BY <1>10, <1>12, SortedHolds
<1>14. ASSUME pool # << >> PROVE starter = << ranked[1] >> /\ ranked[1] \in Range(pool)
  <2>0. n # 0
    BY <1>7, <1>10, <1>14 DEF n, IsList
  <2>1. Len(ranked) \in Nat /\ Len(ranked) # 0 /\ ranked \in Seq(Range(pool)) /\ Range(ranked) = Range(pool)
    BY <1>10, <1>13, <2>0 DEF IsListing
  <2> HIDE DEF ranked
  <2>2. IsList(ranked) /\ ranked # << >>
    BY <2>1 DEF IsList
  <2>3. starter = << ranked[1] >>
    BY <1>11, <1>18, <2>2, FirstOf
  <2>4. ranked[1] \in Range(ranked)
    BY <2>1 DEF Range
  <2> QED
    BY <2>1, <2>3, <2>4
<1>15. \A c \in offered : c \in Range(general)
  <2>1. \A c \in offered : c \in Range(candidates) /\ General(c)
    OBVIOUS
  <2>2. \A c \in offered : InMemoryPlaced(c.from) /\ Proper(c)
    BY <1>2, <2>1 DEF General
  <2>3. \A c \in offered : InMemoryPlaced(c.pick)
    BY <2>2 DEF Proper
  <2> HIDE DEF offered
  <2> QED
    BY <1>4, <2>1, <2>3 DEF test, General
<1>16. \A c \in offered : c.from.speed.gen >= ComfortableTps => c.pick.speed.gen >= ComfortableTps
  <2>1. \A c \in offered : Proper(c)
    BY <1>2
  <2>2. \A c : Proper(c) => c.pick.speed.gen \in Int
    BY DEF Proper, Assessed
  <2>3. \A c : Proper(c) /\ c.from.speed.gen >= ComfortableTps => c.pick.speed.gen >= ComfortableTps
    BY <2>2 DEF Proper, ComfortableTps, StarterMinTps
  <2> QED
    BY <2>1, <2>3
<1>17. ASSUME offered # {}
       PROVE  /\ starter # << >> /\ InMemoryPlaced(starter[1].pick)
              /\ (\E c \in offered : c.from.speed.gen >= ComfortableTps) => starter[1].pick.speed.gen >= ComfortableTps
              /\ \E r \in Shown(results) : starter[1].pick \in {Recommended(r)} \cup Range(r.alternatives)
  <2>0. PICK d : d \in offered
    BY <1>17
  <2> HIDE DEF offered, starter
  <2>1. general # << >>
    BY <1>15, <2>0 DEF Range
  <2>2. pool # << >>
    BY <1>9, <2>1
  <2>3. starter = << ranked[1] >> /\ ranked[1] \in Range(pool)
    BY <1>14, <2>2
  <2> DEFINE c == starter[1]
  <2>4. starter # << >> /\ c \in Range(pool)
    BY <2>3
  <2> HIDE DEF c
  <2>5. c \in Range(general) /\ c \in Range(candidates) /\ test(c)
    BY <1>4, <1>7, <2>4
  <2>6. InMemoryPlaced(c.pick)
    BY <2>5 DEF test
  <2>7. \E r \in Shown(results) : c.pick \in {Recommended(r)} \cup Range(r.alternatives)
    BY <1>2, <2>5
  <2>8. ASSUME NEW x \in offered, x.from.speed.gen >= ComfortableTps PROVE c.pick.speed.gen >= ComfortableTps
    <3>1. x \in Range(comfortable)
      BY <1>6, <1>15, <1>16, <2>8
    <3>2. comfortable # << >>
      BY <3>1 DEF Range
    <3> QED
      BY <1>8, <2>4, <3>2
  <2> QED
    BY <2>4, <2>6, <2>7, <2>8 DEF c
<1> QED
  BY <1>17 DEF ComfortableAmong, Comfortable, candidates

----------------------------------------------------------------------------
(* The results: one for each variant.                                      *)

OfVariant(files, v) == Select(files, LAMBDA f : f.variant = v)

\* The files of a variant are those of the list that have its key.
LEMMA OfVariantHolds ==
    ASSUME NEW files, IsList(files), NEW v
    PROVE  /\ IsList(OfVariant(files, v))
           /\ \A f : f \in Range(OfVariant(files, v)) <=> f \in Range(files) /\ f.variant = v
<1> DEFINE I == {i \in DOMAIN files : files[i].variant = v}
<1>1. IsPart(Part(files, I), files, I)
  BY PartIsPart
<1>2. OfVariant(files, v) = Part(files, I)
  BY DEF OfVariant, Select
<1> DEFINE t == Part(files, I)
<1>3. IsList(t)
  BY <1>1 DEF IsPart
<1>4. \A f : f \in Range(t) <=> f \in Range(files) /\ f.variant = v
  BY <1>1 DEF IsPart, Range
<1> HIDE DEF t
<1> QED
  BY <1>2, <1>3, <1>4 DEF t

(* The groups are the files of each variant there is. *)
LEMMA GroupsHold ==
    ASSUME NEW files, IsList(files)
    PROVE  /\ IsList(GroupByVariant(files))
           /\ \A g : g \in Range(GroupByVariant(files)) <=> \E f \in Range(files) : g = OfVariant(files, f.variant)
<1> DEFINE n == Len(files)
           places == [i \in 1 .. n |-> i]
           first(i) == \A j \in 1 .. i - 1 : files[j].variant # files[i].variant
           I == {i \in 1 .. n : first(i)}
           firsts == Part(places, I)
           m == Len(firsts)
           list == [k \in 1 .. m |-> OfVariant(files, files[firsts[k]].variant)]
<1>1. n \in Nat /\ DOMAIN files = 1 .. n
  BY DEF IsList
<1>2. IsList(places) /\ I \in SUBSET (DOMAIN places) /\ \A i \in I : places[i] = i
  BY <1>1 DEF IsList, Range
<1>3. firsts = Select([i \in DOMAIN files |-> i], LAMBDA i : \A j \in 1 .. i - 1 : files[j].variant # files[i].variant)
  <2>1. {i \in DOMAIN places : first(places[i])} = I
    BY <1>1
  <2>2. [i \in DOMAIN files |-> i] = places
    BY <1>1
  <2>3. Select(places, LAMBDA i : first(i)) = Part(places, {i \in DOMAIN places : first(places[i])})
    BY DEF Select
  <2> QED
    BY <2>1, <2>2, <2>3
<1>4. IsPart(firsts, places, I)
  BY <1>2, PartIsPart
<1>5. \A i : i \in Range(firsts) <=> i \in I
  BY <1>2, <1>4 DEF IsPart
<1> HIDE DEF firsts, places, I
<1>6. m \in Nat /\ DOMAIN firsts = 1 .. m
  BY <1>4 DEF IsPart, IsList
<1>7. GroupByVariant(files) = list /\ IsList(list)
  <2>1. Evaluated(list) = list /\ IsList(list)
    BY <1>6, ListOf DEF IsList
  <2>2. GroupByVariant(files) = Each(firsts, LAMBDA i : OfVariant(files, files[i].variant))
    BY <1>3 DEF GroupByVariant, OfVariant
  <2> QED
    BY <1>6, <2>1, <2>2 DEF Each
<1> HIDE DEF m
<1>8. ASSUME NEW g \in Range(list) PROVE \E f \in Range(files) : g = OfVariant(files, f.variant)
  <2>1. PICK k \in 1 .. m : g = OfVariant(files, files[firsts[k]].variant)
    BY <1>8 DEF Range
  <2>2. firsts[k] \in I
    BY <1>5, <1>6 DEF Range
  <2>3. files[firsts[k]] \in Range(files)
    BY <1>1, <2>2 DEF Range, I
  <2> QED
    BY <2>1, <2>3
<1>9. ASSUME NEW f \in Range(files) PROVE OfVariant(files, f.variant) \in Range(list)
  <2> DEFINE T == {i \in 1 .. n : files[i].variant = f.variant}
  <2>1. T # {} /\ T \subseteq Nat
    BY <1>1, <1>9 DEF Range
  <2>2. PICK i \in T : \A j \in T : i <= j
    BY <2>1, LeastNat
  <2>3. i \in I
    <3>1. ASSUME NEW j \in 1 .. i - 1 PROVE files[j].variant # files[i].variant
      <4>1. j \in 1 .. n /\ ~(i <= j)
        BY <1>1, <2>2
      <4>2. j \notin T
        BY <2>2, <4>1
      <4> QED
        BY <2>2, <4>1, <4>2
    <3> QED
      BY <2>2, <3>1 DEF I
  <2>4. PICK k \in 1 .. m : firsts[k] = i
    BY <1>5, <1>6, <2>3 DEF Range
  <2>5. list[k] = OfVariant(files, f.variant)
    BY <2>2, <2>4
  <2> QED
    BY <2>5 DEF Range
<1> HIDE DEF list
<1>10. \A g : g \in Range(list) <=> \E f \in Range(files) : g = OfVariant(files, f.variant)
  BY <1>8, <1>9
<1> QED
  BY <1>7, <1>10

\* What is said of a group of files was assessed.
LEMMA VariantHolds ==
    ASSUME NEW spec, IsMachine(spec), NEW group \in Seq(Files), group # << >>,
           NEW runtimes, IsList(runtimes), NEW ctx \in Nat, NEW measurements, Measurements(measurements)
    PROVE  Reported(EvaluateVariant(spec, group, runtimes, measurements, ctx))
<1> DEFINE c == Candidates(spec, group, runtimes, measurements, ctx)
<1>1. IsList(group) /\ \A f \in Range(group) : f \in Files
  BY DEF IsList, Range
<1>2. \A f \in Range(group) : IsFile(f)
  BY <1>1, RunPageAssumption
<1>3. AreCandidates(c, spec, group, runtimes, measurements, ctx)
  BY <1>1, <1>2, CandidatesHold
<1>4. IsList(c) /\ \A x \in Range(c) : Assessed(x)
  BY <1>3 DEF AreCandidates
<1>5. EvaluateVariant(spec, group, runtimes, measurements, ctx) = VariantResult(group, c)
  BY DEF EvaluateVariant, Candidates, Assess
<1> HIDE DEF c
<1> QED
  BY <1>4, <1>5, ResultHolds

\* A catalog and options the engine can work with.
Answerable(database, hardware, opts) ==
    /\ database.files \in Seq(Files) /\ IsList(database.runtimes)
    /\ Measurements(LoadMeasurements(database, opts.includeCommunity))
    /\ IsMachine(hardware.spec) /\ opts.ctx \in Nat

Chosen(f, opts) ==
    /\ f.kind # "base"
    /\ opts.capability # "" => opts.capability \in f.capabilities
    /\ opts.commercialOnly => f.commercialUse = "allowed"

ChosenFiles(database, opts) ==
    Select(LoadCompatCatalog(database, opts.includeCommunity).files,
           LAMBDA f : /\ opts.capability # "" => opts.capability \in f.capabilities
                      /\ opts.commercialOnly => f.commercialUse = "allowed")

ChosenRuntimes(database, opts) ==
    IF opts.runtime = "" THEN database.runtimes ELSE Select(database.runtimes, LAMBDA r : r.id = opts.runtime)

\* The options choose among the files and the runtimes, and nothing else.
LEMMA ChosenHold ==
    ASSUME NEW database, database.files \in Seq(Files), IsList(database.runtimes), NEW opts
    PROVE  /\ IsList(ChosenFiles(database, opts)) /\ IsList(ChosenRuntimes(database, opts))
           /\ \A f : f \in Range(ChosenFiles(database, opts)) <=> f \in Range(database.files) /\ Chosen(f, opts)
<1> DEFINE s == database.files
           I == {i \in DOMAIN s : s[i].kind # "base"}
           t == Part(s, I)
           test(f) == /\ opts.capability # "" => opts.capability \in f.capabilities
                      /\ opts.commercialOnly => f.commercialUse = "allowed"
           J == {i \in DOMAIN t : test(t[i])}
           u == Part(t, J)
           K == {i \in DOMAIN database.runtimes : database.runtimes[i].id = opts.runtime}
<1>0. IsList(s)
  BY DEF IsList, Range
<1>1. IsPart(t, s, I) /\ t = LoadCompatCatalog(database, opts.includeCommunity).files
  <2>1. IsPart(t, s, I)
    BY <1>0, PartIsPart
  <2> QED
    BY <2>1 DEF LoadCompatCatalog, Select
<1> HIDE DEF t, s
<1>2. IsPart(u, t, J)
  <2>1. IsList(t)
    BY <1>1 DEF IsPart
  <2> QED
    BY <2>1, PartIsPart
<1>3. u = ChosenFiles(database, opts)
  BY <1>1 DEF ChosenFiles, Select
<1>4. \A f : f \in Range(u) <=> f \in Range(t) /\ test(f)
  BY <1>2 DEF IsPart, Range
<1>5. \A f : f \in Range(t) <=> f \in Range(s) /\ f.kind # "base"
  BY <1>1 DEF IsPart, Range
<1>6. IsList(ChosenRuntimes(database, opts))
  <2>1. IsPart(Part(database.runtimes, K), database.runtimes, K)
    BY PartIsPart
  <2>2. IsList(Part(database.runtimes, K)) /\ Select(database.runtimes, LAMBDA r : r.id = opts.runtime) = Part(database.runtimes, K)
    BY <2>1 DEF IsPart, Select
  <2> QED
    BY <2>2 DEF ChosenRuntimes
<1>7. IsList(u)
  BY <1>2 DEF IsPart
<1> HIDE DEF u
<1>8. \A f : f \in Range(u) <=> f \in Range(s) /\ Chosen(f, opts)
  BY <1>4, <1>5 DEF Chosen
<1> QED
  BY <1>3, <1>6, <1>7, <1>8 DEF s

Result(database, hardware, opts, v) ==
    EvaluateVariant(hardware.spec, OfVariant(ChosenFiles(database, opts), v), ChosenRuntimes(database, opts),
                    LoadMeasurements(database, opts.includeCommunity), opts.ctx)

\* The answer for one variant is typed.
LEMMA ResultReported ==
    ASSUME NEW database, NEW hardware, NEW opts, Answerable(database, hardware, opts),
           NEW f \in Range(ChosenFiles(database, opts))
    PROVE  Reported(Result(database, hardware, opts, f.variant))
<1> DEFINE files == ChosenFiles(database, opts)
           group == OfVariant(files, f.variant)
<1>1. IsList(files) /\ IsList(ChosenRuntimes(database, opts)) /\ \A g \in Range(files) : g \in Range(database.files)
  BY ChosenHold DEF Answerable
<1>2. IsList(group) /\ f \in Range(group) /\ \A g \in Range(group) : g \in Range(files)
  BY <1>1, OfVariantHolds
<1>3. \A g \in Range(database.files) : g \in Files
  BY DEF Answerable, Range
<1> HIDE DEF group, files
<1>4. group \in Seq(Files) /\ group # << >>
  <2>1. \A g \in Range(group) : g \in Files
    BY <1>1, <1>2, <1>3
  <2>2. group \in [1 .. Len(group) -> Files] /\ Len(group) \in Nat
    BY <1>2, <2>1 DEF IsList, Range
  <2>3. group \in Seq(Files)
    BY <2>2
  <2>4. group # << >>
    BY <1>2 DEF Range
  <2> QED
    BY <2>3, <2>4
<1>5. Reported(EvaluateVariant(hardware.spec, group, ChosenRuntimes(database, opts), LoadMeasurements(database, opts.includeCommunity), opts.ctx))
  BY <1>1, <1>4, VariantHolds DEF Answerable
<1> QED
  BY <1>5 DEF Result, group, files

\* Answers compare by numbers.
LEMMA ResultKeyTyped ==
    ASSUME NEW r, Reported(r)
    PROVE  ResultKey(r) \in [1 .. 2 -> Int]
<1>1. r.params \in Int /\ (Runs(r) => Assessed(Recommended(r)))
  BY DEF Reported, Runs
<1>2. (IF Runs(r) THEN FitRank[Recommended(r).fit] ELSE 0) \in Int
  BY <1>1 DEF Assessed, Fits, FitRank
<1> QED
  BY <1>1, <1>2, TupleOfInts DEF ResultKey

\* The answers are one for each variant that has a chosen file, of all its chosen files.
LEMMA CompatibilityHolds ==
    ASSUME NEW database, NEW hardware, NEW opts, Answerable(database, hardware, opts)
    PROVE  /\ AllReported(RunCompatibility(database, hardware, opts))
           /\ \A r : r \in Range(RunCompatibility(database, hardware, opts)) <=>
                 \E f \in Range(database.files) : Chosen(f, opts) /\ r = Result(database, hardware, opts, f.variant)
<1> DEFINE files == ChosenFiles(database, opts)
           groups == GroupByVariant(files)
           n == Len(groups)
           answer(g) == EvaluateVariant(hardware.spec, g, ChosenRuntimes(database, opts),
                                        LoadMeasurements(database, opts.includeCommunity), opts.ctx)
           list == [i \in 1 .. n |-> answer(groups[i])]
           keys == [i \in 1 .. n |-> ResultKey(list[i])]
           t == Sorted(list, keys)
<1>1. IsList(files) /\ \A f : f \in Range(files) <=> f \in Range(database.files) /\ Chosen(f, opts)
  BY ChosenHold DEF Answerable
<1>2. IsList(groups) /\ \A g : g \in Range(groups) <=> \E f \in Range(files) : g = OfVariant(files, f.variant)
  BY <1>1, GroupsHold
<1>3. RunCompatibility(database, hardware, opts) = SortedBy(Each(groups, LAMBDA g : answer(g)), ResultKey)
  BY DEF RunCompatibility, LoadCompatCatalog, ChosenFiles, ChosenRuntimes
<1>4. \A f \in Range(files) : Reported(answer(OfVariant(files, f.variant)))
  BY ResultReported DEF Result
<1>5. \A f : Result(database, hardware, opts, f.variant) = answer(OfVariant(files, f.variant))
  BY DEF Result
<1> HIDE DEF answer, files, groups
<1>6. n \in Nat /\ DOMAIN groups = 1 .. n
  BY <1>2 DEF IsList
<1>7. Evaluated(list) = list /\ Evaluated(keys) = keys /\ DOMAIN list = 1 .. n
  BY <1>6, ListOf
<1>8. RunCompatibility(database, hardware, opts) = t
  BY <1>3, <1>6, <1>7 DEF SortedBy, Each
<1>9. \A r : r \in Range(list) <=> \E f \in Range(files) : r = answer(OfVariant(files, f.variant))
  BY <1>2, <1>6 DEF Range
<1>10. \A i \in 1 .. n : Reported(list[i])
  BY <1>4, <1>9 DEF Range
<1> HIDE DEF list
<1>11. keys \in [1 .. n -> [1 .. 2 -> Int]] /\ 2 \in Nat
  BY <1>10, ResultKeyTyped
<1> HIDE DEF keys, n
<1>12. IsListing(t, n, Range(list))
  BY <1>6, <1>7, <1>11, SortedHolds
<1>13. IsList(t) /\ Range(t) = Range(list)
  BY <1>12 DEF IsListing, IsList
<1>14. \A r \in Range(list) : Reported(r)
  BY <1>4, <1>9
<1> HIDE DEF t
<1>15. AllReported(t)
  BY <1>13, <1>14 DEF AllReported
<1>16. \A r : r \in Range(t) <=>
           \E f \in Range(database.files) : Chosen(f, opts) /\ r = Result(database, hardware, opts, f.variant)
  BY <1>1, <1>5, <1>9, <1>13
<1> QED
  BY <1>8, <1>15, <1>16

----------------------------------------------------------------------------
(* The state.                                                              *)

\* The published files are files, each stored once.
Stored == rows \in Seq(Files) /\ Distinct(rows)

Typed ==
    /\ Stored
    /\ runs \subseteq BenchmarkRuns
    /\ contributions \in BOOLEAN
    /\ IsTyped(url)

Parameters == {"mode", "mine", "system", "d0", "c0", "d1", "c1", "ram", "unified", "ctx", "cap", "runtime", "commercial"}

\* A query string, parameter by parameter.
LEMMA ParametersTyped ==
    ASSUME NEW u
    PROVE  IsTyped(u) <=> /\ u = [p \in Parameters |-> u[p]]
                          /\ {u.c0, u.c1, u.ram, u.unified, u.ctx} \subseteq Nat \cup {NotGiven}
                          /\ u.commercial \in BOOLEAN
<1>1. DOMAIN NoParameters = Parameters
  BY DEF NoParameters, Parameters
<1> QED
  BY <1>1 DEF IsTyped

\* The page is first asked without parameters.
LEMMA InitTyped == Init => Typed
<1> SUFFICES ASSUME Init PROVE Typed
  OBVIOUS
<1>1. Stored /\ runs \subseteq BenchmarkRuns /\ contributions \in BOOLEAN
  BY RunPageAssumption DEF Init, Stored, Distinct
<1>2. IsTyped(url)
  <2>1. url = NoParameters
    BY DEF Init
  <2>2. IsTyped(NoParameters)
    BY DEF IsTyped, NoParameters, NotGiven
  <2> QED
    BY <2>1, <2>2
<1> QED
  BY <1>1, <1>2 DEF Typed

\* Every step of the catalog and of the visitor keeps the types.
LEMMA StepTyped == Typed /\ [Next]_vars => Typed'
<1> SUFFICES ASSUME Typed, [Next]_vars PROVE Typed'
  OBVIOUS
<1> USE DEF Typed
<1>1. ASSUME NEW f \in Files, PublishFile(f) PROVE Typed'
  <2>1. rows' = Append(rows, f) /\ rows \in Seq(Files) /\ \A i \in DOMAIN rows : rows[i] # f
    BY <1>1 DEF PublishFile, Stored, Range
  <2>2. DOMAIN rows' = 1 .. Len(rows) + 1 /\ rows' \in Seq(Files)
        /\ \A i \in DOMAIN rows' : rows'[i] = IF i \in DOMAIN rows THEN rows[i] ELSE f
    BY <2>1
  <2>3. Stored'
    BY <2>1, <2>2 DEF Stored, Distinct
  <2> QED
    BY <1>1, <2>3 DEF PublishFile, IsTyped
<1>2. ASSUME RewriteRow PROVE Typed'
  <2>1. rows' = Append(Tail(rows), Head(rows)) /\ rows \in Seq(Files) /\ Len(rows) > 1
    BY <1>2 DEF RewriteRow, Stored
  <2>2. DOMAIN rows' = 1 .. Len(rows) /\ rows' \in Seq(Files)
        /\ \A i \in DOMAIN rows' : rows'[i] = IF i = Len(rows) THEN rows[1] ELSE rows[i + 1]
    BY <2>1
  <2>3. ASSUME NEW i \in DOMAIN rows', NEW j \in DOMAIN rows', rows'[i] = rows'[j] PROVE i = j
    <3> DEFINE to(k) == IF k = Len(rows) THEN 1 ELSE k + 1
    <3>1. to(i) \in DOMAIN rows /\ to(j) \in DOMAIN rows /\ rows[to(i)] = rows[to(j)]
      BY <2>1, <2>2, <2>3
    <3>2. to(i) = to(j)
      BY <3>1 DEF Stored, Distinct
    <3> QED
      BY <2>1, <2>2, <3>2
  <2>4. Stored'
    BY <2>2, <2>3 DEF Stored, Distinct
  <2> QED
    BY <1>2, <2>4 DEF RewriteRow, IsTyped
<1>3. ASSUME NEW r \in BenchmarkRuns, ImportRun(r) PROVE Typed'
  BY <1>3 DEF ImportRun, Stored, IsTyped
<1>4. ASSUME NEW s \in Submissions, Verify(s) \/ Hide(s) PROVE Typed'
  BY <1>4 DEF Verify, Hide, Stored, IsTyped
<1>5. ASSUME NEW m \in Members, SignIn(m) PROVE Typed'
  BY <1>5 DEF SignIn, Stored, IsTyped
<1>6. IsTyped(Kept)
  BY DEF IsTyped, Kept, NoParameters, NotGiven
<1>7. ASSUME NEW u, Go(u), IsTyped(u) PROVE Typed'
  BY <1>7 DEF Go, Stored, IsTyped
<1>8. ASSUME NEW s \in Systems, ChooseSystem(s.id) PROVE Typed'
  <2>1. IsTyped([Kept EXCEPT !.mode = "system", !.system = s.id])
    BY <1>6 DEF IsTyped, NoParameters
  <2> QED
    BY <1>7, <1>8, <2>1 DEF ChooseSystem
<1>9. ASSUME NEW c \in Saved, ChooseSaved(c.id) PROVE Typed'
  <2>1. IsTyped([Kept EXCEPT !.mode = "mine", !.mine = c.id])
    BY <1>6 DEF IsTyped, NoParameters
  <2> QED
    BY <1>7, <1>9, <2>1 DEF ChooseSaved
<1>10. ASSUME NEW u \in Setups, CheckSetup(u) PROVE Typed'
  <2>1. IsTyped([u EXCEPT !.mode = "custom", !.ctx = url.ctx])
    <3> DEFINE e == [u EXCEPT !.mode = "custom", !.ctx = url.ctx]
    <3>1. u = [p \in Parameters |-> u[p]] /\ {u.c0, u.c1, u.ram, u.unified} \subseteq Nat \cup {NotGiven}
      BY RunPageAssumption, ParametersTyped
    <3>2. url.ctx \in Nat \cup {NotGiven} /\ u.commercial \in BOOLEAN
      BY RunPageAssumption DEF IsTyped
    <3>3. e.commercial = u.commercial /\ e.c0 = u.c0 /\ e.c1 = u.c1 /\ e.ram = u.ram /\ e.unified = u.unified /\ e.ctx = url.ctx
      BY <3>1 DEF Parameters
    <3>4. e = [p \in Parameters |-> e[p]]
      BY <3>1
    <3> HIDE DEF e
    <3>5. IsTyped(e)
      BY <3>1, <3>2, <3>3, <3>4, ParametersTyped
    <3> QED
      BY <3>5 DEF e
  <2> QED
    BY <1>7, <1>10, <2>1 DEF CheckSetup
<1>11. ASSUME NEW f \in Filters, Update(f.ctx, f.cap, f.runtime, f.commercial) PROVE Typed'
  <2>1. IsTyped([url EXCEPT !.ctx = f.ctx, !.cap = f.cap, !.runtime = f.runtime, !.commercial = f.commercial])
    <3> DEFINE e == [url EXCEPT !.ctx = f.ctx, !.cap = f.cap, !.runtime = f.runtime, !.commercial = f.commercial]
    <3>1. url = [p \in Parameters |-> url[p]] /\ {url.c0, url.c1, url.ram, url.unified} \subseteq Nat \cup {NotGiven}
      BY ParametersTyped
    <3>2. f.ctx \in Nat \cup {NotGiven} /\ f.commercial \in BOOLEAN
      BY RunPageAssumption
    <3>3. e.commercial = f.commercial /\ e.c0 = url.c0 /\ e.c1 = url.c1 /\ e.ram = url.ram /\ e.unified = url.unified /\ e.ctx = f.ctx
      BY <3>1 DEF Parameters
    <3>4. e = [p \in Parameters |-> e[p]]
      BY <3>1
    <3> HIDE DEF e
    <3>5. IsTyped(e)
      BY <3>1, <3>2, <3>3, <3>4, ParametersTyped
    <3> QED
      BY <3>5 DEF e
  <2> QED
    BY <1>7, <1>11, <2>1 DEF Update
<1>12. ASSUME UNCHANGED vars PROVE Typed'
  BY <1>12 DEF vars, Stored, IsTyped
<1> QED
  BY <1>1, <1>2, <1>3, <1>4, <1>5, <1>8, <1>9, <1>10, <1>11, <1>12 DEF Next

\* What ingestion publishes stays a list of files stored once, and a query string is numbers where it must be.
THEOREM TypeCorrect == Spec => []Typed
<1>1. Init => Typed
  BY InitTyped
<1>2. Typed /\ [Next]_vars => Typed'
  BY StepTyped
<1> QED
  BY <1>1, <1>2, PTL DEF Spec

(* Measurements are finitely many numbers, whoever made them. *)
LEMMA MeasurementsHold ==
    ASSUME Typed, NEW b \in BOOLEAN
    PROVE  Measurements(LoadMeasurements(db, b))
<1> DEFINE m(r) == r.measurement
           imported == {r.measurement : r \in BenchmarkRuns}
           all == imported \cup Submissions
           loaded == LoadMeasurements(db, b)
<1>1. IsFiniteSet(imported)
  <2>1. [r \in BenchmarkRuns |-> r.measurement] \in Surjection(BenchmarkRuns, imported)
    BY DEF Surjection
  <2> QED
    BY <2>1, RunPageAssumption, FS_Surjection
<1>2. IsFiniteSet(all)
  BY <1>1, RunPageAssumption, FS_Union
<1>3. loaded \in SUBSET all
  <2>1. {r.measurement : r \in db.runs} \subseteq imported
    BY DEF db, Typed
  <2>2. ASSUME NEW s \in db.submissions PROVE s.measurement \in Submissions
    BY DEF db
  <2> QED
    BY <2>1, <2>2 DEF LoadMeasurements
<1>4. \A x \in all : x.gen \in Nat
  BY RunPageAssumption
<1> HIDE DEF all, loaded
<1>5. IsFiniteSet(loaded)
  BY <1>2, <1>3, FS_Subset
<1> QED
  BY <1>3, <1>4, <1>5 DEF Measurements, loaded

\* A machine composed in the form is one the engine can be given.
LEMMA CustomHardware ==
    ASSUME NEW input, IsList(input.components), \A c \in Range(input.components) : c.count \in Int,
           input.ram \in Nat, input.unified \in Nat \cup {NotGiven}, NEW h \in BuildCustomHardware(db, input)
    PROVE  IsMachine(h.spec)
<1> DEFINE I == {i \in DOMAIN input.components : \E d \in db.devices : d.slug = input.components[i].slug}
           named == Part(input.components, I)
           n == Len(named)
           card(c) == [device |-> CHOOSE d \in db.devices : d.slug = c.slug, count |-> Clamped(c.count)]
           list == [i \in 1 .. n |-> card(named[i])]
           Cards == {c \in Range(list) \cup {HostCpu} : IsDevice(c.device) /\ c.count \in Nat}
           has(P(_)) == \E i \in DOMAIN list : P(list[i].device)
           unified == has(LAMBDA d : d.memory = "unified")
           cpu == has(LAMBDA d : d.kind = "cpu")
           components == IF cpu \/ unified THEN list ELSE Append(list, HostCpu)
<1>1. IsPart(named, input.components, I)
  BY PartIsPart
<1>2. named = Select(input.components, LAMBDA c : \E d \in db.devices : d.slug = c.slug)
  BY DEF Select
<1> HIDE DEF named
<1>3. n \in Nat /\ DOMAIN named = 1 .. n
  BY <1>1 DEF IsPart, IsList
<1>4. Evaluated(list) = list /\ DOMAIN list = 1 .. n
  BY <1>3, ListOf
<1>5. Each(named, LAMBDA c : card(c)) = list
  BY <1>3, <1>4 DEF Each
<1>6. ASSUME NEW i \in 1 .. n PROVE IsDevice(list[i].device) /\ list[i].count \in Nat
  <2>1. PICK j \in I : named[i] = input.components[j]
    BY <1>1, <1>3 DEF IsPart, Range
  <2>2. PICK d \in db.devices : d.slug = named[i].slug
    BY <2>1
  <2>3. (CHOOSE e \in db.devices : e.slug = named[i].slug) \in Devices
    BY <2>2 DEF db
  <2>4. named[i].count \in Int
    BY <2>1 DEF Range
  <2>5. Clamped(named[i].count) \in Nat
    BY <2>4 DEF Clamped, AtMost, MaxCount
  <2> QED
    BY <2>3, <2>5, RunPageAssumption
<1>7. IsDevice(HostCpu.device) /\ HostCpu.count \in Nat
  BY DEF HostCpu, IsDevice
<1> HIDE DEF card, n
<1>8. list \in Seq(Cards)
  <2>1. \A i \in 1 .. n : list[i] \in Cards
    BY <1>4, <1>6 DEF Range
  <2>2. list = [i \in 1 .. n |-> list[i]]
    OBVIOUS
  <2> HIDE DEF list, Cards
  <2>3. list \in [1 .. n -> Cards]
    BY <2>1, <2>2
  <2> QED
    BY <1>3, <2>3
<1>9. components \in Seq(Cards)
  <2>1. HostCpu \in Cards
    BY <1>7
  <2> HIDE DEF list, Cards, cpu, unified
  <2> QED
    BY <1>8, <2>1
<1>10. h.spec = HardwareSpec("custom", components, IF unified THEN 0 ELSE input.ram,
                             IF unified THEN 0 ELSE DefaultRamBandwidth,
                             IF unified THEN Default(input.unified, DefaultUnified) ELSE 0)
  <2> DEFINE Built(parts) ==
               LET carries(P(_)) == \E i \in DOMAIN parts : P(parts[i].device)
                   shares == carries(LAMBDA d : d.memory = "unified")
                   hosted == carries(LAMBDA d : d.kind = "cpu")
               IN IF parts = << >> THEN {}
                  ELSE {[source |-> "custom",
                         spec |-> HardwareSpec("custom",
                                     IF hosted \/ shares THEN parts ELSE Append(parts, HostCpu),
                                     IF shares THEN 0 ELSE input.ram,
                                     IF shares THEN 0 ELSE DefaultRamBandwidth,
                                     IF shares THEN Default(input.unified, DefaultUnified) ELSE 0)]}
  <2>1. BuildCustomHardware(db, input) = Built(Evaluated([i \in DOMAIN named |-> card(named[i])]))
    BY DEF BuildCustomHardware, Each, Select, named, card
  <2>2. [i \in DOMAIN named |-> card(named[i])] = list
    BY <1>3
  <2>3. h \in Built(list)
    BY <1>4, <2>1, <2>2
  <2> HIDE DEF list
  <2> QED
    BY <2>3
<1>11. \A c \in Cards : IsDevice(c.device) /\ c.count \in Nat
  OBVIOUS
<1> HIDE DEF components, Cards, unified
<1>12. Default(input.unified, DefaultUnified) \in Nat
  BY DEF Default, DefaultUnified, NotGiven
<1> QED
  BY <1>9, <1>10, <1>11, <1>12 DEF IsMachine, HardwareSpec, DefaultRamBandwidth, Range

\* Whatever machine a request names, the engine is given one.
LEMMA HardwareHolds ==
    ASSUME Typed, NEW h \in Hardware(Request)
    PROVE  IsMachine(h.spec)
<1> DEFINE u == url
           a == [slug |-> u.d0, count |-> Default(u.c0, 1)]
           b == [slug |-> u.d1, count |-> Default(u.c1, 1)]
           s == << a, b >>
           I == {i \in DOMAIN s : s[i].slug # ""}
<1>1. u.c0 \in Nat \cup {NotGiven} /\ u.c1 \in Nat \cup {NotGiven} /\ u.ram \in Nat \cup {NotGiven}
      /\ u.unified \in Nat \cup {NotGiven}
  BY DEF Typed, IsTyped
<1>2. ASSUME h \in BuildCustomHardware(db, CustomInput(u)) PROVE IsMachine(h.spec)
  <2> DEFINE input == CustomInput(u)
  <2>1. IsList(s) /\ \A c \in Range(s) : c.count \in Int
    <3>1. a.count \in Int /\ b.count \in Int
      BY <1>1 DEF Default, NotGiven
    <3> HIDE DEF a, b
    <3>2. Range(s) = {a, b} /\ s \in Seq({a, b})
      BY DEF Range
    <3> QED
      BY <3>1, <3>2 DEF IsList
  <2>2. input.components = Part(s, I)
    BY DEF CustomInput, Select
  <2> HIDE DEF s
  <2>3. IsPart(Part(s, I), s, I)
    BY <2>1, PartIsPart
  <2>4. IsList(input.components) /\ \A c \in Range(input.components) : c.count \in Int
    <3> DEFINE t == Part(s, I)
    <3>1. IsList(t) /\ \A c \in Range(t) : \E i \in I : c = s[i]
      BY <2>3 DEF IsPart
    <3>2. \A i \in I : s[i] \in Range(s)
      BY DEF Range
    <3> HIDE DEF t
    <3>3. IsList(t) /\ \A c \in Range(t) : c.count \in Int
      BY <2>1, <3>1, <3>2
    <3> QED
      BY <2>2, <3>3 DEF t
  <2>5. input.ram \in Nat /\ input.unified \in Nat \cup {NotGiven}
    BY <1>1 DEF CustomInput, Default
  <2> HIDE DEF input
  <2>6. h \in BuildCustomHardware(db, input)
    BY <1>2 DEF input
  <2> QED
    BY <2>4, <2>5, <2>6, CustomHardware
<1>3. ASSUME h \in LoadReferenceHardware(db, u.system) \cup LoadUserHardware(db, viewer, u.mine) PROVE IsMachine(h.spec)
  <2>1. PICK row \in Systems \cup Saved :
           h.spec = HardwareSpec(row.id, row.components, row.ram, row.ramBandwidth, row.unified)
    BY <1>3 DEF LoadReferenceHardware, LoadUserHardware, Selection, db
  <2>2. IsMachine(row)
    BY RunPageAssumption
  <2> QED
    BY <2>1, <2>2 DEF IsMachine, HardwareSpec
<1>4. \/ h \in BuildCustomHardware(db, CustomInput(u))
      \/ h \in LoadReferenceHardware(db, u.system) \cup LoadUserHardware(db, viewer, u.mine)
  BY DEF Hardware, Request, Mode
<1> QED
  BY <1>2, <1>3, <1>4

\* Every request can be answered.
LEMMA RequestAnswerable ==
    ASSUME Typed, NEW h \in Hardware(Request)
    PROVE  Answerable(db, h, Options(Request))
<1>1. db.files \in Seq(Files) /\ IsList(db.runtimes)
  BY RunPageAssumption DEF db, Typed, Stored, IsList
<1>2. Options(Request).includeCommunity \in BOOLEAN /\ Options(Request).ctx \in Nat
  BY DEF Options, Request, IncludeCommunityMeasurements, CommunityContentIsSample, Context, Default, Typed, IsTyped, NotGiven
<1> QED
  BY <1>1, <1>2, MeasurementsHold, HardwareHolds DEF Answerable

\* So what every request shows is typed.
LEMMA ResultsReported ==
    ASSUME Typed
    PROVE  AllReported(Results(Request))
<1>1. CASE Hardware(Request) = {}
  <2>1. Results(Request) = << >>
    BY <1>1 DEF Results
  <2>2. AllReported(<< >>)
    BY DEF AllReported, IsList, Range
  <2> QED
    BY <2>1, <2>2
<1>2. CASE Hardware(Request) # {}
  <2> DEFINE h == CHOOSE h \in Hardware(Request) : TRUE
  <2>1. h \in Hardware(Request)
    BY <1>2
  <2>2. Results(Request) = RunCompatibility(db, h, Options(Request))
    BY <1>2 DEF Results, Request
  <2> HIDE DEF h
  <2> QED
    BY <2>1, <2>2, RequestAnswerable, CompatibilityHolds
<1> QED
  BY <1>1, <1>2

(* The first model to try is a comfortable one whenever the page offers one. *)
THEOREM StarterCorrect == Spec => []StarterIsComfortable
<1>1. Typed => StarterIsComfortable
  BY ResultsReported, ComfortableHolds DEF StarterIsComfortable
<1> QED
  BY <1>1, TypeCorrect, PTL

----------------------------------------------------------------------------
(* The pages agree.                                                        *)

\* What /run shows of a reference system to a visitor who sets no filter.
PlainOptions ==
    [ctx |-> ReferenceContext, capability |-> "", runtime |-> "", commercialOnly |-> FALSE,
     includeCommunity |-> IncludeCommunityMeasurements(Request)]
On(s) == RunCompatibility(db, Selection("reference", s), PlainOptions)

\* So can the pages that ask about every reference system.
LEMMA PlainlyAnswerable ==
    ASSUME Typed, NEW s \in Systems
    PROVE  Answerable(db, Selection("reference", s), PlainOptions)
<1>1. db.files \in Seq(Files) /\ IsList(db.runtimes)
  BY RunPageAssumption DEF db, Typed, Stored, IsList
<1>2. PlainOptions.includeCommunity \in BOOLEAN /\ PlainOptions.ctx \in Nat
  BY DEF PlainOptions, Request, IncludeCommunityMeasurements, CommunityContentIsSample, Typed, ReferenceContext
<1>3. IsMachine(Selection("reference", s).spec)
  BY RunPageAssumption DEF Selection, HardwareSpec, IsMachine
<1> QED
  BY <1>1, <1>2, <1>3, MeasurementsHold DEF Answerable

(* A plain request is answered so. *)
LEMMA AskedSystem ==
    ASSUME Typed, NEW s \in Systems, AskedPlainly(url), url.system = s.id
    PROVE  Results(Request) = On(s)
<1>1. Hardware(Request) = {Selection("reference", s)}
  <2>1. s.id # "" /\ \A t \in Systems : t.id = s.id <=> t = s
    BY RunPageAssumption
  <2>2. Hardware(Request) = LoadReferenceHardware(db, s.id)
    BY <2>1 DEF Hardware, Request, AskedPlainly
  <2>3. LoadReferenceHardware(db, s.id) = {Selection("reference", t) : t \in {t \in Systems : t.id = s.id}}
    BY DEF LoadReferenceHardware, db
  <2>4. {t \in Systems : t.id = s.id} = {s}
    BY <2>1
  <2> QED
    BY <2>2, <2>3, <2>4
<1>2. Options(Request) = PlainOptions
  <2>1. url.commercial = FALSE
    BY DEF AskedPlainly, Typed, IsTyped
  <2> QED
    BY <2>1 DEF Options, PlainOptions, AskedPlainly, Request
<1> DEFINE x == Selection("reference", s)
<1>3. (CHOOSE h \in Hardware(Request) : TRUE) = x /\ Hardware(Request) # {}
  <2> HIDE DEF x
  <2> QED
    BY <1>1 DEF x
<1>4. Results(Request) = RunCompatibility(db, CHOOSE h \in Hardware(Request) : TRUE, Options(Request))
  <2>1. Request.db = db
    BY DEF Request
  <2> QED
    BY <1>3, <2>1 DEF Results
<1> QED
  BY <1>2, <1>3, <1>4 DEF On

Catalogued == LoadCompatCatalog(db, IncludeCommunityMeasurements(Request))

\* A request without filters chooses what the page of a model does.
LEMMA PlainlyChosen ==
    ASSUME Typed
    PROVE  /\ ChosenFiles(db, PlainOptions) = Catalogued.files
           /\ ChosenRuntimes(db, PlainOptions) = Catalogued.runtimes
           /\ LoadMeasurements(db, PlainOptions.includeCommunity) = Catalogued.measurements
           /\ IsList(Catalogued.files)
           /\ \A f : f \in Range(Catalogued.files) <=> f \in Range(rows) /\ Chosen(f, PlainOptions)
<1> DEFINE files == Catalogued.files
           I == {i \in DOMAIN rows : rows[i].kind # "base"}
<1>1. files = Part(rows, I) /\ IsList(rows)
  BY DEF Catalogued, LoadCompatCatalog, Select, db, Typed, Stored, IsList, Range
<1>2. IsList(files)
  <2>1. IsPart(Part(rows, I), rows, I)
    BY <1>1, PartIsPart
  <2> QED
    BY <1>1, <2>1 DEF IsPart
<1>3. ChosenFiles(db, PlainOptions) = Part(files, {i \in DOMAIN files : TRUE})
  <2>1. LoadCompatCatalog(db, PlainOptions.includeCommunity).files = files
    BY DEF Catalogued, PlainOptions
  <2> HIDE DEF files
  <2>2. ChosenFiles(db, PlainOptions)
          = Part(files, {i \in DOMAIN files : /\ PlainOptions.capability # "" => PlainOptions.capability \in files[i].capabilities
                                              /\ PlainOptions.commercialOnly => files[i].commercialUse = "allowed"})
    BY <2>1 DEF ChosenFiles, Select
  <2>3. PlainOptions.capability = "" /\ PlainOptions.commercialOnly = FALSE
    BY DEF PlainOptions
  <2> QED
    BY <2>2, <2>3
<1>4. {i \in DOMAIN files : TRUE} = DOMAIN files
  OBVIOUS
<1>5. ChosenFiles(db, PlainOptions) = files
  BY <1>2, <1>3, <1>4, PartOfAll
<1>6. ChosenRuntimes(db, PlainOptions) = Catalogued.runtimes
  BY DEF ChosenRuntimes, PlainOptions, Catalogued, LoadCompatCatalog
<1>7. LoadMeasurements(db, PlainOptions.includeCommunity) = Catalogued.measurements
  BY DEF PlainOptions, Catalogued, LoadCompatCatalog
<1>8. \A f : f \in Range(ChosenFiles(db, PlainOptions)) <=> f \in Range(rows) /\ Chosen(f, PlainOptions)
  <2>1. db.files = rows /\ db.files \in Seq(Files) /\ IsList(db.runtimes)
    BY RunPageAssumption DEF db, Typed, Stored, IsList
  <2> QED
    BY <2>1, ChosenHold
<1> HIDE DEF files
<1> QED
  BY <1>2, <1>5, <1>6, <1>7, <1>8 DEF files

(* The page of a model evaluates the variants of the model as /run does. *)
LEMMA ModelEvaluated ==
    ASSUME Typed, NEW s \in Systems, NEW model
    PROVE  /\ IsList(EvaluateModel(Catalogued, s, model, ReferenceContext))
           /\ \A r : r \in Range(EvaluateModel(Catalogued, s, model, ReferenceContext)) <=> r \in Range(On(s)) /\ r.model = model
<1> DEFINE files == Catalogued.files
           groups == GroupByVariant(files)
           I == {i \in DOMAIN groups : groups[i][1].model = model}
           those == Part(groups, I)
           n == Len(those)
           answer(g) == EvaluateVariant(Selection("reference", s).spec, g, Catalogued.runtimes, Catalogued.measurements, ReferenceContext)
           list == [i \in 1 .. n |-> answer(those[i])]
           e == EvaluateModel(Catalogued, s, model, ReferenceContext)
<1>1. IsList(files) /\ \A f : f \in Range(files) <=> f \in Range(rows) /\ Chosen(f, PlainOptions)
  BY PlainlyChosen
<1>2. \A v : Result(db, Selection("reference", s), PlainOptions, v) = answer(OfVariant(files, v))
  <2>1. PlainOptions.ctx = ReferenceContext
    BY DEF PlainOptions
  <2> QED
    BY <2>1, PlainlyChosen DEF Result
<1>3. \A g : answer(g).model = g[1].model
  BY DEF EvaluateVariant, VariantResult, ResultOf
<1>4. \A r : r \in Range(On(s)) <=> \E f \in Range(files) : r = answer(OfVariant(files, f.variant))
  <2>1. db.files = rows
    BY DEF db
  <2>2. \A r : r \in Range(On(s)) <=>
            \E f \in Range(rows) : Chosen(f, PlainOptions) /\ r = Result(db, Selection("reference", s), PlainOptions, f.variant)
    BY <2>1, PlainlyAnswerable, CompatibilityHolds DEF On
  <2> HIDE DEF answer, files
  <2> QED
    BY <1>1, <1>2, <2>2
<1>6. e = Evaluated([i \in DOMAIN those |-> answer(those[i])])
  BY DEF EvaluateModel, ModelGroups, Select, Each
<1> HIDE DEF answer, files, e
<1>5. IsList(groups) /\ \A g : g \in Range(groups) <=> \E f \in Range(files) : g = OfVariant(files, f.variant)
  BY <1>1, GroupsHold
<1> HIDE DEF groups
<1>7. IsPart(those, groups, I)
  BY <1>5, PartIsPart
<1> HIDE DEF those
<1>8. n \in Nat /\ DOMAIN those = 1 .. n
  BY <1>7 DEF IsPart, IsList
<1>9. \A g : g \in Range(those) <=> g \in Range(groups) /\ g[1].model = model
  BY <1>7 DEF IsPart, Range
<1>10. Evaluated(list) = list /\ IsList(list)
  BY <1>8, ListOf DEF IsList
<1>11. e = list
  BY <1>6, <1>8, <1>10
<1>12. \A r : r \in Range(list) <=> \E g \in Range(those) : r = answer(g)
  BY <1>8 DEF Range
<1> HIDE DEF list
<1>13. IsList(e) /\ \A r : r \in Range(e) <=> r \in Range(On(s)) /\ r.model = model
  BY <1>3, <1>4, <1>5, <1>9, <1>10, <1>11, <1>12
<1> QED
  BY <1>13 DEF e

\* The row of a model on a system is one of the results of /run.
LEMMA BestHolds ==
    ASSUME Typed, NEW s \in Systems, NEW model
    PROVE  /\ OnSystem(model, s) = << >> <=> Listed(On(s), model) = {}
           /\ OnSystem(model, s) # << >> => OnSystem(model, s)[1] \in Listed(On(s), model)
<1> DEFINE e == EvaluateModel(Catalogued, s, model, ReferenceContext)
           I == {i \in DOMAIN e : Runs(e[i])}
           running == Part(e, I)
           n == Len(running)
           list == [i \in 1 .. n |-> Recommended(running[i])]
           best == OnSystem(model, s)
           listed == Listed(On(s), model)
<1>1. IsList(e) /\ \A r : r \in Range(e) <=> r \in Range(On(s)) /\ r.model = model
  BY ModelEvaluated
<1>2. \A r \in Range(On(s)) : Reported(r)
  BY PlainlyAnswerable, CompatibilityHolds DEF On, AllReported
<1>3. best = PickRecommended(Evaluated([i \in DOMAIN running |-> Recommended(running[i])]))
  BY DEF OnSystem, CompatForModel, Catalogued, Select, Each
<1> HIDE DEF e, best
<1>4. IsPart(running, e, I)
  BY <1>1, PartIsPart
<1> HIDE DEF running
<1>5. n \in Nat /\ DOMAIN running = 1 .. n
  BY <1>4 DEF IsPart, IsList
<1>6. \A r : r \in Range(running) <=> r \in Range(On(s)) /\ r.model = model /\ Runs(r)
  <2>1. \A r : r \in Range(running) <=> \E i \in I : r = e[i]
    BY <1>4 DEF IsPart
  <2>2. \A r : r \in Range(running) <=> r \in Range(e) /\ Runs(r)
    BY <2>1 DEF Range
  <2> HIDE DEF I
  <2> QED
    BY <1>1, <2>2
<1>7. Evaluated(list) = list /\ IsList(list)
  BY <1>5, ListOf DEF IsList
<1>8. best = PickRecommended(list)
  BY <1>3, <1>5, <1>7
<1>9. \A x : x \in Range(list) <=> x \in listed
  <2>1. \A x : x \in Range(list) <=> \E r \in Range(running) : x = Recommended(r)
    BY <1>5 DEF Range
  <2> HIDE DEF list
  <2> QED
    BY <1>6, <2>1 DEF Listed, Shown
<1>10. \A x \in listed : Assessed(x) /\ x.fit # "none"
  BY <1>2 DEF Listed, Shown, Reported
<1> HIDE DEF list, listed
<1>11. IsList(best) /\ Range(best) = Viable(Range(list))
  BY <1>7, <1>8, <1>9, <1>10, PickRecommendedHolds
<1>12. Viable(Range(list)) \subseteq listed /\ (Viable(Range(list)) = {} <=> listed = {})
  BY <1>9, <1>10 DEF Viable
<1>13. best = << >> <=> Range(best) = {}
  BY <1>11 DEF IsList, Range
<1>14. best # << >> => best[1] \in Range(best)
  BY <1>11 DEF IsList, Range
<1> QED
  BY <1>11, <1>12, <1>13, <1>14 DEF best, listed

\* The placements a summary counts are those of the results.
LEMMA PlacementsHold ==
    ASSUME Typed, NEW s \in Systems, NEW model
    PROVE  PlacementsOf(EvaluateModel(Catalogued, s, model, ReferenceContext)) = {x.placement : x \in Listed(On(s), model)}
<1> DEFINE e == EvaluateModel(Catalogued, s, model, ReferenceContext)
<1>1. IsList(e) /\ \A r : r \in Range(e) <=> r \in Range(On(s)) /\ r.model = model
  BY ModelEvaluated
<1> HIDE DEF e
<1>2. PlacementsOf(e) = {Recommended(r).placement : r \in {r \in Range(e) : Runs(r)}}
  BY DEF PlacementsOf, Range
<1>3. PlacementsOf(e) = {x.placement : x \in Listed(On(s), model)}
  BY <1>1, <1>2 DEF Listed, Shown
<1> QED
  BY <1>3 DEF e

\* What the three pages say of one system and one model agrees.
LEMMA AgreeHolds ==
    ASSUME Typed, NEW system \in Systems, NEW model
    PROVE  Agree(system, Listed(On(system), model), Best(model), Summary(model))
<1> DEFINE listed(s) == Listed(On(s), model)
           placements(s) == {x.placement : x \in listed(s)}
           well == {s \in Systems : "accelerator" \in placements(s)}
           slow == {s \in Systems \ well : placements(s) # {}}
           best == Best(model)
           summary == Summary(model)
<1>1. \A s \in Systems : /\ best[s] = << >> <=> listed(s) = {}
                         /\ best[s] # << >> => best[s][1] \in listed(s)
  BY BestHolds DEF Best
<1>2. summary.runsWell = Cardinality(well) /\ summary.tooLarge = Cardinality(Systems \ (well \cup slow))
  <2> DEFINE at == [s \in Systems |-> PlacementsOf(EvaluateModel(Catalogued, s, model, ReferenceContext))]
             fine == {s \in Systems : "accelerator" \in at[s]}
             poor == {s \in Systems \ fine : at[s] # {}}
  <2>1. summary.runsWell = Cardinality(fine) /\ summary.tooLarge = Cardinality(Systems \ (fine \cup poor))
    <3>1. db.systems = Systems
      BY DEF db
    <3> QED
      BY <3>1 DEF Summary, CompatSummaryByModel, Catalogued
  <2>2. \A s \in Systems : at[s] = placements(s)
    BY PlacementsHold
  <2> HIDE DEF at, placements
  <2>3. fine = well /\ poor = slow
    BY <2>2
  <2> QED
    BY <2>1, <2>3
<1> HIDE DEF best, summary, listed
<1>3. Systems \ (well \cup slow) = {s \in Systems : best[s] = << >>}
  BY <1>1
<1> DEFINE onAccelerator == {s \in Systems : best[s] # << >> /\ best[s][1].placement = "accelerator"}
<1>4. onAccelerator \in SUBSET well /\ well \in SUBSET Systems
  BY <1>1
<1> HIDE DEF onAccelerator, well
<1>5. IsFiniteSet(Systems)
  BY RunPageAssumption
<1>6. IsFiniteSet(well) /\ IsFiniteSet(onAccelerator)
  BY <1>4, <1>5, FS_Subset
<1>7. Cardinality(onAccelerator) <= Cardinality(well) /\ Cardinality(well) \in Nat /\ Cardinality(onAccelerator) \in Nat
  BY <1>4, <1>6, FS_Subset, FS_CardinalityType
<1>8. summary.runsWell >= Cardinality(onAccelerator) /\ summary.tooLarge = Cardinality({s \in Systems : best[s] = << >>})
  BY <1>2, <1>3, <1>7
<1>9. Agree(system, listed(system), best, summary)
  BY <1>1, <1>8 DEF Agree, onAccelerator
<1> QED
  BY <1>9 DEF best, summary, listed

(* What /run, the page of a model and the summaries say of the reference systems is the same. *)
THEOREM PagesCorrect == Spec => []PagesAgree
<1>1. Typed => PagesAgree
  <2> SUFFICES ASSUME Typed, NEW system \in Systems, AskedPlainly(url), url.system = system.id,
                      NEW model \in {f.model : f \in Range(rows)}
               PROVE  Agree(system, Listed(Results(Request), model), Best(model), Summary(model))
    BY DEF PagesAgree, PagesAgreeOn
  <2> QED
    BY AskedSystem, AgreeHolds
<1> QED
  BY <1>1, TypeCorrect, PTL

----------------------------------------------------------------------------
(* The order in which the files are stored.                                *)

\* What a visitor is told of the best of the assessments.
Judged(b) == << InMemory(b), b.speed, Merit(b) >>

(* Assessments of the same merit are told alike. *)
LEMMA MeritTold ==
    ASSUME NEW S, \A x \in S : Assessed(x), NEW b \in Viable(S), NEW c \in Viable(S),
           ~Ahead(Merit(b), Merit(c)), ~Ahead(Merit(c), Merit(b))
    PROVE  Judged(b) = Judged(c)
<1>1. Assessed(b) /\ Assessed(c)
  BY DEF Viable
<1>2. InMemory(b) <=> InMemory(c)
  BY DEF Viable
<1>3. Merit(b) = Merit(c)
  <2>1. CASE InMemory(b)
    <3>1. Merit(b) \in [1 .. 4 -> Int] /\ Merit(c) \in [1 .. 4 -> Int] /\ 4 \in Nat
      BY <1>1, <1>2, <2>1, KeysTyped DEF Merit
    <3> QED
      BY <3>1, AheadOrders
  <2>2. CASE ~InMemory(b)
    <3>1. Merit(b) \in [1 .. 3 -> Int] /\ Merit(c) \in [1 .. 3 -> Int] /\ 3 \in Nat
      BY <1>1, <1>2, <2>2, KeysTyped DEF Merit
    <3> QED
      BY <3>1, AheadOrders
  <2> QED
    BY <2>1, <2>2
<1>4. BasisRank[b.speed.basis] = BasisRank[c.speed.basis] /\ b.speed.gen = c.speed.gen
  <2>1. CASE InMemory(b)
    BY <1>2, <1>3, <2>1 DEF Merit, InMemoryKey
  <2>2. CASE ~InMemory(b)
    BY <1>2, <1>3, <2>2 DEF Merit, OffloadKey
  <2> QED
    BY <2>1, <2>2
<1>5. b.speed.basis = c.speed.basis
  BY <1>1, <1>4 DEF Assessed, Bases, BasisRank
<1>6. b.speed = c.speed
  BY <1>1, <1>4, <1>5 DEF Assessed
<1>7. InMemory(b) = InMemory(c)
  BY <1>2 DEF InMemory
<1> HIDE DEF InMemory, Merit
<1> QED
  BY <1>3, <1>6, <1>7, Zenon DEF Judged

\* What a visitor is told of a variant depends on its recommended assessment only.
LEMMA ToldOfResult ==
    ASSUME NEW group, NEW candidates, IsList(candidates), \A x \in Range(candidates) : Assessed(x)
    PROVE  Told(VariantResult(group, candidates)) =
             [variant |-> group[1].variant, considered |-> Len(group), runs |-> PickRecommended(candidates) # << >>,
              best |-> IF PickRecommended(candidates) # << >> THEN Judged(PickRecommended(candidates)[1]) ELSE << >>]
<1> DEFINE ranked == PickRecommended(candidates)
           r == VariantResult(group, candidates)
<1>1. r.variant = group[1].variant /\ r.considered = Len(group)
      /\ r.recommended = SubSeq(ranked, 1, AtMost(1, Len(ranked)))
  BY DEF VariantResult, ResultOf
<1>2. IsList(ranked)
  BY PickRecommendedHolds
<1> HIDE DEF ranked, r
<1>3. r.recommended = IF ranked = << >> THEN << >> ELSE << ranked[1] >>
  BY <1>1, <1>2, FirstOf
<1>4. Runs(r) = (ranked # << >>)
  BY <1>3 DEF Runs
<1>5. Runs(r) => Recommended(r) = ranked[1]
  BY <1>3, <1>4 DEF Recommended
<1>6. Told(r) = [variant |-> r.variant, considered |-> r.considered, runs |-> Runs(r),
                 best |-> IF Runs(r) THEN Judged(Recommended(r)) ELSE << >>]
  BY DEF Told, Judged, Merit
<1>7. (IF Runs(r) THEN Judged(Recommended(r)) ELSE << >>) = IF ranked # << >> THEN Judged(ranked[1]) ELSE << >>
  BY <1>4, <1>5
<1>8. Told(r) = [variant |-> group[1].variant, considered |-> Len(group), runs |-> ranked # << >>,
                 best |-> IF ranked # << >> THEN Judged(ranked[1]) ELSE << >>]
  <2> HIDE DEF Runs
  <2> QED
    BY <1>1, <1>4, <1>6, <1>7, Zenon
<1> QED
  BY <1>8 DEF ranked, r

(* Two lists of the same files are told alike. *)
LEMMA ToldAlike ==
    ASSUME NEW spec, IsMachine(spec), NEW runtimes, IsList(runtimes), NEW ctx \in Nat,
           NEW measurements, Measurements(measurements),
           NEW g \in Seq(Files), Distinct(g), NEW h \in Seq(Files), Distinct(h), Range(g) = Range(h), g # << >>,
           \A x, y \in Range(g) : x.variant = y.variant
    PROVE  Told(EvaluateVariant(spec, g, runtimes, measurements, ctx)) =
             Told(EvaluateVariant(spec, h, runtimes, measurements, ctx))
<1> DEFINE c == Candidates(spec, g, runtimes, measurements, ctx)
           d == Candidates(spec, h, runtimes, measurements, ctx)
           P == PickRecommended(c)
           Q == PickRecommended(d)
           S == Range(c)
<1>1. IsList(g) /\ IsList(h) /\ (\A f \in Range(g) : f \in Files)
  BY DEF IsList, Range
<1>2. Len(g) = Len(h)
  BY <1>1, SameLength
<1>3. g[1].variant = h[1].variant
  <2>1. h # << >>
    BY <1>2
  <2>2. g[1] \in Range(g) /\ h[1] \in Range(h)
    BY <1>1, <2>1 DEF Range, IsList
  <2> QED
    BY <2>2
<1>4. \A f \in Range(g) : IsFile(f)
  BY <1>1, RunPageAssumption
<1>5. AreCandidates(c, spec, g, runtimes, measurements, ctx) /\ AreCandidates(d, spec, h, runtimes, measurements, ctx)
  BY <1>1, <1>4, CandidatesHold
<1>6. EvaluateVariant(spec, g, runtimes, measurements, ctx) = VariantResult(g, c)
      /\ EvaluateVariant(spec, h, runtimes, measurements, ctx) = VariantResult(h, d)
  BY DEF EvaluateVariant, Candidates, Assess
<1> HIDE DEF c, d
<1>7. IsList(c) /\ IsList(d) /\ (\A x \in S : Assessed(x)) /\ Range(d) = S
  BY <1>5 DEF AreCandidates
<1>8. /\ IsList(P) /\ Range(P) = Viable(S)
      /\ P # << >> => \A x \in Viable(S) : ~Ahead(Merit(x), Merit(P[1]))
  BY <1>7, PickRecommendedHolds
<1>9. /\ IsList(Q) /\ Range(Q) = Viable(S)
      /\ Q # << >> => \A x \in Viable(S) : ~Ahead(Merit(x), Merit(Q[1]))
  <2>1. /\ IsList(PickRecommended(d)) /\ Range(PickRecommended(d)) = Viable(Range(d))
        /\ PickRecommended(d) # << >> =>
              \A x \in Viable(Range(d)) : ~Ahead(Merit(x), Merit(PickRecommended(d)[1]))
    BY <1>7, PickRecommendedHolds
  <2> QED
    BY <1>7, <2>1
<1>10. Told(VariantResult(g, c)) =
         [variant |-> g[1].variant, considered |-> Len(g), runs |-> P # << >>,
          best |-> IF P # << >> THEN Judged(P[1]) ELSE << >>]
  BY <1>7, ToldOfResult
<1>11. Told(VariantResult(h, d)) =
         [variant |-> h[1].variant, considered |-> Len(h), runs |-> Q # << >>,
          best |-> IF Q # << >> THEN Judged(Q[1]) ELSE << >>]
  BY <1>7, ToldOfResult
<1> HIDE DEF P, Q, S
<1>12. P # << >> <=> Q # << >>
  <2>1. P # << >> <=> Viable(S) # {}
    BY <1>8, ListHead
  <2>2. Q # << >> <=> Viable(S) # {}
    BY <1>9, ListHead
  <2> QED
    BY <2>1, <2>2
<1>13. P # << >> => P[1] \in Viable(S) /\ Q[1] \in Viable(S)
  BY <1>8, <1>9, <1>12 DEF IsList, Range
<1>14. P # << >> => Judged(P[1]) = Judged(Q[1])
  BY <1>7, <1>8, <1>9, <1>12, <1>13, MeritTold
<1> QED
  BY <1>2, <1>3, <1>6, <1>10, <1>11, <1>12, <1>14

\* No file is in a group twice.
LEMMA GroupDistinct ==
    ASSUME NEW database, database.files \in Seq(Files), Distinct(database.files), NEW opts, NEW v
    PROVE  Distinct(OfVariant(ChosenFiles(database, opts), v))
<1> DEFINE s == database.files
           I == {i \in DOMAIN s : s[i].kind # "base"}
           t == Part(s, I)
           J == {i \in DOMAIN t : /\ opts.capability # "" => opts.capability \in t[i].capabilities
                                  /\ opts.commercialOnly => t[i].commercialUse = "allowed"}
           u == Part(t, J)
           K == {i \in DOMAIN u : u[i].variant = v}
<1>1. IsList(s) /\ Distinct(s)
  BY DEF IsList, Range
<1>5. OfVariant(ChosenFiles(database, opts), v) = Part(u, K)
  BY DEF OfVariant, ChosenFiles, LoadCompatCatalog, Select
<1> HIDE DEF s
<1>2. IsList(t) /\ Distinct(t)
  BY <1>1, PartIsPart, PartDistinct DEF IsPart
<1> HIDE DEF t
<1>3. IsList(u) /\ Distinct(u)
  BY <1>2, PartIsPart, PartDistinct DEF IsPart
<1> HIDE DEF u
<1>4. Distinct(Part(u, K))
  BY <1>3, PartDistinct
<1> QED
  BY <1>4, <1>5

\* Two databases that differ only in the order of the files.
SameButOrder(a, b) ==
    /\ Range(a.files) = Range(b.files) /\ Distinct(a.files) /\ Distinct(b.files)
    /\ a.runtimes = b.runtimes /\ a.runs = b.runs /\ a.submissions = b.submissions

\* The same files in another order: every answer is given again.
LEMMA OrderImmaterial ==
    ASSUME NEW a, NEW b, NEW hardware, NEW opts, Answerable(a, hardware, opts), Answerable(b, hardware, opts),
           SameButOrder(a, b), NEW r \in Range(RunCompatibility(a, hardware, opts))
    PROVE  \E q \in Range(RunCompatibility(b, hardware, opts)) : Told(q) = Told(r)
<1>1. PICK f \in Range(a.files) : Chosen(f, opts) /\ r = Result(a, hardware, opts, f.variant)
  BY CompatibilityHolds
<1> DEFINE v == f.variant
           g == OfVariant(ChosenFiles(a, opts), v)
           h == OfVariant(ChosenFiles(b, opts), v)
           q == Result(b, hardware, opts, v)
<1>2. q \in Range(RunCompatibility(b, hardware, opts))
  <2>1. f \in Range(b.files)
    BY DEF SameButOrder
  <2> QED
    BY <1>1, <2>1, CompatibilityHolds
<1>3. /\ IsList(ChosenFiles(a, opts)) /\ IsList(ChosenFiles(b, opts)) /\ IsList(ChosenRuntimes(a, opts))
      /\ \A x : x \in Range(ChosenFiles(a, opts)) <=> x \in Range(a.files) /\ Chosen(x, opts)
      /\ \A x : x \in Range(ChosenFiles(b, opts)) <=> x \in Range(a.files) /\ Chosen(x, opts)
  BY ChosenHold DEF Answerable, SameButOrder
<1>4. /\ IsList(g) /\ IsList(h)
      /\ \A x : x \in Range(g) <=> x \in Range(ChosenFiles(a, opts)) /\ x.variant = v
      /\ \A x : x \in Range(h) <=> x \in Range(ChosenFiles(b, opts)) /\ x.variant = v
  BY <1>3, OfVariantHolds
<1>5. Distinct(g) /\ Distinct(h)
  BY GroupDistinct DEF Answerable, SameButOrder
<1>6. r = EvaluateVariant(hardware.spec, g, ChosenRuntimes(a, opts), LoadMeasurements(a, opts.includeCommunity), opts.ctx)
      /\ q = EvaluateVariant(hardware.spec, h, ChosenRuntimes(b, opts), LoadMeasurements(b, opts.includeCommunity), opts.ctx)
  BY <1>1 DEF Result
<1> HIDE DEF q, g, h
<1>7. ChosenRuntimes(b, opts) = ChosenRuntimes(a, opts)
      /\ LoadMeasurements(b, opts.includeCommunity) = LoadMeasurements(a, opts.includeCommunity)
  BY DEF SameButOrder, ChosenRuntimes, LoadMeasurements
<1>8. Range(g) = Range(h) /\ f \in Range(g) /\ \A x, y \in Range(g) : x.variant = y.variant
  BY <1>1, <1>3, <1>4
<1>9. \A x \in Range(a.files) : x \in Files
  BY DEF Answerable, Range
<1>10. g \in Seq(Files) /\ h \in Seq(Files) /\ g # << >>
  <2>1. \A x \in Range(g) \cup Range(h) : x \in Files
    BY <1>3, <1>4, <1>9
  <2>2. g \in [1 .. Len(g) -> Files] /\ Len(g) \in Nat /\ h \in [1 .. Len(h) -> Files] /\ Len(h) \in Nat
    BY <1>4, <2>1 DEF IsList, Range
  <2>3. g \in Seq(Files) /\ h \in Seq(Files)
    BY <2>2
  <2>4. g # << >>
    BY <1>8 DEF Range
  <2> QED
    BY <2>3, <2>4
<1>11. Told(q) = Told(r)
  BY <1>3, <1>5, <1>6, <1>7, <1>8, <1>10, ToldAlike DEF Answerable
<1> QED
  BY <1>2, <1>11

\* A composed machine depends on the devices only.
LEMMA SameDevices ==
    ASSUME NEW a, NEW b, a.devices = b.devices, NEW input
    PROVE  BuildCustomHardware(a, input) = BuildCustomHardware(b, input)
<1> DEFINE Built(devices) ==
             LET named == Select(input.components, LAMBDA c : \E d \in devices : d.slug = c.slug)
                 components == Each(named, LAMBDA c :
                     [device |-> CHOOSE d \in devices : d.slug = c.slug, count |-> Clamped(c.count)])
                 has(P(_)) == \E i \in DOMAIN components : P(components[i].device)
                 unified == has(LAMBDA d : d.memory = "unified")
                 cpu == has(LAMBDA d : d.kind = "cpu")
             IN IF components = << >> THEN {}
                ELSE {[source |-> "custom",
                       spec |-> HardwareSpec("custom",
                                   IF cpu \/ unified THEN components ELSE Append(components, HostCpu),
                                   IF unified THEN 0 ELSE input.ram,
                                   IF unified THEN 0 ELSE DefaultRamBandwidth,
                                   IF unified THEN Default(input.unified, DefaultUnified) ELSE 0)]}
<1>1. \A x : BuildCustomHardware(x, input) = Built(x.devices)
  BY DEF BuildCustomHardware, Select, Each
<1> HIDE DEF Built
<1> QED
  BY <1>1

(* Rewriting a row changes nothing a visitor is told of speed, fit or precision. *)
THEOREM OrderCorrect == Spec => StorageOrderIsImmaterial
<1> DEFINE Changes == rows' # rows /\ Range(rows') = Range(rows)
           Same == {Told(r) : r \in Range(Results(Request))} = {Told(r) : r \in Range(Results(Request'))}
<1>1. ASSUME Typed, Typed', [Next]_vars, Changes PROVE Same
  <2>1. UNCHANGED << runs, standing, contributions, viewer, url >>
    BY <1>1 DEF Next, vars, PublishFile, RewriteRow, ImportRun, Verify, Hide, SignIn, ChooseSystem, ChooseSaved,
                CheckSetup, Update, Go
  <2>2. /\ db'.runtimes = db.runtimes /\ db'.runs = db.runs /\ db'.submissions = db.submissions
        /\ db'.systems = db.systems /\ db'.saved = db.saved /\ db'.devices = db.devices
        /\ db.files = rows /\ db'.files = rows'
    BY <2>1 DEF db
  <2>3. SameButOrder(db, db') /\ SameButOrder(db', db)
    BY <1>1, <2>2 DEF SameButOrder, Typed, Stored
  <2>4. /\ Request.db = db /\ Request'.db = db' /\ Request'.viewer = Request.viewer /\ Request'.url = Request.url
        /\ Request'.contributions = Request.contributions
    BY <2>1 DEF Request
  <2>5. Hardware(Request') = Hardware(Request) /\ Options(Request') = Options(Request)
    <3>1. Options(Request') = Options(Request)
      BY <2>4 DEF Options, IncludeCommunityMeasurements, CommunityContentIsSample
    <3>2. \A input : BuildCustomHardware(db', input) = BuildCustomHardware(db, input)
      BY <2>2, SameDevices
    <3>3. \A id : LoadReferenceHardware(db', id) = LoadReferenceHardware(db, id)
      BY <2>2 DEF LoadReferenceHardware
    <3>4. \A who, id : LoadUserHardware(db', who, id) = LoadUserHardware(db, who, id)
      BY <2>2 DEF LoadUserHardware
    <3> QED
      BY <2>4, <3>1, <3>2, <3>3, <3>4 DEF Hardware
  <2>6. CASE Hardware(Request) = {}
    BY <2>5, <2>6 DEF Results
  <2>7. CASE Hardware(Request) # {}
    <3> DEFINE h == CHOOSE h \in Hardware(Request) : TRUE
               o == Options(Request)
    <3>1. Results(Request) = RunCompatibility(db, h, o) /\ Results(Request') = RunCompatibility(db', h, o)
      BY <2>4, <2>5, <2>7 DEF Results
    <3>2. h \in Hardware(Request)
      BY <2>7
    <3>3. Answerable(db, h, o)
      BY <1>1, <3>2, RequestAnswerable
    <3>4. Answerable(db', h, o)
      <4>1. db'.files \in Seq(Files)
        BY <1>1, <2>2 DEF Typed, Stored
      <4>2. LoadMeasurements(db', o.includeCommunity) = LoadMeasurements(db, o.includeCommunity)
        BY <2>2 DEF LoadMeasurements
      <4> QED
        BY <2>2, <3>3, <4>1, <4>2 DEF Answerable
    <3> HIDE DEF h, o
    <3>5. \A r \in Range(RunCompatibility(db, h, o)) : \E q \in Range(RunCompatibility(db', h, o)) : Told(q) = Told(r)
      BY <2>3, <3>3, <3>4, OrderImmaterial
    <3>6. \A r \in Range(RunCompatibility(db', h, o)) : \E q \in Range(RunCompatibility(db, h, o)) : Told(q) = Told(r)
      BY <2>3, <3>3, <3>4, OrderImmaterial
    <3> QED
      BY <3>1, <3>5, <3>6
  <2> QED
    BY <2>6, <2>7
<1> QED
  BY <1>1, TypeCorrect, PTL DEF Spec, StorageOrderIsImmaterial

----------------------------------------------------------------------------
(* More memory never hurts.                                               *)

\* The memory of pools of one device after those of another adds up.
LEMMA PoolsGbConcat ==
    ASSUME NEW a \in Seq(Pools), NEW b \in Seq(Pools)
    PROVE  PoolsGb(a \o b) = PoolsGb(a) + PoolsGb(b)
<1> DEFINE sizes(s) == [i \in 1 .. Len(s) |-> s[i].gb]
           c == a \o b
<1>1. Len(a) \in Nat /\ Len(b) \in Nat /\ c \in Seq(Pools) /\ Len(c) = Len(a) + Len(b)
  OBVIOUS
<1>2. ASSUME NEW s \in Seq(Pools) PROVE PoolsGb(s) = Total(sizes(s)) /\ sizes(s) \in [1 .. Len(s) -> Nat] /\ sizes(s) \in Seq(Nat)
  <2>1. DOMAIN s = 1 .. Len(s) /\ Len(s) \in Nat
    OBVIOUS
  <2>2. \A i \in 1 .. Len(s) : s[i] \in Pools
    OBVIOUS
  <2>3. sizes(s) \in [1 .. Len(s) -> Nat]
    BY <2>2 DEF Pools
  <2>4. Evaluated(sizes(s)) = sizes(s)
    BY <2>1, ListOf
  <2>5. sizes(s) = [i \in DOMAIN s |-> s[i].gb]
    BY <2>1
  <2>6. PoolsGb(s) = Total(Evaluated([i \in DOMAIN s |-> s[i].gb]))
    BY DEF PoolsGb, SumOver, Each
  <2>7. PoolsGb(s) = Total(sizes(s))
    BY <2>4, <2>5, <2>6
  <2> HIDE DEF sizes
  <2>8. sizes(s) \in Seq(Nat)
    BY <2>1, <2>3
  <2> QED
    BY <2>3, <2>7, <2>8
<1>3. sizes(c) = sizes(a) \o sizes(b)
  <2> DEFINE x == sizes(a)  y == sizes(b)
  <2>1. x \in Seq(Nat) /\ y \in Seq(Nat) /\ Len(x) = Len(a) /\ Len(y) = Len(b)
    <3>1. x \in [1 .. Len(a) -> Nat] /\ y \in [1 .. Len(b) -> Nat]
      BY <1>2
    <3>2. \A n \in Nat : \A f \in [1 .. n -> Nat] : f \in Seq(Nat) /\ Len(f) = n
      OBVIOUS
    <3> HIDE DEF x, y
    <3> QED
      BY <1>1, <3>1, <3>2
  <2>2. Len(x \o y) = Len(a) + Len(b) /\ x \o y \in Seq(Nat)
    BY <2>1
  <2>3. ASSUME NEW i \in 1 .. Len(a) + Len(b) PROVE (x \o y)[i] = c[i].gb
    <3>1. CASE i <= Len(a)
      <4>1. i \in 1 .. Len(a) /\ c[i] = a[i]
        BY <1>1, <3>1
      <4>2. (x \o y)[i] = x[i] /\ x[i] = a[i].gb
        BY <2>1, <4>1
      <4> QED
        BY <4>1, <4>2
    <3>2. CASE i > Len(a)
      <4>1. i - Len(a) \in 1 .. Len(b) /\ c[i] = b[i - Len(a)]
        BY <1>1, <3>2
      <4>2. (x \o y)[i] = y[i - Len(a)] /\ y[i - Len(a)] = b[i - Len(a)].gb
        <5>1. ~(i <= Len(x)) /\ i \in 1 .. Len(x) + Len(y)
          BY <1>1, <2>1, <3>2
        <5>2. (x \o y)[i] = y[i - Len(x)]
          <6> HIDE DEF x, y
          <6> QED
            BY <2>1, <5>1
        <5> QED
          BY <2>1, <4>1, <5>2
      <4> QED
        BY <4>1, <4>2
    <3> QED
      BY <1>1, <3>1, <3>2
  <2> DEFINE z == x \o y
  <2> HIDE DEF x, y, c
  <2>4. z = [i \in 1 .. Len(a) + Len(b) |-> z[i]]
    <3>1. z \in Seq(Nat) /\ Len(z) = Len(a) + Len(b)
      BY <2>2
    <3> HIDE DEF z
    <3> QED
      BY <3>1
  <2> HIDE DEF z
  <2>5. z = [i \in 1 .. Len(a) + Len(b) |-> c[i].gb]
    BY <2>3, <2>4 DEF z
  <2> QED
    BY <1>1, <2>5 DEF x, y, z
<1> HIDE DEF sizes
<1>4. Total(sizes(a) \o sizes(b)) = Total(sizes(a)) + Total(sizes(b))
  <2>1. sizes(a) \in [1 .. Len(a) -> Int] /\ sizes(b) \in [1 .. Len(b) -> Int]
    BY <1>2
  <2> QED
    BY <1>1, <2>1, TotalConcat
<1>5. PoolsGb(c) = Total(sizes(c))
  BY <1>1, <1>2
<1> QED
  BY <1>2, <1>3, <1>4, <1>5

\* One pool is as large as it says.
LEMMA PoolsGbOfOne ==
    ASSUME NEW p \in Pools
    PROVE  PoolsGb(<< p >>) = p.gb
<1> DEFINE s == << p >>
           f == [i \in 1 .. 1 |-> s[i].gb]
<1>1. s \in Seq(Pools) /\ Len(s) = 1 /\ DOMAIN s = 1 .. 1 /\ s[1] = p
  OBVIOUS
<1> HIDE DEF s
<1>2. PoolsGb(s) = Total(Evaluated([i \in DOMAIN s |-> s[i].gb]))
  BY DEF PoolsGb, SumOver, Each
<1>3. Evaluated(f) = f
  BY ListOf
<1>4. PoolsGb(s) = Total(f)
  BY <1>1, <1>2, <1>3
<1>5. f \in [1 .. 1 -> Int] /\ f[1] = p.gb
  BY <1>1 DEF Pools
<1> QED
  BY <1>4, <1>5, TotalOfOne DEF s

\* As many pools and more, each as large, have as much memory.
LEMMA PoolsGbGrows ==
    ASSUME NEW a \in Seq(Pools), NEW b \in Seq(Pools), Len(a) <= Len(b), \A i \in 1 .. Len(a) : a[i].gb <= b[i].gb
    PROVE  PoolsGb(a) <= PoolsGb(b)
<1> DEFINE sizes(s) == [i \in 1 .. Len(s) |-> s[i].gb]
<1>1. ASSUME NEW s \in Seq(Pools) PROVE PoolsGb(s) = Total(sizes(s)) /\ sizes(s) \in [1 .. Len(s) -> Nat] /\ Len(s) \in Nat
  <2>1. DOMAIN s = 1 .. Len(s) /\ Len(s) \in Nat
    OBVIOUS
  <2>2. \A i \in 1 .. Len(s) : s[i] \in Pools
    OBVIOUS
  <2>3. sizes(s) \in [1 .. Len(s) -> Nat]
    BY <2>2 DEF Pools
  <2>4. Evaluated(sizes(s)) = sizes(s)
    BY <2>1, ListOf
  <2>5. sizes(s) = [i \in DOMAIN s |-> s[i].gb]
    BY <2>1
  <2>6. PoolsGb(s) = Total(Evaluated([i \in DOMAIN s |-> s[i].gb]))
    BY DEF PoolsGb, SumOver, Each
  <2> QED
    BY <2>1, <2>3, <2>4, <2>5, <2>6
<1>2. \A i \in 1 .. Len(a) : sizes(a)[i] <= sizes(b)[i]
  <2>1. \A i \in 1 .. Len(a) : i \in 1 .. Len(b)
    OBVIOUS
  <2> QED
    BY <2>1
<1> HIDE DEF sizes
<1>3. Total(sizes(a)) <= Total(sizes(b))
  BY <1>1, <1>2, TotalGrows
<1> QED
  BY <1>1, <1>3

----------------------------------------------------------------------------
(* A machine that has the devices of another, and as much of everything.   *)

\* The pools of h hold what those of g do.
PoolsCover(h, g) ==
    /\ h \in Seq(Pools) /\ g \in Seq(Pools)
    /\ PoolsGb(g) <= PoolsGb(h)
    /\ \A p \in Range(g) : \E q \in Range(h) : p.gb <= q.gb

MachineAtLeast(h, g) ==
    /\ IsMachine(h) /\ IsMachine(g) /\ DOMAIN h.components = DOMAIN g.components
    /\ \A i \in DOMAIN g.components :
          /\ h.components[i].device = g.components[i].device
          /\ 1 <= g.components[i].count /\ g.components[i].count <= h.components[i].count
    /\ g.ram <= h.ram /\ g.unified <= h.unified
    /\ g.unified = 0 /\ h.unified # 0 => g.ram = 0

\* More cards, or more of the memory they share, are more pools or larger ones.
LEMMA DevicePoolsGrow ==
    ASSUME NEW h, NEW g, h.unified \in Nat, g.unified \in Nat, g.unified <= h.unified,
           NEW c, NEW d, IsDevice(c.device), d.device = c.device,
           c.count \in Nat, d.count \in Nat, 1 <= c.count, c.count <= d.count, NEW rt
    PROVE  /\ PoolsCover(DevicePools(h, d, rt), DevicePools(g, c, rt))
           /\ Range(DevicePools(h, d, rt)) # {} /\ Range(DevicePools(g, c, rt)) = {} => g.unified = 0 /\ h.unified # 0
<1> DEFINE e == c.device
           a == DevicePools(g, c, rt)
           b == DevicePools(h, d, rt)
<1>0. e.gb \in Nat /\ e.bandwidth \in Nat /\ e.usable \in Nat
  BY DEF IsDevice
<1>1. a \in Seq(Pools) /\ b \in Seq(Pools)
  BY DevicePoolsTyped
<1>2. CASE a = << >>
  <2>1. PoolsGb(a) <= PoolsGb(b)
    <3>1. Len(a) = 0 /\ Len(b) \in Nat
      BY <1>1, <1>2
    <3> HIDE DEF a, b
    <3>2. Len(a) <= Len(b) /\ \A i \in 1 .. Len(a) : a[i].gb <= b[i].gb
      BY <3>1
    <3> QED
      BY <1>1, <3>2, PoolsGbGrows
  <2>2. Range(a) = {}
    BY <1>2 DEF Range
  <2>3. ASSUME Range(b) # {} PROVE g.unified = 0 /\ h.unified # 0
    <3>1. b # << >>
      BY <2>3 DEF Range
    <3>2. ~(SharedBackends(e, rt) = {}) /\ ~(e.memory = "dedicated" /\ e.gb # 0)
      <4>1. ASSUME SharedBackends(e, rt) = {} PROVE FALSE
        BY <3>1, <4>1 DEF DevicePools
      <4>2. ASSUME SharedBackends(e, rt) # {}, e.memory = "dedicated" /\ e.gb # 0 PROVE FALSE
        <5>1. a = [i \in 1 .. c.count |-> [gb |-> e.gb * DedicatedUsable, bandwidth |-> e.bandwidth]]
          BY <4>2 DEF DevicePools
        <5>2. DOMAIN a = 1 .. c.count /\ 1 \in 1 .. c.count
          BY <5>1
        <5> HIDE DEF a
        <5> QED
          BY <1>2, <5>2
      <4> QED
        BY <4>1, <4>2
    <3>3. e.memory = "unified" /\ h.unified # 0
      BY <3>1, <3>2 DEF DevicePools
    <3>4. g.unified = 0
      BY <1>2, <3>2, <3>3 DEF DevicePools
    <3> QED
      BY <3>3, <3>4
  <2> HIDE DEF a, b
  <2>4. PoolsCover(b, a)
    BY <1>1, <2>1, <2>2 DEF PoolsCover
  <2> QED
    BY <2>3, <2>4 DEF a, b
<1>3. CASE a # << >>
  <2>1. SharedBackends(e, rt) # {}
    BY <1>3 DEF DevicePools
  <2>2. Len(a) <= Len(b) /\ Len(a) \in Nat /\ Len(b) \in Nat /\ \A i \in 1 .. Len(a) : a[i].gb <= b[i].gb
    <3>1. CASE e.memory = "dedicated" /\ e.gb # 0
      <4> DEFINE p == [gb |-> e.gb * DedicatedUsable, bandwidth |-> e.bandwidth]
      <4>1. a = [i \in 1 .. c.count |-> p] /\ b = [i \in 1 .. d.count |-> p]
        BY <2>1, <3>1 DEF DevicePools
      <4>2. p.gb \in Int
        BY <1>0 DEF DedicatedUsable
      <4> HIDE DEF p, a, b
      <4>3. Len(a) = c.count /\ Len(b) = d.count
        BY <4>1
      <4>4. \A i \in 1 .. c.count : a[i] = p /\ b[i] = p
        BY <4>1
      <4> QED
        BY <4>2, <4>3, <4>4
    <3>2. CASE ~(e.memory = "dedicated" /\ e.gb # 0)
      <4> DEFINE usable == IF e.usable # 0 THEN e.usable ELSE DefaultUnifiedUsable
                 p == [gb |-> g.unified * usable, bandwidth |-> e.bandwidth]
                 q == [gb |-> h.unified * usable, bandwidth |-> e.bandwidth]
      <4>1. e.memory = "unified" /\ g.unified # 0
        BY <1>3, <2>1, <3>2 DEF DevicePools
      <4>2. a = << p >> /\ b = << q >>
        BY <2>1, <3>2, <4>1 DEF DevicePools
      <4>3. p.gb <= q.gb
        <5>1. usable \in Nat
          BY <1>0 DEF DefaultUnifiedUsable
        <5>2. \A x, y, z \in Nat : x <= y => x * z <= y * z
          OBVIOUS
        <5> HIDE DEF usable
        <5> QED
          BY <5>1, <5>2
      <4> HIDE DEF p, q, a, b
      <4> QED
        BY <4>2, <4>3
    <3> QED
      BY <3>1, <3>2
  <2> HIDE DEF a, b
  <2>3. PoolsGb(a) <= PoolsGb(b)
    BY <1>1, <2>2, PoolsGbGrows
  <2>4. ASSUME NEW p \in Range(a) PROVE \E q \in Range(b) : p.gb <= q.gb
    <3>1. PICK i \in 1 .. Len(a) : p = a[i]
      BY <1>1 DEF Range
    <3>2. i \in DOMAIN b
      BY <1>1, <2>2
    <3> QED
      BY <2>2, <3>1, <3>2 DEF Range
  <2>5. Range(a) # {}
    <3>1. 1 \in DOMAIN a
      BY <1>1, <1>3
    <3> QED
      BY <3>1 DEF Range
  <2>6. PoolsCover(b, a)
    BY <1>1, <2>3, <2>4 DEF PoolsCover
  <2> QED
    BY <2>5, <2>6 DEF a, b
<1> QED
  BY <1>2, <1>3

AllPools(hw, rt) == FlattenSeq(Each(hw.components, LAMBDA c : DevicePools(hw, c, rt)))

ByDevice(hw, rt) == [i \in 1 .. Len(hw.components) |-> DevicePools(hw, hw.components[i], rt)]

\* The pools of a machine are those of its devices, one after the other.
LEMMA AllPoolsHold ==
    ASSUME NEW hw, IsMachine(hw), NEW rt
    PROVE  /\ AllPools(hw, rt) \in Seq(Pools)
           /\ \A p : p \in Range(AllPools(hw, rt)) <=>
                 \E i \in DOMAIN hw.components : p \in Range(DevicePools(hw, hw.components[i], rt))
           /\ Len(hw.components) = 0 => AllPools(hw, rt) = << >>
           /\ Len(hw.components) # 0 =>
                 \E f : IsJoin(f, Pools, ByDevice(hw, rt), Len(hw.components)) /\ AllPools(hw, rt) = f[Len(hw.components)]
<1> DEFINE parts == ByDevice(hw, rt)
           all == AllPools(hw, rt)
           n == Len(hw.components)
<1>1. n \in Nat /\ DOMAIN hw.components = 1 .. n
  BY DEF IsMachine
<1>2. parts \in [1 .. n -> Seq(Pools)]
  BY <1>1, DevicePoolsTyped DEF IsMachine, ByDevice
<1>3. all = FlattenSeq(parts)
  <2>1. Evaluated(parts) = parts
    BY <1>1, ListOf DEF ByDevice
  <2>2. all = FlattenSeq(Evaluated([i \in DOMAIN hw.components |-> DevicePools(hw, hw.components[i], rt)]))
    BY DEF AllPools, Each
  <2>3. parts = [i \in DOMAIN hw.components |-> DevicePools(hw, hw.components[i], rt)]
    BY <1>1 DEF ByDevice
  <2> QED
    BY <2>1, <2>2, <2>3
<1>4. ASSUME NEW i \in 1 .. n PROVE parts[i] = DevicePools(hw, hw.components[i], rt)
  BY DEF ByDevice
<1> HIDE DEF parts, all
<1>5. CASE n = 0
  <2>1. parts = << >>
    BY <1>2, <1>5
  <2>2. all = << >>
    BY <1>3, <2>1 DEF FlattenSeq
  <2>3. all \in Seq(Pools) /\ Range(all) = {} /\ DOMAIN hw.components = {}
    BY <1>1, <1>5, <2>2 DEF Range
  <2> QED
    BY <1>5, <2>2, <2>3 DEF all
<1>6. CASE n # 0
  <2>1. PICK f : IsJoin(f, Pools, parts, n) /\ all = f[n]
    BY <1>1, <1>2, <1>3, <1>6, FlattenHolds
  <2>2. all \in Seq(Pools)
    BY <1>1, <1>6, <2>1 DEF IsJoin
  <2>3. ASSUME NEW p PROVE p \in Range(all) <=> \E i \in 1 .. n : p \in Range(parts[i])
    BY <1>1, <1>2, <1>6, <2>1, JoinElements
  <2>4. \A p : p \in Range(all) <=> \E i \in DOMAIN hw.components : p \in Range(DevicePools(hw, hw.components[i], rt))
    BY <1>1, <1>4, <2>3
  <2> QED
    BY <1>6, <2>1, <2>2, <2>4 DEF all, parts
<1> QED
  BY <1>5, <1>6

\* More of everything is as many pools, each as large.
LEMMA AllPoolsGrow ==
    ASSUME NEW h, NEW g, MachineAtLeast(h, g), NEW rt
    PROVE  /\ PoolsCover(AllPools(h, rt), AllPools(g, rt))
           /\ Range(AllPools(h, rt)) # {} /\ Range(AllPools(g, rt)) = {} => g.ram = 0
<1> DEFINE n == Len(g.components)
           a == AllPools(g, rt)
           b == AllPools(h, rt)
           x(i) == DevicePools(g, g.components[i], rt)
           y(i) == DevicePools(h, h.components[i], rt)
<1>1. /\ n \in Nat /\ DOMAIN g.components = 1 .. n /\ DOMAIN h.components = 1 .. n /\ Len(h.components) = n
      /\ h.unified \in Nat /\ g.unified \in Nat /\ g.unified <= h.unified
      /\ \A i \in 1 .. n : IsDevice(g.components[i].device) /\ g.components[i].count \in Nat /\ h.components[i].count \in Nat
  BY DEF MachineAtLeast, IsMachine
<1>2. ASSUME NEW i \in 1 .. n
      PROVE  PoolsCover(y(i), x(i)) /\ (Range(y(i)) # {} /\ Range(x(i)) = {} => g.unified = 0 /\ h.unified # 0)
  <2>1. h.components[i].device = g.components[i].device /\ 1 <= g.components[i].count
        /\ g.components[i].count <= h.components[i].count
    BY <1>1 DEF MachineAtLeast
  <2> QED
    BY <1>1, <2>1, DevicePoolsGrow
<1> HIDE DEF x, y
<1>3. /\ a \in Seq(Pools) /\ b \in Seq(Pools)
      /\ \A p : p \in Range(a) <=> \E i \in 1 .. n : p \in Range(x(i))
      /\ \A p : p \in Range(b) <=> \E i \in 1 .. n : p \in Range(y(i))
  <2>1. a \in Seq(Pools) /\ \A p : p \in Range(a) <=> \E i \in 1 .. n : p \in Range(x(i))
    BY <1>1, AllPoolsHold DEF MachineAtLeast, x
  <2>2. b \in Seq(Pools) /\ \A p : p \in Range(b) <=> \E i \in 1 .. n : p \in Range(y(i))
    BY <1>1, AllPoolsHold DEF MachineAtLeast, y
  <2> QED
    BY <2>1, <2>2
<1>4. PoolsGb(a) <= PoolsGb(b)
  <2>1. CASE n = 0
    <3>1. a = << >> /\ b = << >>
      BY <1>1, <2>1, AllPoolsHold DEF MachineAtLeast
    <3>2. PoolsGb(a) \in Nat
      BY <1>3, PoolsGbTyped
    <3> HIDE DEF a, b
    <3> QED
      BY <3>1, <3>2
  <2>2. CASE n # 0
    <3> DEFINE s == ByDevice(g, rt)  t == ByDevice(h, rt)
    <3>1. PICK f : IsJoin(f, Pools, s, n) /\ a = f[n]
      BY <2>2, AllPoolsHold DEF MachineAtLeast
    <3>2. PICK e : IsJoin(e, Pools, t, n) /\ b = e[n]
      BY <1>1, <2>2, AllPoolsHold DEF MachineAtLeast
    <3>3. \A i \in 1 .. n : s[i] = x(i) /\ t[i] = y(i)
      BY <1>1 DEF ByDevice, x, y
    <3>4. \A i \in 1 .. n : s[i] \in Seq(Pools) /\ t[i] \in Seq(Pools) /\ PoolsGb(s[i]) <= PoolsGb(t[i])
      BY <1>2, <3>3 DEF PoolsCover
    <3> HIDE DEF s, t, a, b
    <3> DEFINE Bad == {k \in 1 .. n : ~(PoolsGb(f[k]) <= PoolsGb(e[k]))}
    <3>5. Bad = {}
      <4>1. SUFFICES ASSUME Bad # {} PROVE FALSE
        OBVIOUS
      <4>2. Bad \subseteq Nat
        OBVIOUS
      <4>3. PICK k \in Bad : \A j \in Bad : k <= j
        BY <4>1, <4>2, LeastNat
      <4>4. k \in 1 .. n /\ ~(PoolsGb(f[k]) <= PoolsGb(e[k]))
        BY <4>3
      <4>5. k # 1
        <5>1. f[1] = s[1] /\ e[1] = t[1]
          BY <3>1, <3>2 DEF IsJoin
        <5> QED
          BY <3>4, <4>4, <5>1
      <4>6. k \in 2 .. n /\ k - 1 \in 1 .. n /\ ~(k <= k - 1)
        BY <1>1, <4>4, <4>5
      <4>7. PoolsGb(f[k - 1]) <= PoolsGb(e[k - 1])
        BY <4>3, <4>6
      <4>8. /\ f[k] = f[k - 1] \o s[k] /\ e[k] = e[k - 1] \o t[k]
            /\ f[k - 1] \in Seq(Pools) /\ e[k - 1] \in Seq(Pools)
        BY <3>1, <3>2, <4>6 DEF IsJoin
      <4>9. PoolsGb(f[k]) = PoolsGb(f[k - 1]) + PoolsGb(s[k]) /\ PoolsGb(e[k]) = PoolsGb(e[k - 1]) + PoolsGb(t[k])
        BY <3>4, <4>4, <4>8, PoolsGbConcat
      <4>10. PoolsGb(f[k - 1]) \in Int /\ PoolsGb(s[k]) \in Int /\ PoolsGb(e[k - 1]) \in Int /\ PoolsGb(t[k]) \in Int
        BY <3>4, <4>4, <4>8, PoolsGbTyped
      <4>11. PoolsGb(s[k]) <= PoolsGb(t[k])
        BY <3>4, <4>4
      <4> QED
        BY <4>4, <4>7, <4>9, <4>10, <4>11
    <3>6. n \in 1 .. n
      BY <1>1, <2>2
    <3> QED
      BY <3>1, <3>2, <3>5, <3>6
  <2> QED
    BY <2>1, <2>2
<1> HIDE DEF a, b
<1>5. ASSUME NEW p \in Range(a) PROVE \E q \in Range(b) : p.gb <= q.gb
  <2>1. PICK i \in 1 .. n : p \in Range(x(i))
    BY <1>3
  <2>2. PICK q \in Range(y(i)) : p.gb <= q.gb
    BY <1>2, <2>1 DEF PoolsCover
  <2> QED
    BY <1>3, <2>2
<1>6. ASSUME Range(b) # {}, Range(a) = {} PROVE g.ram = 0
  <2>1. PICK i \in 1 .. n : Range(y(i)) # {}
    BY <1>3, <1>6
  <2>2. Range(x(i)) = {}
    BY <1>3, <1>6
  <2>3. g.unified = 0 /\ h.unified # 0
    BY <1>2, <2>1, <2>2
  <2> QED
    BY <2>3 DEF MachineAtLeast
<1>7. PoolsCover(b, a)
  BY <1>3, <1>4, <1>5 DEF PoolsCover
<1> QED
  BY <1>6, <1>7 DEF a, b

\* A runtime uses all the pools or, when it cannot, the largest.
LEMMA AcceleratorHolds ==
    ASSUME NEW hw, IsMachine(hw), NEW rt
    PROVE  /\ AcceleratorPools(hw, rt) \in Seq(Pools)
           /\ AcceleratorPools(hw, rt) = << >> <=> Range(AllPools(hw, rt)) = {}
           /\ rt.multiGpu => AcceleratorPools(hw, rt) = AllPools(hw, rt)
           /\ ~rt.multiGpu /\ AcceleratorPools(hw, rt) # << >> =>
                 \E p \in Range(AllPools(hw, rt)) :
                    PoolsGb(AcceleratorPools(hw, rt)) = p.gb /\ \A q \in Range(AllPools(hw, rt)) : q.gb <= p.gb
<1> DEFINE all == AllPools(hw, rt)
           n == Len(all)
           keys == [i \in 1 .. n |-> << all[i].gb >>]
           t == Sorted(all, keys)
           pools == AcceleratorPools(hw, rt)
<1>1. all \in Seq(Pools)
  BY AllPoolsHold
<1>2. pools = IF rt.multiGpu \/ Len(all) <= 1 THEN all ELSE << Head(SortedBy(all, LAMBDA p : << p.gb >>)) >>
  BY DEF AcceleratorPools, AllPools
<1>3. pools \in Seq(Pools)
  BY PoolsTyped
<1> HIDE DEF all, pools
<1>4. n \in Nat /\ DOMAIN all = 1 .. n /\ \A i \in 1 .. n : all[i] \in Pools /\ all[i].gb \in Nat
  <2>1. n \in Nat /\ DOMAIN all = 1 .. n /\ \A i \in 1 .. n : all[i] \in Pools
    BY <1>1
  <2> QED
    BY <2>1 DEF Pools
<1>5. SortedBy(all, LAMBDA p : << p.gb >>) = t
  <2>1. Evaluated(keys) = keys
    BY <1>4, ListOf
  <2>2. SortedBy(all, LAMBDA p : << p.gb >>) = Sorted(all, Evaluated([i \in DOMAIN all |-> << all[i].gb >>]))
    BY DEF SortedBy, Each
  <2> QED
    BY <1>4, <2>1, <2>2
<1>6. keys \in [1 .. n -> [1 .. 1 -> Int]] /\ 1 \in Nat
  <2>1. \A i \in 1 .. n : << all[i].gb >> \in [1 .. 1 -> Int]
    BY <1>4, TupleOfInts
  <2> QED
    BY <2>1
<1>7. all = << >> <=> Range(all) = {}
  <2>1. ASSUME all # << >> PROVE 1 \in DOMAIN all
    BY <1>1, <2>1
  <2>2. ASSUME all = << >> PROVE Range(all) = {}
    BY <2>2 DEF Range
  <2> QED
    BY <2>1, <2>2 DEF Range
<1>8. CASE rt.multiGpu
  BY <1>2, <1>3, <1>8, <1>7 DEF all, pools
<1>9. CASE ~rt.multiGpu /\ n <= 1
  <2>1. pools = all
    BY <1>2, <1>9
  <2>2. pools = << >> <=> Range(all) = {}
    BY <1>7, <2>1
  <2>3. ASSUME pools # << >> PROVE \E p \in Range(all) : PoolsGb(pools) = p.gb /\ \A q \in Range(all) : q.gb <= p.gb
    <3>1. n = 1
      BY <1>1, <1>4, <1>9, <2>1, <2>3
    <3>2. all = << all[1] >> /\ all[1] \in Pools /\ Range(all) = {all[1]}
      BY <1>1, <1>4, <3>1 DEF Range
    <3>3. PoolsGb(all) = all[1].gb
      BY <3>2, PoolsGbOfOne
    <3>4. all[1].gb <= all[1].gb
      BY <1>4, <3>1
    <3> QED
      BY <2>1, <3>2, <3>3, <3>4
  <2> QED
    BY <1>3, <1>9, <2>2, <2>3 DEF all, pools
<1>10. CASE ~rt.multiGpu /\ ~(n <= 1)
  <2>1. n # 0
    BY <1>4, <1>10
  <2> HIDE DEF keys
  <2>2. IsListing(t, n, Range(all)) /\ IsFirst(t[1], all, n, keys)
    <3>1. IsListing(t, n, Range(all))
      BY <1>4, <1>6, SortedHolds
    <3>2. IsFirst(t[1], all, n, keys)
      BY <1>4, <1>6, <2>1, SortedHead
    <3> QED
      BY <3>1, <3>2
  <2> HIDE DEF t, n
  <2>3. Head(t) = t[1]
    BY <1>4, <2>1, <2>2 DEF IsListing
  <2>4. pools = << t[1] >>
    BY <1>2, <1>5, <1>10, <2>3 DEF n
  <2>5. PICK j \in 1 .. n : t[1] = all[j] /\ \A i \in 1 .. n : ~Ahead(keys[i], keys[j])
    BY <2>2 DEF IsFirst
  <2>6. ASSUME NEW q \in Range(all) PROVE q.gb <= all[j].gb
    <3>1. PICK i \in 1 .. n : q = all[i]
      BY <1>4 DEF Range
    <3>2. keys[i] = << all[i].gb >> /\ keys[j] = << all[j].gb >>
      BY DEF keys
    <3>3. ~(all[i].gb > all[j].gb)
      BY <2>5, <3>2 DEF Ahead
    <3> QED
      BY <1>4, <3>1, <3>3
  <2>7. all[j] \in Range(all) /\ all[j] \in Pools
    BY <1>4 DEF Range
  <2>8. PoolsGb(pools) = all[j].gb
    BY <2>4, <2>5, <2>7, PoolsGbOfOne
  <2>9. pools # << >>
    BY <2>4
  <2> QED
    BY <1>3, <1>10, <2>6, <2>7, <2>8, <2>9 DEF all, pools
<1> QED
  BY <1>8, <1>9, <1>10

\* What a runtime uses of a machine with more is at least as much.
LEMMA AcceleratorsGrow ==
    ASSUME NEW h, NEW g, MachineAtLeast(h, g), NEW rt
    PROVE  /\ PoolsGb(AcceleratorPools(g, rt)) \in Nat /\ PoolsGb(AcceleratorPools(h, rt)) \in Nat
           /\ PoolsGb(AcceleratorPools(g, rt)) <= PoolsGb(AcceleratorPools(h, rt))
           /\ AcceleratorPools(g, rt) # << >> => AcceleratorPools(h, rt) # << >>
           /\ AcceleratorPools(g, rt) = << >> /\ AcceleratorPools(h, rt) # << >> => g.ram = 0
<1> DEFINE a == AcceleratorPools(g, rt)
           b == AcceleratorPools(h, rt)
           x == AllPools(g, rt)
           y == AllPools(h, rt)
<1>1. IsMachine(g) /\ IsMachine(h)
  BY DEF MachineAtLeast
<1>2. PoolsCover(y, x) /\ (Range(y) # {} /\ Range(x) = {} => g.ram = 0)
  BY AllPoolsGrow
<1>3. /\ a \in Seq(Pools) /\ (a = << >> <=> Range(x) = {}) /\ (rt.multiGpu => a = x)
      /\ ~rt.multiGpu /\ a # << >> => \E p \in Range(x) : PoolsGb(a) = p.gb /\ \A q \in Range(x) : q.gb <= p.gb
  BY <1>1, AcceleratorHolds
<1>4. /\ b \in Seq(Pools) /\ (b = << >> <=> Range(y) = {}) /\ (rt.multiGpu => b = y)
      /\ ~rt.multiGpu /\ b # << >> => \E p \in Range(y) : PoolsGb(b) = p.gb /\ \A q \in Range(y) : q.gb <= p.gb
  BY <1>1, AcceleratorHolds
<1> HIDE DEF a, b, x, y
<1>5. Range(x) # {} => Range(y) # {}
  BY <1>2 DEF PoolsCover
<1>6. PoolsGb(a) \in Nat /\ PoolsGb(b) \in Nat
  BY <1>3, <1>4, PoolsGbTyped
<1>7. PoolsGb(a) <= PoolsGb(b)
  <2>1. CASE rt.multiGpu
    BY <1>2, <1>3, <1>4, <2>1 DEF PoolsCover
  <2>2. CASE a = << >>
    <3>1. PoolsGb(<< >>) <= PoolsGb(b)
      <4>1. << >> \in Seq(Pools) /\ Len(<< >>) <= Len(b) /\ \A i \in 1 .. Len(<< >>) : << >>[i].gb <= b[i].gb
        BY <1>4
      <4> QED
        BY <1>4, <4>1, PoolsGbGrows
    <3> QED
      BY <2>2, <3>1
  <2>3. CASE ~rt.multiGpu /\ a # << >>
    <3>1. PICK p \in Range(x) : PoolsGb(a) = p.gb
      BY <1>3, <2>3
    <3>2. PICK q \in Range(y) : p.gb <= q.gb
      BY <1>2 DEF PoolsCover
    <3>3. PICK r \in Range(y) : PoolsGb(b) = r.gb /\ q.gb <= r.gb
      BY <1>3, <1>4, <1>5, <2>3
    <3>4. q.gb \in Int
      <4>1. y \in Seq(Pools)
        BY <1>2 DEF PoolsCover
      <4>2. q \in Pools
        BY <4>1 DEF Range
      <4> QED
        BY <4>2 DEF Pools
    <3> QED
      BY <1>6, <3>1, <3>2, <3>3, <3>4
  <2> QED
    BY <2>1, <2>2, <2>3
<1> QED
  BY <1>2, <1>3, <1>4, <1>5, <1>6, <1>7 DEF a, b

\* A shorter context needs no more memory.
LEMMA TotalGbGrows ==
    ASSUME NEW a, IsFile(a), NEW c \in Nat, NEW d \in Nat, c <= d
    PROVE  TotalGb(a, c) \in Nat /\ TotalGb(a, d) \in Nat /\ TotalGb(a, c) <= TotalGb(a, d) /\ TotalGb(a, c) > 0
<1> DEFINE w == WeightsGb(a)
           x == AtMost(c, a.context)
           y == AtMost(d, a.context)
           k == a.kvPerToken
           rest == (w * 4) \div 100
<1>1. k \in Nat /\ a.context \in Nat /\ w \in Nat \ {0}
  BY WeightsTyped DEF IsFile
<1>2. x \in Nat /\ y \in Nat /\ x <= y
  BY <1>1 DEF AtMost
<1>3. TotalGb(a, c) = w + k * x + 50 + rest /\ TotalGb(a, d) = w + k * y + 50 + rest
  BY DEF TotalGb, KvCacheGb, BaseOverhead
<1>4. rest \in Nat
  <2>1. \A n \in Nat : (n * 4) \div 100 \in Nat
    OBVIOUS
  <2> QED
    BY <1>1, <2>1
<1> HIDE DEF w, x, y, k, rest
<1>5. k * x \in Nat /\ k * y \in Nat /\ k * x <= k * y
  <2>1. \A l, m, n \in Nat : m <= n => l * m \in Nat /\ l * n \in Nat /\ l * m <= l * n
    OBVIOUS
  <2> QED
    BY <1>1, <1>2, <2>1
<1> QED
  BY <1>1, <1>3, <1>4, <1>5

Reach(fit) == IF fit \in {"full", "tight"} THEN 2 ELSE IF fit = "offload" THEN 1 ELSE 0

\* A smaller need reaches as far into as much memory, wherever it goes.
LEMMA FitGrows ==
    ASSUME NEW s \in Nat, s > 0, NEW t \in Nat, s <= t,
           NEW a \in Nat, NEW b \in Nat, a <= b, NEW m \in Nat, NEW n \in Nat, m <= n,
           NEW x \in BOOLEAN, NEW y \in BOOLEAN, x => y, ~x /\ y => m = 0,
           NEW c \in BOOLEAN, NEW d \in BOOLEAN, c => d, NEW offload
    PROVE  Reach(FitOf(t, a, m, x, c, offload)) <= Reach(FitOf(s, b, n, y, d, offload))
<1>1. \A u, v : Reach(WithinMemory(u, v)) = 2
  BY DEF Reach, WithinMemory
<1> DEFINE p == FitOf(t, a, m, x, c, offload)
           q == FitOf(s, b, n, y, d, offload)
<1>2. Reach(p) \in {0, 1, 2} /\ Reach(q) \in {0, 1, 2}
  BY DEF Reach
<1>3. ASSUME Reach(p) = 2 PROVE Reach(q) = 2
  <2>1. (x /\ t <= a) \/ (~x /\ t <= m)
    <3>1. Reach("offload") = 1 /\ Reach("none") = 0
      BY DEF Reach
    <3> QED
      BY <1>3, <3>1 DEF FitOf
  <2>2. CASE x /\ t <= a
    <3>1. y /\ s <= b
      BY <2>2
    <3>2. q = WithinMemory(s, b)
      BY <3>1 DEF FitOf
    <3> QED
      BY <1>1, <3>2
  <2>3. CASE ~x /\ t <= m
    <3>1. ~y /\ s <= n
      BY <2>3
    <3>2. q = WithinMemory(s, n)
      BY <3>1 DEF FitOf
    <3> QED
      BY <1>1, <3>2
  <2> QED
    BY <2>1, <2>2, <2>3
<1>4. ASSUME Reach(p) = 1 PROVE Reach(q) # 0
  <2>1. x /\ c /\ offload /\ t <= a + m
    <3>1. Reach("none") = 0
      BY DEF Reach
    <3> QED
      BY <1>1, <1>4, <3>1 DEF FitOf
  <2>2. CASE s <= b
    <3>1. q = WithinMemory(s, b)
      BY <2>1, <2>2 DEF FitOf
    <3> QED
      BY <1>1, <3>1
  <2>3. CASE ~(s <= b)
    <3>1. s > b /\ s <= b + n /\ y /\ d
      BY <2>1, <2>3
    <3>2. q = "offload"
      BY <2>1, <2>3, <3>1 DEF FitOf
    <3> QED
      BY <3>2 DEF Reach
  <2> QED
    BY <2>2, <2>3
<1> QED
  BY <1>2, <1>3, <1>4

\* A runtime takes a file as far on a machine with more, and for a shorter context.
LEMMA EvaluateGrows ==
    ASSUME NEW h, NEW g, MachineAtLeast(h, g), NEW a, IsFile(a), NEW rt, NEW c \in Nat, NEW d \in Nat, c <= d, NEW k, NEW l
    PROVE  Reach(Evaluate(g, a, rt, d, k).fit) <= Reach(Evaluate(h, a, rt, c, l).fit)
<1> DEFINE accel(x) == PoolsGb(AcceleratorPools(x, rt))
           ram(x) == x.ram * SystemRamUsable
           pooled(x) == AcceleratorPools(x, rt) # << >>
           cpu(x) == CpuAvailable(x, rt)
           runs_(x) == a.format \in rt.formats /\ (pooled(x) \/ cpu(x))
           fit(x, ctx) == IF runs_(x) THEN FitOf(TotalGb(a, ctx), accel(x), ram(x), pooled(x), cpu(x), rt.offload) ELSE "none"
<1>1. \A x, ctx, m : Evaluate(x, a, rt, ctx, m).fit = fit(x, ctx)
  BY DEF Evaluate
<1>2. TotalGb(a, c) \in Nat /\ TotalGb(a, d) \in Nat /\ TotalGb(a, c) <= TotalGb(a, d) /\ TotalGb(a, c) > 0
  BY TotalGbGrows
<1>3. /\ accel(g) \in Nat /\ accel(h) \in Nat /\ accel(g) <= accel(h)
      /\ (pooled(g) => pooled(h)) /\ (~pooled(g) /\ pooled(h) => g.ram = 0)
  BY AcceleratorsGrow
<1>4. ram(g) \in Nat /\ ram(h) \in Nat /\ ram(g) <= ram(h) /\ (g.ram = 0 => ram(g) = 0)
  <2>1. g.ram \in Nat /\ h.ram \in Nat /\ g.ram <= h.ram
    BY DEF MachineAtLeast, IsMachine
  <2> QED
    BY <2>1 DEF SystemRamUsable
<1>5. cpu(g) => cpu(h)
  <2>1. g.ram \in Nat /\ h.ram \in Nat /\ g.ram <= h.ram /\ DOMAIN h.components = DOMAIN g.components
        /\ \A i \in DOMAIN g.components : h.components[i].device = g.components[i].device
    BY DEF MachineAtLeast, IsMachine
  <2> QED
    BY <2>1 DEF CpuAvailable
<1>6. pooled(g) \in BOOLEAN /\ pooled(h) \in BOOLEAN /\ cpu(g) \in BOOLEAN /\ cpu(h) \in BOOLEAN
  BY DEF CpuAvailable
<1>7. runs_(g) => runs_(h)
  BY <1>3, <1>5
<1> HIDE DEF accel, ram, pooled, cpu
<1>8. Reach(FitOf(TotalGb(a, d), accel(g), ram(g), pooled(g), cpu(g), rt.offload))
        <= Reach(FitOf(TotalGb(a, c), accel(h), ram(h), pooled(h), cpu(h), rt.offload))
  BY <1>2, <1>3, <1>4, <1>5, <1>6, FitGrows
<1> HIDE DEF runs_
<1>9. Reach(fit(g, d)) <= Reach(fit(h, c))
  <2>1. CASE runs_(g)
    BY <1>7, <1>8, <2>1
  <2>2. CASE ~runs_(g)
    <3>1. Reach(fit(g, d)) = 0
      BY <2>2 DEF Reach
    <3>2. Reach(fit(h, c)) \in {0, 1, 2}
      BY DEF Reach
    <3> QED
      BY <3>1, <3>2
  <2> QED
    BY <2>1, <2>2
<1> QED
  BY <1>1, <1>9

\* The best runtime for a file is one that takes it as far as any.
LEMMA AssessBest ==
    ASSUME NEW spec, IsMachine(spec), NEW f, IsFile(f), NEW runtimes, IsList(runtimes), runtimes # << >>,
           NEW ctx \in Nat, NEW measurements, Measurements(measurements)
    PROVE  \E rt \in Range(runtimes) :
              /\ Assess(spec, f, runtimes, measurements, ctx) = Evaluate(spec, f, rt, ctx, measurements)
              /\ \A o \in Range(runtimes) :
                    Reach(Evaluate(spec, f, o, ctx, measurements).fit) <= Reach(Evaluate(spec, f, rt, ctx, measurements).fit)
<1> DEFINE n == Len(runtimes)
           e(rt) == Evaluate(spec, f, rt, ctx, measurements)
           list == [i \in 1 .. n |-> e(runtimes[i])]
           keys == [i \in 1 .. n |-> CompareKey(list[i])]
           t == Sorted(list, keys)
<1>1. n \in Nat /\ n # 0 /\ DOMAIN runtimes = 1 .. n
  BY DEF IsList
<1>2. \A i \in 1 .. n : Assessed(list[i])
  BY EvaluateTyped
<1>3. DOMAIN list = 1 .. n /\ Evaluated(list) = list
  BY <1>1, ListOf
<1>4. Each(runtimes, LAMBDA rt : e(rt)) = list
  BY <1>1, <1>3 DEF Each
<1>5. \A i \in 1 .. n : list[i] = e(runtimes[i])
  OBVIOUS
<1> HIDE DEF n, list
<1>6. Evaluated(keys) = keys
  BY <1>1, ListOf
<1>7. SortedBy(list, CompareKey) = t
  BY <1>3, <1>6 DEF SortedBy, Each
<1>8. keys \in [1 .. n -> [1 .. 3 -> Int]] /\ 3 \in Nat
  BY <1>2, KeysTyped
<1>9. \A i \in 1 .. n : keys[i] = CompareKey(list[i])
  OBVIOUS
<1> HIDE DEF keys
<1>10. IsListing(t, n, Range(list)) /\ IsFirst(t[1], list, n, keys)
  <2>1. IsListing(t, n, Range(list))
    BY <1>1, <1>3, <1>8, SortedHolds
  <2>2. IsFirst(t[1], list, n, keys)
    BY <1>1, <1>3, <1>8, SortedHead
  <2> QED
    BY <2>1, <2>2
<1>11. Assess(spec, f, runtimes, measurements, ctx) = Head(t)
  BY <1>4, <1>7 DEF Assess, EvaluateAcrossRuntimes
<1>12. Head(t) = t[1]
  BY <1>1, <1>10 DEF IsListing
<1>13. PICK j \in 1 .. n : t[1] = list[j] /\ \A i \in 1 .. n : ~Ahead(keys[i], keys[j])
  BY <1>10 DEF IsFirst
<1> HIDE DEF e, t
<1>14. ASSUME NEW i \in 1 .. n PROVE Reach(list[i].fit) <= Reach(list[j].fit)
  <2>1. list[i].fit \in Fits /\ list[j].fit \in Fits
    BY <1>2 DEF Assessed
  <2>2. ~(FitRank[list[i].fit] > FitRank[list[j].fit])
    <3>1. ~(CompareKey(list[i])[1] > CompareKey(list[j])[1])
      <4>1. ~Ahead(CompareKey(list[i]), CompareKey(list[j]))
        BY <1>13, <1>9
      <4>2. 1 \in DOMAIN CompareKey(list[i])
        BY DEF CompareKey
      <4> QED
        BY <4>1, <4>2 DEF Ahead
    <3> QED
      BY <3>1 DEF CompareKey
  <2> QED
    BY <2>1, <2>2 DEF Fits, FitRank, Reach
<1>15. runtimes[j] \in Range(runtimes)
  BY <1>1 DEF Range
<1>16. ASSUME NEW o \in Range(runtimes) PROVE Reach(e(o).fit) <= Reach(e(runtimes[j]).fit)
  <2>1. PICK i \in 1 .. n : o = runtimes[i]
    BY <1>1 DEF Range
  <2> QED
    BY <1>5, <1>14, <2>1
<1> QED
  BY <1>11, <1>12, <1>13, <1>5, <1>15, <1>16 DEF e

\* So is every file taken as far by its best runtime.
LEMMA AssessGrows ==
    ASSUME NEW h, NEW g, MachineAtLeast(h, g), NEW f, IsFile(f), NEW runtimes, IsList(runtimes), runtimes # << >>,
           NEW c \in Nat, NEW d \in Nat, c <= d, NEW k, Measurements(k), NEW l, Measurements(l)
    PROVE  Reach(Assess(g, f, runtimes, k, d).fit) <= Reach(Assess(h, f, runtimes, l, c).fit)
<1>1. IsMachine(g) /\ IsMachine(h)
  BY DEF MachineAtLeast
<1>2. PICK rt \in Range(runtimes) : Assess(g, f, runtimes, k, d) = Evaluate(g, f, rt, d, k)
  BY <1>1, AssessBest
<1>3. PICK o \in Range(runtimes) :
         /\ Assess(h, f, runtimes, l, c) = Evaluate(h, f, o, c, l)
         /\ \A x \in Range(runtimes) : Reach(Evaluate(h, f, x, c, l).fit) <= Reach(Evaluate(h, f, o, c, l).fit)
  BY <1>1, AssessBest
<1>4. Reach(Evaluate(g, f, rt, d, k).fit) <= Reach(Evaluate(h, f, rt, c, l).fit)
  BY EvaluateGrows
<1>5. \A x : Reach(x) \in Int
  BY DEF Reach
<1> QED
  BY <1>2, <1>3, <1>4, <1>5

\* A variant runs as far as the file of it that reaches furthest.
LEMMA StandingHolds ==
    ASSUME NEW group, NEW c, IsList(c), \A x \in Range(c) : Assessed(x)
    PROVE  /\ VariantResult(group, c).variant = group[1].variant
           /\ \A x \in Range(c) : Reach(x.fit) <= Standing(VariantResult(group, c))
           /\ Standing(VariantResult(group, c)) = 0 \/ \E x \in Range(c) : Standing(VariantResult(group, c)) = Reach(x.fit)
<1> DEFINE r == VariantResult(group, c)
           ranked == PickRecommended(c)
           S == Range(c)
<1>1. IsList(ranked) /\ Range(ranked) = Viable(S)
  BY PickRecommendedHolds
<1>2. r.variant = group[1].variant /\ r.recommended = SubSeq(ranked, 1, AtMost(1, Len(ranked)))
  BY DEF VariantResult, ResultOf
<1> HIDE DEF r, ranked, S
<1>3. r.recommended = IF ranked = << >> THEN << >> ELSE << ranked[1] >>
  BY <1>1, <1>2, FirstOf
<1>4. (ranked = << >> <=> Viable(S) = {}) /\ (ranked # << >> => ranked[1] \in Viable(S))
  BY <1>1, ListHead
<1>5. \A x \in S : x.fit \in Fits
  BY DEF Assessed, S
<1>6. \A x \in S : Reach(x.fit) = (IF InMemory(x) THEN 2 ELSE IF x.fit # "none" THEN 1 ELSE 0)
  BY <1>5 DEF Reach, InMemory, Fits
<1>7. CASE Viable(S) = {}
  <2>1. Standing(r) = 0
    BY <1>3, <1>4, <1>7 DEF Standing, Runs
  <2>2. \A x \in S : ~InMemory(x) /\ x.fit = "none"
    BY <1>7 DEF Viable, InMemory
  <2>3. \A x \in S : Reach(x.fit) = 0
    BY <1>6, <2>2
  <2> QED
    BY <1>2, <2>1, <2>3 DEF r, S
<1>8. CASE Viable(S) # {}
  <2> DEFINE b == ranked[1]
  <2>1. b \in Viable(S) /\ r.recommended = << b >>
    BY <1>3, <1>4, <1>8
  <2> HIDE DEF b
  <2>2. Standing(r) = IF InMemory(b) THEN 2 ELSE 1
    BY <2>1 DEF Standing, Runs, Recommended
  <2>3. b \in S /\ (InMemory(b) \/ b.fit # "none") /\ (~InMemory(b) => \A x \in S : ~InMemory(x))
    BY <2>1 DEF Viable
  <2>4. Standing(r) = Reach(b.fit)
    BY <1>6, <2>2, <2>3
  <2>5. \A x \in S : Reach(x.fit) <= Standing(r)
    BY <1>6, <2>2, <2>3
  <2> QED
    BY <1>2, <2>3, <2>4, <2>5 DEF r, S
<1> QED
  BY <1>7, <1>8

\* A variant whose files are all still there, on a machine with more, runs at least as far.
LEMMA VariantGrows ==
    ASSUME NEW h, NEW g, MachineAtLeast(h, g), NEW runtimes, IsList(runtimes),
           NEW c \in Nat, NEW d \in Nat, c <= d, NEW k, Measurements(k), NEW l, Measurements(l),
           NEW a, IsList(a), NEW b, IsList(b), Range(a) \subseteq Range(b), \A f \in Range(b) : IsFile(f)
    PROVE  Standing(EvaluateVariant(g, a, runtimes, k, d)) <= Standing(EvaluateVariant(h, b, runtimes, l, c))
<1> DEFINE x == Candidates(g, a, runtimes, k, d)
           y == Candidates(h, b, runtimes, l, c)
           before == EvaluateVariant(g, a, runtimes, k, d)
           after == EvaluateVariant(h, b, runtimes, l, c)
<1>1. IsMachine(g) /\ IsMachine(h)
  BY DEF MachineAtLeast
<1>2. AreCandidates(x, g, a, runtimes, k, d) /\ AreCandidates(y, h, b, runtimes, l, c)
  BY <1>1, CandidatesHold
<1>3. before = VariantResult(a, x) /\ after = VariantResult(b, y)
  BY DEF EvaluateVariant, Candidates, Assess
<1> HIDE DEF x, y, before, after
<1>4. Standing(before) = 0 \/ \E p \in Range(x) : Standing(before) = Reach(p.fit)
  BY <1>2, <1>3, StandingHolds DEF AreCandidates
<1>5. \A q \in Range(y) : Reach(q.fit) <= Standing(after)
  BY <1>2, <1>3, StandingHolds DEF AreCandidates
<1>6. Standing(after) \in {0, 1, 2}
  BY DEF Standing
<1>7. ASSUME NEW p \in Range(x) PROVE Reach(p.fit) <= Standing(after)
  <2>1. PICK f \in Range(a) : runtimes # << >> /\ p = Assess(g, f, runtimes, k, d)
    BY <1>2 DEF AreCandidates
  <2> DEFINE q == Assess(h, f, runtimes, l, c)
  <2>2. q \in Range(y)
    BY <1>2, <2>1 DEF AreCandidates
  <2>3. Reach(p.fit) <= Reach(q.fit)
    BY <2>1, AssessGrows
  <2>4. \A z : Reach(z) \in Int
    BY DEF Reach
  <2> HIDE DEF q
  <2> QED
    BY <1>5, <1>6, <2>2, <2>3, <2>4
<1>8. Standing(before) <= Standing(after)
  BY <1>4, <1>6, <1>7
<1> QED
  BY <1>8 DEF before, after

\* The answer for a variant is about it.
LEMMA ResultVariant ==
    ASSUME NEW database, NEW hardware, NEW opts, Answerable(database, hardware, opts),
           NEW f \in Range(ChosenFiles(database, opts))
    PROVE  Result(database, hardware, opts, f.variant).variant = f.variant
<1> DEFINE files == ChosenFiles(database, opts)
           group == OfVariant(files, f.variant)
<1>1. IsList(files)
  BY ChosenHold DEF Answerable
<1>2. IsList(group) /\ f \in Range(group) /\ \A x \in Range(group) : x.variant = f.variant
  BY <1>1, OfVariantHolds
<1>3. group[1].variant = f.variant
  BY <1>2, ListHead
<1>4. Result(database, hardware, opts, f.variant).variant = group[1].variant
  BY DEF Result, EvaluateVariant, VariantResult, ResultOf
<1> QED
  BY <1>3, <1>4

\* No answer is lost, on a machine with more, when no file is.
LEMMA AnswersGrow ==
    ASSUME NEW a, NEW b, NEW g, NEW h, NEW o, NEW p, Answerable(a, g, o), Answerable(b, h, p),
           Range(a.files) \subseteq Range(b.files), a.runtimes = b.runtimes, MachineAtLeast(h.spec, g.spec),
           o.capability = p.capability, o.runtime = p.runtime, o.commercialOnly = p.commercialOnly, p.ctx <= o.ctx,
           NEW r \in Range(RunCompatibility(a, g, o))
    PROVE  \E q \in Range(RunCompatibility(b, h, p)) : q.variant = r.variant /\ Standing(q) >= Standing(r)
<1>1. PICK f \in Range(a.files) : Chosen(f, o) /\ r = Result(a, g, o, f.variant)
  BY CompatibilityHolds
<1> DEFINE v == f.variant
           x == OfVariant(ChosenFiles(a, o), v)
           y == OfVariant(ChosenFiles(b, p), v)
           q == Result(b, h, p, v)
<1>2. \A e : Chosen(e, p) <=> Chosen(e, o)
  BY DEF Chosen
<1>3. q \in Range(RunCompatibility(b, h, p))
  BY <1>1, <1>2, CompatibilityHolds
<1>4. /\ IsList(ChosenFiles(a, o)) /\ IsList(ChosenFiles(b, p)) /\ IsList(ChosenRuntimes(a, o))
      /\ \A e : e \in Range(ChosenFiles(a, o)) <=> e \in Range(a.files) /\ Chosen(e, o)
      /\ \A e : e \in Range(ChosenFiles(b, p)) <=> e \in Range(b.files) /\ Chosen(e, p)
  BY ChosenHold DEF Answerable
<1>5. r.variant = v /\ q.variant = v
  BY <1>1, <1>2, <1>4, ResultVariant
<1>6. /\ IsList(x) /\ IsList(y)
      /\ \A e : e \in Range(x) <=> e \in Range(ChosenFiles(a, o)) /\ e.variant = v
      /\ \A e : e \in Range(y) <=> e \in Range(ChosenFiles(b, p)) /\ e.variant = v
  BY <1>4, OfVariantHolds
<1>7. /\ r = EvaluateVariant(g.spec, x, ChosenRuntimes(a, o), LoadMeasurements(a, o.includeCommunity), o.ctx)
      /\ q = EvaluateVariant(h.spec, y, ChosenRuntimes(b, p), LoadMeasurements(b, p.includeCommunity), p.ctx)
  BY <1>1 DEF Result
<1>8. ChosenRuntimes(b, p) = ChosenRuntimes(a, o)
  BY DEF ChosenRuntimes
<1> HIDE DEF q, x, y
<1>9. Range(x) \subseteq Range(y)
  BY <1>2, <1>4, <1>6
<1>10. \A e \in Range(y) : IsFile(e)
  <2>1. \A e \in Range(b.files) : e \in Files
    BY DEF Answerable, Range
  <2> QED
    BY <1>4, <1>6, <2>1, RunPageAssumption
<1>11. Standing(r) <= Standing(q)
  BY <1>4, <1>6, <1>7, <1>8, <1>9, <1>10, VariantGrows DEF Answerable
<1>12. Standing(q) >= Standing(r)
  BY <1>11
<1> QED
  BY <1>3, <1>5, <1>12

Named(input) == {i \in DOMAIN input.components : \E d \in db.devices : d.slug = input.components[i].slug}
CardOf(c) == [device |-> CHOOSE d \in db.devices : d.slug = c.slug, count |-> Clamped(c.count)]
CardsOf(input) == [i \in 1 .. Len(Part(input.components, Named(input))) |-> CardOf(Part(input.components, Named(input))[i])]

SharesMemory(cards) == \E i \in DOMAIN cards : cards[i].device.memory = "unified"
HasCpu(cards) == \E i \in DOMAIN cards : cards[i].device.kind = "cpu"

SpecOf(cards, input) ==
    HardwareSpec("custom", IF HasCpu(cards) \/ SharesMemory(cards) THEN cards ELSE Append(cards, HostCpu),
                 IF SharesMemory(cards) THEN 0 ELSE input.ram, IF SharesMemory(cards) THEN 0 ELSE DefaultRamBandwidth,
                 IF SharesMemory(cards) THEN Default(input.unified, DefaultUnified) ELSE 0)

\* A composed machine is its cards, and the host of them when they bring none.
LEMMA CustomIs ==
    ASSUME NEW input, IsList(input.components)
    PROVE  /\ Len(CardsOf(input)) \in Nat /\ DOMAIN CardsOf(input) = 1 .. Len(CardsOf(input))
           /\ Len(CardsOf(input)) = Len(Part(input.components, Named(input)))
           /\ CardsOf(input) = << >> => BuildCustomHardware(db, input) = {}
           /\ CardsOf(input) # << >> =>
                 BuildCustomHardware(db, input) = {[source |-> "custom", spec |-> SpecOf(CardsOf(input), input)]}
<1> DEFINE named == Part(input.components, Named(input))
           n == Len(named)
           list == CardsOf(input)
           Built(parts) ==
               LET carries(P(_)) == \E i \in DOMAIN parts : P(parts[i].device)
                   shares == carries(LAMBDA d : d.memory = "unified")
                   hosted == carries(LAMBDA d : d.kind = "cpu")
               IN IF parts = << >> THEN {}
                  ELSE {[source |-> "custom",
                         spec |-> HardwareSpec("custom",
                                     IF hosted \/ shares THEN parts ELSE Append(parts, HostCpu),
                                     IF shares THEN 0 ELSE input.ram,
                                     IF shares THEN 0 ELSE DefaultRamBandwidth,
                                     IF shares THEN Default(input.unified, DefaultUnified) ELSE 0)]}
<1>1. IsPart(named, input.components, Named(input))
  BY PartIsPart DEF Named
<1>2. n \in Nat /\ DOMAIN named = 1 .. n
  BY <1>1 DEF IsPart, IsList
<1>3. list = [i \in 1 .. n |-> CardOf(named[i])]
  BY DEF CardsOf
<1>4. Evaluated(list) = list /\ DOMAIN list = 1 .. n /\ Len(list) = n
  BY <1>2, <1>3, ListOf
<1>5. BuildCustomHardware(db, input) = Built(Evaluated([i \in DOMAIN named |-> CardOf(named[i])]))
  BY DEF BuildCustomHardware, Each, Select, Named, CardOf
<1>6. BuildCustomHardware(db, input) = Built(list)
  BY <1>2, <1>3, <1>4, <1>5
<1> HIDE DEF list, named
<1>7. list # << >> => BuildCustomHardware(db, input) = {[source |-> "custom", spec |-> SpecOf(list, input)]}
  BY <1>6 DEF SpecOf, SharesMemory, HasCpu
<1>8. list = << >> => BuildCustomHardware(db, input) = {}
  BY <1>6
<1> QED
  BY <1>2, <1>4, <1>7, <1>8 DEF list, named

\* The input b names the devices of a, and as much of everything.
InputAtLeast(b, a) ==
    /\ IsList(a.components) /\ IsList(b.components) /\ DOMAIN b.components = DOMAIN a.components
    /\ \A i \in DOMAIN a.components :
          /\ a.components[i].slug = b.components[i].slug
          /\ a.components[i].count \in Int /\ b.components[i].count \in Int
          /\ a.components[i].count <= b.components[i].count
    /\ a.ram \in Nat /\ b.ram \in Nat /\ a.ram <= b.ram
    /\ a.unified \in Nat \cup {NotGiven} /\ b.unified \in Nat \cup {NotGiven}
    /\ Default(a.unified, DefaultUnified) <= Default(b.unified, DefaultUnified)

\* More of the same devices makes a machine with more.
LEMMA CustomGrows ==
    ASSUME NEW a, NEW b, InputAtLeast(b, a), BuildCustomHardware(db, a) # {}
    PROVE  /\ BuildCustomHardware(db, b) # {}
           /\ \A g \in BuildCustomHardware(db, a), h \in BuildCustomHardware(db, b) : MachineAtLeast(h.spec, g.spec)
<1> DEFINE x == CardsOf(a)
           y == CardsOf(b)
           s == Part(a.components, Named(a))
           t == Part(b.components, Named(b))
           n == Len(s)
<1>1. IsList(a.components) /\ IsList(b.components) /\ DOMAIN b.components = DOMAIN a.components
  BY DEF InputAtLeast
<1>2. DOMAIN a.components = 1 .. Len(a.components) /\ Len(a.components) \in Nat
  BY <1>1 DEF IsList
<1>3. Named(b) = Named(a) /\ Named(a) \in SUBSET (1 .. Len(a.components))
  BY <1>2 DEF InputAtLeast, Named
<1>4. Len(s) = Len(t) /\ \A k \in 1 .. n : \E i \in Named(a) : s[k] = a.components[i] /\ t[k] = b.components[i]
  <2> DEFINE m == Len(a.components)  I == Named(a)  e == a.components  f == b.components
  <2>1. m \in Nat /\ DOMAIN e = 1 .. m /\ DOMAIN f = 1 .. m /\ I \in SUBSET (1 .. m)
    BY <1>1, <1>2, <1>3
  <2>2. s = Part(e, I) /\ t = Part(f, I)
    BY <1>3
  <2> HIDE DEF m, I, e, f, s, t
  <2>3. Beside(Part(e, I), Part(f, I), e, f, I)
    BY <2>1, PartAlike
  <2>4. Beside(s, t, e, f, I)
    BY <2>2, <2>3
  <2> QED
    BY <2>4 DEF Beside, I, e, f
<1>5. /\ Len(x) = n /\ n \in Nat /\ DOMAIN x = 1 .. n
      /\ x = << >> => BuildCustomHardware(db, a) = {}
      /\ x # << >> => BuildCustomHardware(db, a) = {[source |-> "custom", spec |-> SpecOf(x, a)]}
  BY <1>1, CustomIs
<1>6. /\ Len(y) = n /\ DOMAIN y = 1 .. n
      /\ y = << >> => BuildCustomHardware(db, b) = {}
      /\ y # << >> => BuildCustomHardware(db, b) = {[source |-> "custom", spec |-> SpecOf(y, b)]}
  BY <1>1, <1>4, CustomIs
<1>7. x = [k \in 1 .. n |-> CardOf(s[k])] /\ y = [k \in 1 .. n |-> CardOf(t[k])]
  BY <1>4 DEF CardsOf
<1> HIDE DEF s, t, n
<1>8. ASSUME NEW k \in 1 .. n
      PROVE  /\ x[k].device = y[k].device /\ IsDevice(x[k].device)
             /\ x[k].count \in Nat /\ y[k].count \in Nat /\ 1 <= x[k].count /\ x[k].count <= y[k].count
  <2>1. PICK i \in Named(a) : s[k] = a.components[i] /\ t[k] = b.components[i]
    BY <1>4
  <2>2. s[k].slug = t[k].slug /\ s[k].count \in Int /\ t[k].count \in Int /\ s[k].count <= t[k].count
    BY <2>1 DEF InputAtLeast, Named
  <2>3. PICK d \in db.devices : d.slug = s[k].slug
    BY <2>1 DEF Named
  <2>4. (CHOOSE e \in db.devices : e.slug = s[k].slug) \in Devices
    BY <2>3 DEF db
  <2>5. x[k] = CardOf(s[k]) /\ y[k] = CardOf(t[k])
    BY <1>7
  <2>6. x[k].device = y[k].device /\ x[k].device \in Devices
    BY <2>2, <2>4, <2>5 DEF CardOf
  <2>7. /\ Clamped(s[k].count) \in Nat /\ Clamped(t[k].count) \in Nat
        /\ 1 <= Clamped(s[k].count) /\ Clamped(s[k].count) <= Clamped(t[k].count)
    BY <2>2 DEF Clamped, AtMost, MaxCount
  <2>8. x[k].count = Clamped(s[k].count) /\ y[k].count = Clamped(t[k].count)
    BY <2>5 DEF CardOf
  <2>9. IsDevice(x[k].device)
    BY <2>6, RunPageAssumption
  <2> QED
    BY <2>6, <2>7, <2>8, <2>9
<1> HIDE DEF x, y
<1>9. x # << >> /\ n # 0
  <2>1. x # << >>
    BY <1>5
  <2>2. ASSUME n = 0 PROVE FALSE
    <3>1. x = << >>
      BY <1>5, <2>2, <1>7
    <3> QED
      BY <2>1, <3>1
  <2> QED
    BY <2>1, <2>2
<1>10. y # << >>
  BY <1>6, <1>9
<1> DEFINE g == SpecOf(x, a)
           h == SpecOf(y, b)
           shared == SharesMemory(x)
           hosted == HasCpu(x) \/ SharesMemory(x)
<1>11. SharesMemory(y) = shared /\ (HasCpu(y) \/ SharesMemory(y)) = hosted
  BY <1>5, <1>6, <1>8 DEF SharesMemory, HasCpu
<1>12. /\ g.components = (IF hosted THEN x ELSE Append(x, HostCpu)) /\ g.ram = (IF shared THEN 0 ELSE a.ram)
       /\ g.unified = (IF shared THEN Default(a.unified, DefaultUnified) ELSE 0)
  BY DEF SpecOf, HardwareSpec
<1>13. /\ h.components = (IF hosted THEN y ELSE Append(y, HostCpu)) /\ h.ram = (IF shared THEN 0 ELSE b.ram)
       /\ h.unified = (IF shared THEN Default(b.unified, DefaultUnified) ELSE 0)
  BY <1>11 DEF SpecOf, HardwareSpec
<1> HIDE DEF shared, hosted
<1>14. g.ram <= h.ram /\ g.unified <= h.unified /\ (h.unified # 0 => g.ram = 0)
  <2>1. Default(a.unified, DefaultUnified) \in Nat /\ Default(b.unified, DefaultUnified) \in Nat
    BY DEF Default, DefaultUnified, NotGiven, InputAtLeast
  <2> HIDE DEF g, h
  <2> QED
    BY <1>12, <1>13, <2>1 DEF InputAtLeast
<1>15. IsMachine(g) /\ IsMachine(h)
  <2>1. /\ \A c \in Range(a.components) : c.count \in Int
        /\ \A c \in Range(b.components) : c.count \in Int
    BY <1>1 DEF InputAtLeast, Range
  <2>2. a.ram \in Nat /\ b.ram \in Nat /\ a.unified \in Nat \cup {NotGiven} /\ b.unified \in Nat \cup {NotGiven}
    BY DEF InputAtLeast
  <2>3. \A m \in BuildCustomHardware(db, a) : IsMachine(m.spec)
    BY <1>1, <2>1, <2>2, CustomHardware
  <2>4. \A m \in BuildCustomHardware(db, b) : IsMachine(m.spec)
    BY <1>1, <2>1, <2>2, CustomHardware
  <2> HIDE DEF g, h
  <2>5. BuildCustomHardware(db, a) = {[source |-> "custom", spec |-> g]}
        /\ BuildCustomHardware(db, b) = {[source |-> "custom", spec |-> h]}
    BY <1>5, <1>6, <1>9, <1>10 DEF g, h
  <2> QED
    BY <2>3, <2>4, <2>5
<1>16. /\ DOMAIN h.components = DOMAIN g.components
       /\ \A i \in DOMAIN g.components :
             /\ h.components[i].device = g.components[i].device
             /\ 1 <= g.components[i].count /\ g.components[i].count <= h.components[i].count
  <2> HIDE DEF g, h
  <2>1. CASE hosted
    BY <1>5, <1>6, <1>8, <1>12, <1>13, <2>1
  <2>2. CASE ~hosted
    <3>1. x \in Seq(Range(x)) /\ y \in Seq(Range(y))
      <4>1. x = [k \in 1 .. n |-> x[k]] /\ y = [k \in 1 .. n |-> y[k]]
        BY <1>7 DEF x, y, CardsOf
      <4> QED
        BY <1>5, <4>1, ListOf
    <3> DEFINE u == Append(x, HostCpu)  v == Append(y, HostCpu)
    <3>2. DOMAIN u = 1 .. n + 1 /\ DOMAIN v = 1 .. n + 1
      BY <1>5, <1>6, <3>1
    <3>3. ASSUME NEW i \in 1 .. n + 1
          PROVE  u[i] = (IF i = n + 1 THEN HostCpu ELSE x[i]) /\ v[i] = (IF i = n + 1 THEN HostCpu ELSE y[i])
      BY <1>5, <1>6, <3>1
    <3>4. HostCpu.count = 1
      BY DEF HostCpu
    <3> HIDE DEF u, v
    <3>5. ASSUME NEW i \in 1 .. n + 1
          PROVE  v[i].device = u[i].device /\ 1 <= u[i].count /\ u[i].count <= v[i].count
      <4>1. CASE i = n + 1
        BY <3>3, <3>4, <4>1
      <4>2. CASE i # n + 1
        <5>1. i \in 1 .. n
          BY <1>5, <4>2
        <5> QED
          BY <1>8, <3>3, <4>2, <5>1
      <4> QED
        BY <4>1, <4>2
    <3>6. g.components = u /\ h.components = v
      BY <1>12, <1>13, <2>2 DEF u, v
    <3> QED
      BY <3>2, <3>5, <3>6
  <2> QED
    BY <2>1, <2>2
<1> HIDE DEF g, h
<1>17. MachineAtLeast(h, g)
  BY <1>14, <1>15, <1>16 DEF MachineAtLeast
<1>18. BuildCustomHardware(db, a) = {[source |-> "custom", spec |-> g]}
       /\ BuildCustomHardware(db, b) = {[source |-> "custom", spec |-> h]}
  BY <1>5, <1>6, <1>9, <1>10 DEF g, h
<1> QED
  BY <1>17, <1>18

\* The form asks for what the visitor entered.
LEMMA FormGrows ==
    ASSUME NEW u, NEW v, IsTyped(u), IsTyped(v), AtLeast(u, v)
    PROVE  InputAtLeast(CustomInput(u), CustomInput(v))
<1> DEFINE a == << [slug |-> v.d0, count |-> Default(v.c0, 1)], [slug |-> v.d1, count |-> Default(v.c1, 1)] >>
           b == << [slug |-> u.d0, count |-> Default(u.c0, 1)], [slug |-> u.d1, count |-> Default(u.c1, 1)] >>
           I == {i \in DOMAIN a : a[i].slug # ""}
           J == {i \in DOMAIN b : b[i].slug # ""}
           s == Part(a, I)
           t == Part(b, J)
<1>1. {u.c0, u.c1, u.ram, u.unified} \subseteq Nat \cup {NotGiven} /\ {v.c0, v.c1, v.ram, v.unified} \subseteq Nat \cup {NotGiven}
  BY DEF IsTyped
<1>2. /\ Default(v.c0, 1) \in Int /\ Default(v.c1, 1) \in Int /\ Default(u.c0, 1) \in Int /\ Default(u.c1, 1) \in Int
      /\ Default(v.c0, 1) <= Default(u.c0, 1) /\ Default(v.c1, 1) <= Default(u.c1, 1)
      /\ u.d0 = v.d0 /\ u.d1 = v.d1
  BY <1>1 DEF AtLeast, Default, NotGiven
<1>3. DOMAIN a = 1 .. 2 /\ DOMAIN b = 1 .. 2
  OBVIOUS
<1>4. ASSUME NEW i \in 1 .. 2
      PROVE  a[i].slug = b[i].slug /\ a[i].count \in Int /\ b[i].count \in Int /\ a[i].count <= b[i].count
  <2>1. i = 1 \/ i = 2
    OBVIOUS
  <2> QED
    BY <1>2, <2>1
<1>5. IsList(a) /\ IsList(b)
  BY DEF IsList, Range
<1>6. CustomInput(v) = [components |-> s, ram |-> Default(v.ram, 32), unified |-> v.unified]
      /\ CustomInput(u) = [components |-> t, ram |-> Default(u.ram, 32), unified |-> u.unified]
  BY DEF CustomInput, Select
<1> HIDE DEF a, b
<1>7. I = J /\ I \in SUBSET (1 .. 2)
  BY <1>3, <1>4
<1> HIDE DEF I, J
<1>8. Len(s) = Len(t) /\ \A k \in 1 .. Len(s) : \E i \in I : s[k] = a[i] /\ t[k] = b[i]
  <2>1. 2 \in Nat
    OBVIOUS
  <2> QED
    <3>1. DOMAIN a = 1 .. 2 /\ DOMAIN b = 1 .. 2 /\ I \in SUBSET (1 .. 2) /\ s = Part(a, I) /\ t = Part(b, I)
      BY <1>3, <1>7
    <3> HIDE DEF s, t
    <3>2. Beside(Part(a, I), Part(b, I), a, b, I)
      BY <2>1, <3>1, PartAlike
    <3> QED
      BY <3>1, <3>2 DEF Beside
<1>9. IsList(s) /\ IsList(t)
  <2>1. IsPart(s, a, I) /\ IsPart(t, b, J)
    BY <1>3, <1>5, <1>7, PartIsPart
  <2> QED
    BY <2>1 DEF IsPart
<1> HIDE DEF s, t
<1>10. DOMAIN s = 1 .. Len(s) /\ DOMAIN t = 1 .. Len(s)
  BY <1>8, <1>9 DEF IsList
<1>11. ASSUME NEW k \in DOMAIN s
       PROVE  s[k].slug = t[k].slug /\ s[k].count \in Int /\ t[k].count \in Int /\ s[k].count <= t[k].count
  BY <1>4, <1>7, <1>8, <1>10
<1>12. /\ Default(v.ram, 32) \in Nat /\ Default(u.ram, 32) \in Nat /\ Default(v.ram, 32) <= Default(u.ram, 32)
       /\ Default(v.unified, DefaultUnified) <= Default(u.unified, DefaultUnified)
  BY <1>1 DEF AtLeast, Default, DefaultUnified, NotGiven
<1>13. v.unified \in Nat \cup {NotGiven} /\ u.unified \in Nat \cup {NotGiven}
  BY <1>1
<1> QED
  BY <1>6, <1>9, <1>10, <1>11, <1>12, <1>13 DEF InputAtLeast

\* A step only adds files, and changes no device.
LEMMA FilesKept ==
    ASSUME Typed, Typed', [Next]_vars
    PROVE  Range(rows) \subseteq Range(rows')
<1>1. rows \in Seq(Files) /\ rows' \in Seq(Files)
  BY DEF Typed, Stored
<1>2. CASE rows' = rows
  BY <1>2
<1>3. ASSUME NEW f \in Files, PublishFile(f) PROVE Range(rows) \subseteq Range(rows')
  <2>1. rows' = Append(rows, f)
    BY <1>3 DEF PublishFile
  <2>2. \A i \in DOMAIN rows : i \in DOMAIN rows' /\ rows'[i] = rows[i]
    BY <1>1, <2>1
  <2> QED
    BY <2>2 DEF Range
<1>4. ASSUME RewriteRow PROVE Range(rows) \subseteq Range(rows')
  <2>1. rows' = Append(Tail(rows), Head(rows)) /\ Len(rows) > 1
    BY <1>4 DEF RewriteRow
  <2> DEFINE n == Len(rows)
  <2>2. n \in Nat /\ DOMAIN rows = 1 .. n /\ Len(Tail(rows)) = n - 1 /\ Tail(rows) \in Seq(Files)
    BY <1>1, <2>1
  <2>3. DOMAIN rows' = 1 .. n /\ rows'[n] = rows[1] /\ \A i \in 1 .. n - 1 : rows'[i] = rows[i + 1]
    BY <1>1, <2>1, <2>2
  <2> DEFINE old == rows  new == rows'
  <2> HIDE DEF n, old, new
  <2>5. /\ DOMAIN old = 1 .. n /\ DOMAIN new = 1 .. n /\ n \in Nat
        /\ new[n] = old[1] /\ \A i \in 1 .. n - 1 : new[i] = old[i + 1]
    BY <2>2, <2>3 DEF old, new
  <2>6. 1 <= n
    BY <2>1 DEF n
  <2>4. ASSUME NEW i \in 1 .. n PROVE \E j \in 1 .. n : old[i] = new[j]
    <3>1. CASE i = 1
      BY <2>5, <2>6, <3>1
    <3>2. CASE i # 1
      <4>1. i - 1 \in 1 .. n - 1 /\ (i - 1) + 1 = i /\ i - 1 \in 1 .. n
        BY <2>5, <3>2
      <4> QED
        BY <2>5, <4>1
    <3> QED
      BY <3>1, <3>2
  <2> QED
    BY <2>4, <2>5 DEF Range, old, new
<1>5. \/ \E f \in Files : PublishFile(f)
      \/ RewriteRow
      \/ rows' = rows
  BY DEF Next, vars, ImportRun, Verify, Hide, SignIn, ChooseSystem, ChooseSaved, CheckSetup, Update, Go
<1> QED
  BY <1>2, <1>3, <1>4, <1>5

Answered == \A h \in Hardware(Request) : Answerable(db, h, Options(Request))

\* In every state the request can be answered.
LEMMA AlwaysAnswered == Typed => Answered
BY RequestAnswerable DEF Answered

(* More memory, more cards or a shorter context loses no model. *)
THEOREM MemoryCorrect == Spec => MoreMemoryNeverHurts
<1> DEFINE Grows == AtLeast(url', url)
           Kept_ == LET before == Results(Request)
                        after == Results(Request')
                    IN \A i \in DOMAIN before : \E j \in DOMAIN after :
                          after[j].variant = before[i].variant /\ Standing(after[j]) >= Standing(before[i])
<1>0. (Typed => Answered)'
  BY AlwaysAnswered, PTL
<1>1. ASSUME Typed, Typed', [Next]_vars, Grows PROVE Kept_
  <2> DEFINE o == Options(Request)
             p == Options(Request')
             G == Hardware(Request)
             H == Hardware(Request')
             a == CustomInput(url)
             b == CustomInput(url')
             g == CHOOSE x \in G : TRUE
             h == CHOOSE x \in H : TRUE
  <2>1. Custom(url) /\ Custom(url') /\ IsTyped(url) /\ IsTyped(url')
    BY <1>1 DEF AtLeast, Typed
  <2>2. G = BuildCustomHardware(db, a)
    <3>1. Mode(url) = "custom" /\ url.d0 # ""
      BY <2>1 DEF Custom, Mode
    <3> QED
      BY <3>1 DEF Hardware, Request
  <2>3. H = BuildCustomHardware(db', b)
    <3>1. Mode(url') = "custom" /\ url'.d0 # ""
      BY <2>1 DEF Custom, Mode
    <3>2. Request'.url = url' /\ Request'.db = db'
      BY DEF Request
    <3> QED
      BY <3>1, <3>2 DEF Hardware
  <2>4. H = BuildCustomHardware(db, b)
    <3>1. db'.devices = db.devices
      BY DEF db
    <3> QED
      BY <2>3, <3>1, SameDevices
  <2>5. InputAtLeast(b, a)
    BY <1>1, <2>1, FormGrows
  <2>6. /\ o.capability = p.capability /\ o.runtime = p.runtime /\ o.commercialOnly = p.commercialOnly /\ p.ctx <= o.ctx
    BY <1>1 DEF AtLeast, Options, Request, Context
  <2>7. Range(db.files) \subseteq Range(db'.files) /\ db.runtimes = db'.runtimes
    BY <1>1, FilesKept DEF db
  <2>8. CASE G = {}
    <3>1. Results(Request) = << >>
      BY <2>8 DEF Results
    <3> QED
      BY <3>1
  <2>9. CASE G # {}
    <3>1. H # {} /\ g \in G /\ h \in H /\ MachineAtLeast(h.spec, g.spec)
      BY <2>2, <2>4, <2>5, <2>9, CustomGrows
    <3>2. Answerable(db, g, o)
      BY <1>1, <3>1, RequestAnswerable
    <3>3. Answerable(db', h, p)
      BY <1>0, <1>1, <3>1 DEF Answered
    <3>4. Results(Request) = RunCompatibility(db, g, o)
      BY <2>9 DEF Results, Request
    <3>5. Results(Request') = RunCompatibility(db', h, p)
      <4>1. Request'.db = db'
        BY DEF Request
      <4> QED
        BY <3>1, <4>1 DEF Results
    <3> HIDE DEF g, h, o, p, G, H
    <3>6. \A r \in Range(RunCompatibility(db, g, o)) :
             \E q \in Range(RunCompatibility(db', h, p)) : q.variant = r.variant /\ Standing(q) >= Standing(r)
      BY <2>6, <2>7, <3>1, <3>2, <3>3, AnswersGrow
    <3> QED
      BY <3>4, <3>5, <3>6 DEF Range
  <2> QED
    BY <2>8, <2>9
<1> QED
  BY <1>1, TypeCorrect, PTL DEF Spec, MoreMemoryNeverHurts
=============================================================================
