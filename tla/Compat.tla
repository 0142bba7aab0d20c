------------------------------- MODULE Compat -------------------------------
(***************************************************************************)
(* The compatibility engine of packages/domain/src/compat.ts: which file   *)
(* of a model runs on which machine with which runtime, and how fast.      *)
(* Memory counts in hundredths of a GiB, device memory and RAM in GiB,     *)
(* contexts in thousands of tokens, precision in half bits per weight,     *)
(* speeds in tenths of a token a second; 0 stands for a value that is not  *)
(* known (the code tests it as falsy).  Sorts are stable, as in the code.  *)
(***************************************************************************)
EXTENDS Lists

DefaultUnifiedUsable == 75
DedicatedUsable == 95
SystemRamUsable == 80
BaseOverhead == 50

Fits == {"full", "tight", "offload", "none"}
FitRank == [full |-> 3, tight |-> 2, offload |-> 1, none |-> 0]
BasisRank == [measured |-> 2, estimated |-> 1, unknown |-> 0]

----------------------------------------------------------------------------
(* Memory a file needs. A file has either a size or is reckoned from its   *)
(* parameters (billions) and bits per weight; 1 GiB is 1.074 GB.           *)

AtMost(m, n) == IF m < n THEN m ELSE n

WeightsGb(a) == IF a.size # 0 THEN a.size ELSE (a.params * a.bits * 100000) \div (16 * 1074)

KvCacheGb(a, ctx) == a.kvPerToken * ctx

TotalGb(a, ctx) ==
    LET w == WeightsGb(a) IN w + KvCacheGb(a, AtMost(ctx, a.context)) + BaseOverhead + (w * 4) \div 100

\* What the engine is given: every count is a number, and a file has some weights.
IsFile(a) ==
    /\ {a.bits, a.size, a.params, a.active, a.kvPerToken, a.context} \subseteq Nat
    /\ a.active # 0 => a.params # 0
    /\ WeightsGb(a) > 0

IsDevice(d) == {d.gb, d.bandwidth, d.usable} \subseteq Nat

IsMachine(hw) ==
    /\ {hw.ram, hw.ramBandwidth, hw.unified} \subseteq Nat
    /\ hw.components \in Seq(Range(hw.components))
    /\ \A i \in DOMAIN hw.components : IsDevice(hw.components[i].device) /\ hw.components[i].count \in Nat

----------------------------------------------------------------------------
(* Memory a machine offers to a runtime: one pool per card of a device     *)
(* whose backends the runtime shares, one for a unified memory.            *)

SharedBackends(d, rt) == (d.backends \cap rt.backends) \ {"cpu"}

DevicePools(hw, c, rt) ==
    IF SharedBackends(c.device, rt) = {} THEN << >>
    ELSE CASE c.device.memory = "dedicated" /\ c.device.gb # 0 ->
                 [i \in 1..c.count |-> [gb |-> c.device.gb * DedicatedUsable, bandwidth |-> c.device.bandwidth]]
           [] c.device.memory = "unified" /\ hw.unified # 0 ->
                 << [gb |-> hw.unified * (IF c.device.usable # 0 THEN c.device.usable ELSE DefaultUnifiedUsable),
                     bandwidth |-> c.device.bandwidth] >>
           [] OTHER -> << >>

AcceleratorPools(hw, rt) ==
    LET all == FlattenSeq(Each(hw.components, LAMBDA c : DevicePools(hw, c, rt)))
        largest == SortedBy(all, LAMBDA p : << p.gb >>)
    IN IF rt.multiGpu \/ Len(all) <= 1 THEN all ELSE << Head(largest) >>

CpuAvailable(hw, rt) ==
    /\ "cpu" \in rt.backends
    /\ hw.ram > 0 \/ \E i \in DOMAIN hw.components : "cpu" \in hw.components[i].device.backends

PoolsGb(pools) == SumOver(pools, LAMBDA p : p.gb)

----------------------------------------------------------------------------
(* Where a need of `total` goes: into accelerator memory, into RAM when    *)
(* there is no accelerator, or into both when the runtime can offload.     *)

WithinMemory(total, gb) == IF total * 10 > gb * 9 THEN "tight" ELSE "full"

\* A bug to rule out: what overflows RAM alone is offloaded to the accelerator, not the other way round.
OffloadFromRam(total, accel, ram, hasPools, cpu, offload) ==
    CASE hasPools /\ total <= accel -> WithinMemory(total, accel)
      [] ~hasPools /\ total <= ram -> WithinMemory(total, ram)
      [] hasPools /\ total > accel /\ cpu /\ offload /\ total > ram /\ total <= accel + ram -> "offload"
      [] OTHER -> "none"

FitOf(total, accel, ram, hasPools, cpu, offload) ==
    CASE hasPools /\ total <= accel -> WithinMemory(total, accel)
      [] ~hasPools /\ total <= ram -> WithinMemory(total, ram)
      [] hasPools /\ total > accel /\ cpu /\ offload /\ total <= accel + ram -> "offload"
      [] OTHER -> "none"

PlacementOf(fit, hasPools) ==
    CASE fit = "none" -> "nowhere"
      [] fit = "offload" -> "hybrid"
      [] OTHER -> IF hasPools THEN "accelerator" ELSE "cpu"

----------------------------------------------------------------------------
(* Speed. An estimate adds up, over the memories that hold a part of the   *)
(* weights, the bytes read from it per token by its bandwidth; it needs    *)
(* every such bandwidth. 65% of the result is realised, less 5% for every  *)
(* further device.                                                         *)

SegmentTime(gb, bandwidth) == (gb * 1000) \div bandwidth

EstimateDecodeTps(a, pools, placement, offloaded, hw) ==
    LET w == WeightsGb(a)
        read == (IF a.active # 0 THEN (w * a.active) \div a.params ELSE w) + 50
        onAccel == IF placement = "cpu" THEN 0 ELSE w - AtMost(offloaded, w)
        readAccel == (read * onAccel) \div w
        used == IF onAccel > 0 THEN pools ELSE << >>
        time == SumOver(used, LAMBDA p : SegmentTime((readAccel * p.gb) \div PoolsGb(pools), p.bandwidth))
                + (IF onAccel < w THEN SegmentTime(read - readAccel, hw.ramBandwidth) ELSE 0)
        known == /\ \A i \in DOMAIN used : used[i].bandwidth # 0
                 /\ onAccel < w => hw.ramBandwidth # 0
        further == IF placement = "cpu" THEN 0 ELSE Len(pools) - 1
    IN IF known /\ time > 0 THEN ((605383 \div time) * (100 - 5 * further)) \div 100 ELSE 0

(* The middle of the known values, half-way between the two middle ones.   *)
Median(values) ==
    LET s == SortedBy(values, LAMBDA v : << v >>)
        mid == Len(s) \div 2
    IN CASE s = << >> -> 0
         [] Len(s) % 2 = 1 -> s[mid + 1]
         [] OTHER -> (s[mid] + s[mid + 1]) \div 2

SpeedOf(a, rt, hw, pools, placement, offloaded, measurements) ==
    LET measured == {m \in measurements : m.system = hw.id /\ m.artifact = a.id /\ m.runtime = rt.id}
        speeds == Each(SetToSeq({m \in measured : m.gen # 0}), LAMBDA m : m.gen)
        estimate == EstimateDecodeTps(a, pools, placement, offloaded, hw)
    IN CASE placement # "nowhere" /\ measured # {} -> [basis |-> "measured", gen |-> Median(speeds)]
         [] placement # "nowhere" /\ measured = {} /\ estimate # 0 -> [basis |-> "estimated", gen |-> estimate]
         [] OTHER -> [basis |-> "unknown", gen |-> 0]

(* One file with one runtime on one machine. *)
Evaluate(hw, a, rt, ctx, measurements) ==
    LET pools == AcceleratorPools(hw, rt)
        accel == PoolsGb(pools)
        ram == hw.ram * SystemRamUsable
        total == TotalGb(a, ctx)
        cpu == CpuAvailable(hw, rt)
        runs == a.format \in rt.formats /\ (pools # << >> \/ cpu)
        fit == IF runs THEN FitOf(total, accel, ram, pools # << >>, cpu, rt.offload) ELSE "none"
        placement == PlacementOf(fit, pools # << >>)
        offloaded == IF fit = "offload" THEN total - accel ELSE 0
    IN [artifact |-> a.id, runtime |-> rt.id, bits |-> a.bits, fit |-> fit, placement |-> placement,
        total |-> total, accel |-> accel, ram |-> ram, offloaded |-> offloaded,
        speed |-> SpeedOf(a, rt, hw, pools, placement, offloaded, measurements)]

----------------------------------------------------------------------------
(* Ranking.                                                                *)

CompareKey(r) == << FitRank[r.fit], BasisRank[r.speed.basis], r.speed.gen >>

EvaluateAcrossRuntimes(hw, a, runtimes, ctx, measurements) ==
    SortedBy(Each(runtimes, LAMBDA rt : Evaluate(hw, a, rt, ctx, measurements)), CompareKey)

QualityCeiling == 17

InMemory(r) == r.fit \in {"full", "tight"}

InMemoryKey(r) == << BasisRank[r.speed.basis], AtMost(r.bits, QualityCeiling), FitRank[r.fit], r.speed.gen >>
OffloadKey(r) == << BasisRank[r.speed.basis], r.speed.gen, r.bits >>

\* A bug to rule out: the file stored first wins among those that fit, whatever its precision.
FirstThatFits(results) ==
    LET viable == Select(results, LAMBDA r : r.fit # "none")
        inMemory == Select(viable, InMemory)
    IN IF inMemory # << >> THEN SortedBy(inMemory, LAMBDA r : << BasisRank[r.speed.basis], FitRank[r.fit] >>)
       ELSE SortedBy(viable, LAMBDA r : << BasisRank[r.speed.basis] >>)

(* The results with the recommended one first; empty when nothing runs. *)
PickRecommended(results) ==
    LET viable == Select(results, LAMBDA r : r.fit # "none")
        inMemory == Select(viable, InMemory)
    IN IF inMemory # << >> THEN SortedBy(inMemory, InMemoryKey) ELSE SortedBy(viable, OffloadKey)
=============================================================================
