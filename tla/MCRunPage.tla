------------------------------ MODULE MCRunPage ------------------------------
(* Instances of RunPage for TLC. Machines, runtimes and files are those of   *)
(* the seed catalog and of everydayDevices, with two additions that only an  *)
(* import could make: a card that Ollama does not support, and a runtime     *)
(* that uses one card only.                                                  *)
EXTENDS RunPage

CONSTANTS ann

Card(slug, gb, bandwidth, backends) ==
    [slug |-> slug, kind |-> "gpu", memory |-> "dedicated", gb |-> gb, bandwidth |-> bandwidth, usable |-> 0, backends |-> backends]

Ti16 == Card("rtx-4060-ti", 16, 288, {"cuda", "vulkan"})
Arc8 == Card("arc", 8, 456, {"vulkan"})
M1 == [slug |-> "apple-m1", kind |-> "soc", memory |-> "unified", gb |-> 0, bandwidth |-> 68, usable |-> 67, backends |-> {"metal", "cpu"}]
M3Max == [slug |-> "apple-m3-max", kind |-> "soc", memory |-> "unified", gb |-> 0, bandwidth |-> 400, usable |-> 0, backends |-> {"metal", "cpu"}]
Ryzen == [slug |-> "ryzen-9", kind |-> "cpu", memory |-> "none", gb |-> 0, bandwidth |-> 0, usable |-> 0, backends |-> {"cpu"}]

System(id, components, ram, ramBandwidth, unified) ==
    [id |-> id, components |-> components, ram |-> ram, ramBandwidth |-> ramBandwidth, unified |-> unified,
     form |-> "desktop", price |-> 0]
One(d) == [device |-> d, count |-> 1]

Budget == System("budget", << One(Ti16), One(Ryzen) >>, 32, 96, 0)
MacM1 == System("macbook-air-m1-8gb", << One(M1) >>, 0, 0, 8)
Mac16 == System("macbook-air-m1-16gb", << One(M1) >>, 0, 0, 16)
MacM3 == System("macbook-pro-m3-8gb", << One(M3Max) >>, 0, 0, 8)

Runtime(id, backends, offload, multiGpu) ==
    [id |-> id, formats |-> {"gguf"}, backends |-> backends, offload |-> offload, multiGpu |-> multiGpu]
LlamaCpp == Runtime("llama.cpp", {"cuda", "rocm", "metal", "vulkan", "cpu"}, TRUE, TRUE)
Ollama == Runtime("Ollama", {"cuda", "rocm", "metal", "cpu"}, TRUE, TRUE)
OneCard == Runtime("one card", {"cuda"}, FALSE, FALSE)

File(id, kind, model, params, bits, size, capabilities) ==
    [id |-> id, kind |-> kind, variant |-> << model, kind >>, model |-> model, format |-> "gguf", bits |-> bits, size |-> size,
     params |-> params, active |-> 1, kvPerToken |-> 12, context |-> 131, capabilities |-> capabilities, commercialUse |-> "allowed"]

Q8 == File("q8", "instruct", "8b", 8, 17, 795, {"chat"})
F16 == File("f16", "instruct", "8b", 8, 32, 1500, {"chat"})
Vision == [File("vision f16", "vision", "8b", 8, 32, 1560, {"vision", "code"}) EXCEPT !.commercialUse = "prohibited"]
Small == File("7b q4", "instruct", "7b", 7, 10, 400, {"chat"})
BaseQ4 == File("7b base", "base", "7b", 7, 10, 390, {})

Measured(id, system, file, runtime, gen) == [id |-> id, system |-> system, artifact |-> file, runtime |-> runtime, gen |-> gen]
RunQ8 == [measurement |-> Measured("run", "budget", "q8", "llama.cpp", 120)]
ByAnn == Measured("ann", "budget", "q8", "Ollama", 260)

MCSaved == {[id |-> "home", components |-> << One(Arc8), One(Ryzen) >>, ram |-> 16, ramBandwidth |-> 0, unified |-> 0,
             owner |-> ann, visibility |-> "private", status |-> "published"]}
MCFiles == {Q8, F16, Vision}
MCBase == << Q8, F16 >>
MCSystems == {Budget, Mac16}
MCDevices == {Ti16, Arc8, M1, Ryzen}
MCRuntimes == << LlamaCpp, OneCard, Ollama >>
MCRuns == {RunQ8}
MCSubmissions == {ByAnn}
MCQuality == [m \in {"7b", "8b"} |-> IF m = "8b" THEN 80 ELSE 60]
Setup(d0, c0, d1, ram, unified) ==
    [NoParameters EXCEPT !.d0 = d0, !.c0 = c0, !.d1 = d1, !.ram = ram, !.unified = unified]
MCSetups ==
    {Setup("rtx-4060-ti", c0, "", ram, NotGiven) : c0 \in {NotGiven, 2}, ram \in {8, 64}}
        \cup {Setup("arc", NotGiven, "rtx-4060-ti", ram, NotGiven) : ram \in {NotGiven, 8}}
        \cup {Setup("apple-m1", NotGiven, "", NotGiven, unified) : unified \in {NotGiven, 8}}
MCFilters == [ctx : {NotGiven, 64}, cap : {"", "code"}, runtime : {""}, commercial : {FALSE}]
                \cup [ctx : {NotGiven}, cap : {""}, runtime : {"Ollama"}, commercial : {TRUE}]

\* The promise of the tiers, with a chip that may use as much as the page reckons with and one that may not.
TierSystems == {MacM1, MacM3}
TierFiles == {Small, BaseQ4}
TierBase == << Small >>
Nothing == {}

\* A file that just fits a card which one of the runtimes does not support, measured on it.
ArcDesktop == System("arc-desktop", << One(Arc8), One(Ryzen) >>, 64, 96, 0)
Q5 == File("q5", "instruct", "8b", 8, 11, 560, {"chat"})
RunQ5 == [measurement |-> Measured("run", "arc-desktop", "q5", "llama.cpp", 500)]
ArcSystems == {ArcDesktop}
ArcBase == << Q5 >>
ArcFiles == {Q5}
ArcRuns == {RunQ5}
=============================================================================
