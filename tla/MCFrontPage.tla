----------------------------- MODULE MCFrontPage -----------------------------
(* Instances of FrontPage for TLC: a runtime with a release of every level,  *)
(* a lab with a model, a feed that covers both, and the seed's fixtures.     *)
EXTENDS FrontPage

Tag(major, minor, patch) ==
    [build |-> FALSE, prefixed |-> FALSE, major |-> major, minor |-> minor, patch |-> patch, further |-> FALSE]

Text(name) == [substantive |-> TRUE, text |-> name]
Blank == [substantive |-> FALSE, text |-> ""]

Said(key, source, sourceKind, offsets, kind, title, tag, notes, entities) ==
    [key |-> key, source |-> source, sourceKind |-> sourceKind, offsets |-> offsets, feed |-> sourceKind = "rss", kind |-> kind,
     title |-> title, tag |-> tag, notes |-> notes, entities |-> entities]
Release(key, title, tag, notes) ==
    Said(key, "github", "github", {-3, 0}, "runtime_release", title, tag, notes, << "engine" >>)

Major == Release(1, "engine v2.0.0", Tag(2, 0, 0), Text("boilerplate"))
Edited == [Major EXCEPT !.title = "engine v2.1.0", !.tag = Tag(2, 1, 0), !.notes = Blank]
Hotfix == Release(2, "engine v2.0.1", Tag(2, 0, 1), Text("boilerplate"))
Minor == Release(3, "engine v1.9.0", Tag(1, 9, 0), Text("boilerplate"))
Covered == Said(1, "feed", "rss", {0}, "runtime_release", "two point oh", NoTag, Blank, << "lab", "engine" >>)
Echoed == [Covered EXCEPT !.source = "echo", !.entities = << "engine" >>]
Weights == Said(4, "feed", "rss", {0, 3}, "model_release", "weights", NoTag, Blank, << "lab" >>)

Fixture(id, at, kind, title) ==
    [id |-> id, kind |-> kind, title |-> title, tag |-> NoTag, notes |-> Blank, at |-> at, source |-> "seed",
     sourceKind |-> "fixture", links |-> {[entity |-> "lab", role |-> "subject"]}]

MCReports == {Major, Edited, Hotfix, Minor, Covered, Weights}
MCSeeded == {Fixture(9, 60 * Day - 1, "model_release", "weights")}
MCNames == << "engine", "lab" >>
MCCounters == {<< "engine", "stars" >>}
MCTicks == {14, 29}
None == {}
RaceReports == {Covered, Echoed}
ChainReports == {[r EXCEPT !.offsets = {-3, -1, 2}] : r \in {Major, Hotfix, Minor}}
=============================================================================
