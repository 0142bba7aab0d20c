---------------------------- MODULE IngestionProofs ----------------------------
(***************************************************************************)
(* Theorems about the ingestion package: its runs and review items, the    *)
(* provenance of a field, and the HTTP client of its adapters.             *)
(*                                                                         *)
(* Runs and review items, for any items, payloads and kinds of payloads,   *)
(* any number of processes, and every bound.  The invariants the run       *)
(* checks are not inductive.  What they lack: only derivatives leave       *)
(* unresolved snapshots, an open review item was raised by a snapshot that *)
(* exists, a process ingests only while its run is running or was          *)
(* abandoned, and one run is running at a time.                            *)
(***************************************************************************)
EXTENDS Ingestion, Provenance, HttpClient, TLAPS

OnlyDerivativesBlock ==
    \A i \in Items, c \in Contents : snapshot[i][c] = "unresolved" => Kind[c] = "derivative"

OpenIsRaised ==
    \A i \in Items, x \in Reasons : review[i][x] = "open" => raisedBy[i][x] \in Contents

WorkIsOfARun ==
    \A r \in Runs : proc[r] \in {"loop", "item"} => run[r] \in {"running", "abandoned"}

OneRunning ==
    \A q, r \in Runs : run[q] = "running" /\ run[r] = "running" => q = r

\* What the process is going to process.
HoldsItem ==
    \A r \in Runs : proc[r] = "item" => held[r] \in [item : Items, content : Contents]

IInv ==
    /\ TypeOK
    /\ OnlyDerivativesBlock
    /\ OpenIsRaised
    /\ WorkIsOfARun
    /\ OneRunning
    /\ HoldsItem
    /\ BlockedIsExplained
    /\ OpenItemsAreCurrent

-----------------------------------------------------------------------------
(* The clause of syncReviewItems.                                          *)

\* It opens what was never raised or superseded, closes what is open and no longer
\* raised, and leaves everything else alone.
LEMMA SyncedKeepsDecisions ==
    ASSUME NEW status \in {"none", "open", "resolved", "dismissed", "superseded"}, NEW x, NEW R
    PROVE  /\ Synced(status, x \in R) \in {"none", "open", "resolved", "dismissed", "superseded"}
           /\ status \in {"resolved", "dismissed"} => Synced(status, x \in R) = status
           /\ Synced(status, x \in R) = "open" => x \in R
           /\ x \in R => Synced(status, x \in R) \in {"open", "resolved", "dismissed"}
<1>1. CASE x \in R
  BY <1>1 DEF Synced
<1>2. CASE x \notin R
  BY <1>2 DEF Synced
<1> QED
  BY <1>1, <1>2

LEMMA RaisedIsReasons ==
    ASSUME NEW i, NEW c
    PROVE  /\ Raised(i, c) \subseteq Reasons
           /\ (Raised(i, c) \cap Blocking # {}) <=> "unknown_base" \in Raised(i, c)
           /\ "unknown_base" \in Raised(i, c) => Kind[c] = "derivative"
BY DEF Raised, Reasons, Blocking

-----------------------------------------------------------------------------
(* One item.                                                               *)

\* What an evaluation does to the snapshots and the review items.
LEMMA EvaluateStep ==
    ASSUME IInv, NEW i \in Items, NEW c \in Contents, Evaluate(i, c), lastSeen' = [lastSeen EXCEPT ![i] = c]
    PROVE  /\ snapshot' \in [Items -> [Contents -> {"none", "processed", "unresolved", "failed"}]]
           /\ lastSeen' \in [Items -> Contents \cup {Nothing}]
           /\ review' \in [Items -> [Reasons -> {"none", "open", "resolved", "dismissed", "superseded"}]]
           /\ raisedBy' \in [Items -> [Reasons -> Contents \cup {Nothing}]]
           /\ mapped' \subseteq Items
           /\ canonical' \in [Items -> Contents \cup {Nothing}]
           /\ OnlyDerivativesBlock' /\ OpenIsRaised' /\ BlockedIsExplained' /\ OpenItemsAreCurrent'
<1> DEFINE R == Raised(i, c)
<1> USE RaisedIsReasons
<1>0. /\ snapshot \in [Items -> [Contents -> {"none", "processed", "unresolved", "failed"}]]
      /\ lastSeen \in [Items -> Contents \cup {Nothing}]
      /\ review \in [Items -> [Reasons -> {"none", "open", "resolved", "dismissed", "superseded"}]]
      /\ raisedBy \in [Items -> [Reasons -> Contents \cup {Nothing}]]
      /\ mapped \subseteq Items
      /\ canonical \in [Items -> Contents \cup {Nothing}]
  BY DEF IInv, TypeOK
<1>1. /\ snapshot'[i][c] = IF "unknown_base" \in R THEN "unresolved" ELSE "processed"
      /\ \A d \in Contents : d # c => snapshot'[i][d] = snapshot[i][d]
      /\ \A j \in Items : j # i => snapshot'[j] = snapshot[j]
      /\ snapshot' \in [Items -> [Contents -> {"none", "processed", "unresolved", "failed"}]]
  BY <1>0 DEF Evaluate
<1>2. /\ \A x \in Reasons : review'[i][x] = Synced(review[i][x], x \in R)
      /\ \A j \in Items : j # i => review'[j] = review[j]
  BY <1>0 DEF Evaluate
<1>3. review' \in [Items -> [Reasons -> {"none", "open", "resolved", "dismissed", "superseded"}]]
  <2>1. \A x \in Reasons :
          Synced(review[i][x], x \in R) \in {"none", "open", "resolved", "dismissed", "superseded"}
    <3> TAKE x \in Reasons
    <3>1. review[i][x] \in {"none", "open", "resolved", "dismissed", "superseded"}
      BY <1>0
    <3> QED
      BY <3>1, SyncedKeepsDecisions
  <2> QED
    BY <1>0, <2>1 DEF Evaluate
<1>4. /\ \A x \in Reasons : raisedBy'[i][x] = IF x \in R THEN c ELSE raisedBy[i][x]
      /\ \A j \in Items : j # i => raisedBy'[j] = raisedBy[j]
      /\ raisedBy' \in [Items -> [Reasons -> Contents \cup {Nothing}]]
  BY <1>0 DEF Evaluate
<1>5. /\ lastSeen'[i] = c
      /\ \A j \in Items : j # i => lastSeen'[j] = lastSeen[j]
      /\ lastSeen' \in [Items -> Contents \cup {Nothing}]
  BY <1>0
<1>6. mapped' \subseteq Items /\ canonical' \in [Items -> Contents \cup {Nothing}]
  BY <1>0 DEF Evaluate
<1>7. \A x \in Reasons : review'[i][x] = "open" => x \in R /\ raisedBy'[i][x] = c
  <2> TAKE x \in Reasons
  <2>1. review[i][x] \in {"none", "open", "resolved", "dismissed", "superseded"}
    BY <1>0
  <2>2. review'[i][x] = "open" => x \in R
    BY <1>2, <2>1, SyncedKeepsDecisions
  <2> QED
    BY <1>4, <2>2
<1>8. OnlyDerivativesBlock'
  BY <1>1 DEF IInv, OnlyDerivativesBlock
<1>9. OpenIsRaised'
  BY <1>2, <1>4, <1>7 DEF IInv, OpenIsRaised
<1>10. BlockedIsExplained'
  <2> SUFFICES ASSUME NEW j \in Items, lastSeen'[j] # Nothing, snapshot'[j][lastSeen'[j]] = "unresolved"
               PROVE  review'[j]["unknown_base"] \in {"open", "resolved", "dismissed"}
    BY DEF BlockedIsExplained, Unresolved
  <2>1. CASE j = i
    <3>1. "unknown_base" \in R
      BY <1>1, <1>5, <2>1
    <3>2. /\ "unknown_base" \in Reasons
          /\ review[i]["unknown_base"] \in {"none", "open", "resolved", "dismissed", "superseded"}
      BY <1>0 DEF Reasons
    <3>3. Synced(review[i]["unknown_base"], "unknown_base" \in R) \in {"open", "resolved", "dismissed"}
      BY <3>1, <3>2, SyncedKeepsDecisions
    <3> QED
      BY <1>2, <2>1, <3>2, <3>3
  <2>2. CASE j # i
    <3>1. lastSeen'[j] = lastSeen[j] /\ snapshot'[j] = snapshot[j]
      BY <1>1, <1>5, <2>2
    <3>2. j \in Unresolved
      BY <3>1 DEF Unresolved
    <3>3. "unknown_base" \in Reasons /\ review'[j] = review[j]
      BY <1>2, <2>2 DEF Reasons
    <3> QED
      BY <3>2, <3>3 DEF IInv, BlockedIsExplained
  <2> QED
    BY <2>1, <2>2
<1>11. OpenItemsAreCurrent'
  <2> SUFFICES ASSUME NEW j \in Items
               PROVE  /\ \A x \in Blocking : review'[j][x] = "open" => snapshot'[j][raisedBy'[j][x]] = "unresolved"
                      /\ \A x, y \in Reasons : review'[j][x] = "open" /\ review'[j][y] = "open"
                                                  => raisedBy'[j][x] = raisedBy'[j][y]
    BY DEF OpenItemsAreCurrent
  <2>1. CASE j = i
    BY <1>1, <1>7, <2>1 DEF Blocking, Reasons
  <2>2. CASE j # i
    BY <1>1, <1>2, <1>4, <2>2 DEF IInv, OpenItemsAreCurrent
  <2> QED
    BY <2>1, <2>2
<1> QED
  BY <1>1, <1>3, <1>4, <1>5, <1>6, <1>8, <1>9, <1>10, <1>11

\* One transaction of processItem.
LEMMA ProcessItemStep ==
    ASSUME IInv, NEW r \in Runs, ProcessItem(r)
    PROVE  IInv'
<1> DEFINE i == held[r].item
           c == held[r].content
<1>1. i \in Items /\ c \in Contents
  BY DEF ProcessItem, IInv, HoldsItem
<1>2. lastSeen' = [lastSeen EXCEPT ![i] = c]
  BY DEF ProcessItem
<1>3. /\ held' = [held EXCEPT ![r] = NoItem] /\ proc' = [proc EXCEPT ![r] = "loop"]
      /\ proc[r] = "item"
      /\ UNCHANGED <<upstream, baseKnown, run, aged, todo, quota, linking, spent>>
  BY DEF ProcessItem
<1>4. WorkIsOfARun' /\ OneRunning' /\ HoldsItem'
  BY <1>3 DEF IInv, TypeOK, WorkIsOfARun, OneRunning, HoldsItem
<1>5. /\ held' \in [Runs -> [item : Items, content : Contents] \cup {NoItem}]
      /\ proc' \in [Runs -> {"new", "abandon", "insert", "loop", "item", "done", "dead"}]
  BY <1>3 DEF IInv, TypeOK
<1>6. CASE Kind[c] # "malformed" /\ snapshot[i][c] \in {"none", "unresolved"} /\ Evaluate(i, c)
  <2>1. TypeOK'
    BY <1>1, <1>2, <1>3, <1>5, <1>6, EvaluateStep DEF IInv, TypeOK
  <2> QED
    BY <1>1, <1>2, <1>4, <1>6, <2>1, EvaluateStep DEF IInv
<1>7. CASE /\ \/ snapshot' = snapshot /\ snapshot[i][c] \in {"processed", "failed"}
              \/ Kind[c] = "malformed" /\ snapshot' = [snapshot EXCEPT ![i][c] = IF @ = "none" THEN "failed" ELSE @]
           /\ UNCHANGED <<review, raisedBy, mapped, canonical>>
  <2>0. /\ snapshot \in [Items -> [Contents -> {"none", "processed", "unresolved", "failed"}]]
        /\ lastSeen \in [Items -> Contents \cup {Nothing}]
        /\ raisedBy \in [Items -> [Reasons -> Contents \cup {Nothing}]]
    BY DEF IInv, TypeOK
  <2>1. /\ snapshot' \in [Items -> [Contents -> {"none", "processed", "unresolved", "failed"}]]
        /\ lastSeen' \in [Items -> Contents \cup {Nothing}]
        /\ \A j \in Items, d \in Contents : snapshot'[j][d] = "unresolved" <=> snapshot[j][d] = "unresolved"
        /\ lastSeen'[i] = c
        /\ \A j \in Items : j # i => lastSeen'[j] = lastSeen[j]
    <3>1. CASE snapshot' = snapshot
      BY <1>1, <1>2, <2>0, <3>1
    <3>2. CASE snapshot' = [snapshot EXCEPT ![i][c] = IF @ = "none" THEN "failed" ELSE @]
      <4>1. /\ snapshot'[i][c] = IF snapshot[i][c] = "none" THEN "failed" ELSE snapshot[i][c]
            /\ \A j \in Items, d \in Contents : j # i \/ d # c => snapshot'[j][d] = snapshot[j][d]
            /\ snapshot' \in [Items -> [Contents -> {"none", "processed", "unresolved", "failed"}]]
        BY <1>1, <2>0, <3>2
      <4>2. snapshot'[i][c] = "unresolved" <=> snapshot[i][c] = "unresolved"
        BY <4>1
      <4> QED
        BY <1>1, <1>2, <2>0, <4>1, <4>2
    <3> QED
      BY <1>7, <3>1, <3>2
  <2>2. TypeOK'
    BY <1>3, <1>5, <1>7, <2>1 DEF IInv, TypeOK
  <2>3. snapshot[i][c] # "unresolved"
    BY <1>1, <1>7 DEF IInv, OnlyDerivativesBlock
  <2>4. OnlyDerivativesBlock' /\ OpenIsRaised'
    BY <1>7, <2>1 DEF IInv, OnlyDerivativesBlock, OpenIsRaised
  <2>5. BlockedIsExplained'
    <3> SUFFICES ASSUME NEW j \in Items, lastSeen'[j] # Nothing, snapshot'[j][lastSeen'[j]] = "unresolved"
                 PROVE  review'[j]["unknown_base"] \in {"open", "resolved", "dismissed"}
      BY DEF BlockedIsExplained, Unresolved
    <3>1. lastSeen'[j] \in Contents
      BY <2>1
    <3>2. j # i
      BY <2>1, <2>3, <3>1
    <3>3. j \in Unresolved
      BY <2>1, <3>1, <3>2 DEF Unresolved
    <3> QED
      BY <1>7, <3>3 DEF IInv, BlockedIsExplained
  <2>6. OpenItemsAreCurrent'
    <3>1. ASSUME NEW j \in Items, NEW x \in Blocking, review'[j][x] = "open"
          PROVE  snapshot'[j][raisedBy'[j][x]] = "unresolved"
      <4>1. x \in Reasons
        BY DEF Blocking, Reasons
      <4>2. raisedBy[j][x] \in Contents
        BY <1>7, <3>1, <4>1 DEF IInv, OpenIsRaised
      <4>3. snapshot[j][raisedBy[j][x]] = "unresolved"
        BY <1>7, <3>1 DEF IInv, OpenItemsAreCurrent
      <4> QED
        BY <1>7, <2>1, <4>2, <4>3
    <3> QED
      BY <1>7, <3>1 DEF IInv, OpenItemsAreCurrent
  <2> QED
    BY <1>4, <2>2, <2>4, <2>5, <2>6 DEF IInv
<1> QED
  BY <1>6, <1>7 DEF ProcessItem, RecordFailure

-----------------------------------------------------------------------------
(* The other steps.                                                        *)

\* An editor closes a review item.
LEMMA ClosedStep ==
    ASSUME IInv, NEW i \in Items, NEW x \in Reasons, NEW s \in {"resolved", "dismissed"},
           review' = [review EXCEPT ![i][x] = s], UNCHANGED <<snapshot, lastSeen, raisedBy>>
    PROVE  /\ review' \in [Items -> [Reasons -> {"none", "open", "resolved", "dismissed", "superseded"}]]
           /\ OnlyDerivativesBlock' /\ OpenIsRaised' /\ BlockedIsExplained' /\ OpenItemsAreCurrent'
<1>1. review \in [Items -> [Reasons -> {"none", "open", "resolved", "dismissed", "superseded"}]]
  BY DEF IInv, TypeOK
<1>2. /\ review' \in [Items -> [Reasons -> {"none", "open", "resolved", "dismissed", "superseded"}]]
      /\ review'[i][x] = s
      /\ \A j \in Items, y \in Reasons : j # i \/ y # x => review'[j][y] = review[j][y]
  BY <1>1
<1>3. \A j \in Items, y \in Reasons : review'[j][y] = "open" => review[j][y] = "open"
  BY <1>2
<1>4. OnlyDerivativesBlock' /\ OpenIsRaised'
  BY <1>3 DEF IInv, OnlyDerivativesBlock, OpenIsRaised
<1>5. BlockedIsExplained'
  <2>1. Unresolved' = Unresolved /\ Unresolved \subseteq Items /\ "unknown_base" \in Reasons
    BY DEF Unresolved, Reasons
  <2> QED
    BY <1>2, <2>1 DEF IInv, BlockedIsExplained
<1>6. OpenItemsAreCurrent'
  <2>1. Blocking \subseteq Reasons
    BY DEF Blocking, Reasons
  <2> QED
    BY <1>3, <2>1 DEF IInv, OpenItemsAreCurrent
<1> QED
  BY <1>2, <1>4, <1>5, <1>6

\* What other steps leave alone.
CatalogFacts == OnlyDerivativesBlock /\ OpenIsRaised /\ BlockedIsExplained /\ OpenItemsAreCurrent
RunFacts == WorkIsOfARun /\ OneRunning /\ HoldsItem

LEMMA CatalogUnchanged ==
    ASSUME CatalogFacts, UNCHANGED <<snapshot, lastSeen, review, raisedBy>>
    PROVE  CatalogFacts'
BY DEF CatalogFacts, OnlyDerivativesBlock, OpenIsRaised, BlockedIsExplained, Unresolved, OpenItemsAreCurrent

LEMMA RunsUnchanged ==
    ASSUME RunFacts, UNCHANGED <<run, proc, held>>
    PROVE  RunFacts'
BY DEF RunFacts, WorkIsOfARun, OneRunning, HoldsItem

\* Steps of the run itself, but for the item.
LEMMA RunStepKeeps ==
    ASSUME IInv, NEW r \in Runs,
           \/ SelectItems(r) \/ AbandonOldRuns(r) \/ InsertRun(r) \/ FetchItem(r) \/ FinishRun(r)
           \/ NextRun(r) \/ FailRun(r) \/ KillRun(r) \/ RunAges(r)
    PROVE  TypeOK' /\ RunFacts'
<1> USE IngestionAssumption DEF IInv
<1>1. CASE SelectItems(r)
  <2>1. Watched \subseteq Items /\ Unresolved \subseteq Items
    BY DEF Unresolved
  <2>2. PICK listed \in SUBSET Items :
          todo' = [todo EXCEPT ![r] = [watched |-> Watched, unresolved |-> Unresolved, listed |-> listed]]
    BY <1>1 DEF SelectItems
  <2>3. [watched |-> Watched, unresolved |-> Unresolved, listed |-> listed]
          \in [watched : SUBSET Items, unresolved : SUBSET Items, listed : SUBSET Items]
    BY <2>1
  <2>4. TypeOK'
    BY <1>1, <2>2, <2>3 DEF SelectItems, TypeOK, catalog
  <2> QED
    BY <1>1, <2>4 DEF SelectItems, TypeOK, RunFacts, WorkIsOfARun, OneRunning, HoldsItem
<1>2. CASE AbandonOldRuns(r)
  <2>1. TypeOK'
    BY <1>2 DEF AbandonOldRuns, TypeOK, catalog
  <2>2. RunFacts'
    BY <1>2 DEF AbandonOldRuns, TypeOK, RunFacts, WorkIsOfARun, OneRunning, HoldsItem
  <2> QED
    BY <2>1, <2>2
<1>3. CASE InsertRun(r)
  <2>1. TypeOK'
    BY <1>3 DEF InsertRun, TypeOK, catalog
  <2>2. RunFacts'
    BY <1>3 DEF InsertRun, Busy, TypeOK, RunFacts, WorkIsOfARun, OneRunning, HoldsItem
  <2> QED
    BY <2>1, <2>2
<1>4. CASE FetchItem(r)
  <2>1. PICK i \in NextItems(r) :
          /\ held' = [held EXCEPT ![r] = [item |-> i, content |-> upstream[i]]]
          /\ todo' = [todo EXCEPT ![r] = [watched |-> @.watched \ {i}, unresolved |-> @.unresolved \ {i},
                                          listed |-> @.listed \ {i}]]
    BY <1>4 DEF FetchItem
  <2>2. todo[r] \in [watched : SUBSET Items, unresolved : SUBSET Items, listed : SUBSET Items]
    BY DEF TypeOK
  <2>3. i \in Items
    BY <2>2 DEF NextItems
  <2>4. [item |-> i, content |-> upstream[i]] \in [item : Items, content : Contents]
    BY <2>3 DEF TypeOK
  <2>5. todo' \in [Runs -> [watched : SUBSET Items, unresolved : SUBSET Items, listed : SUBSET Items]]
    BY <2>1, <2>2 DEF TypeOK
  <2>6. quota' \in [Runs -> Nat]
    <3>1. quota \in [Runs -> Nat]
      BY DEF TypeOK
    <3>2. quota[r] # 0
      BY <1>4 DEF FetchItem, Full
    <3>3. quota' = [quota EXCEPT ![r] = quota[r] - 1]
      BY <1>4 DEF FetchItem
    <3>4. quota[r] - 1 \in Nat
      BY <3>1, <3>2
    <3> QED
      BY <3>1, <3>3, <3>4
  <2>7. TypeOK'
    BY <1>4, <2>1, <2>4, <2>5, <2>6 DEF FetchItem, TypeOK, catalog
  <2> QED
    BY <1>4, <2>1, <2>4, <2>7 DEF FetchItem, TypeOK, RunFacts, WorkIsOfARun, OneRunning, HoldsItem
<1>5. CASE FinishRun(r)
  BY <1>5 DEF FinishRun, TypeOK, catalog, RunFacts, WorkIsOfARun, OneRunning, HoldsItem
<1>6. CASE NextRun(r)
  <2>1. NothingToDo \in [watched : SUBSET Items, unresolved : SUBSET Items, listed : SUBSET Items]
    BY DEF NothingToDo
  <2>2. TypeOK'
    BY <1>6, <2>1 DEF NextRun, TypeOK, catalog
  <2> QED
    BY <1>6, <2>2 DEF NextRun, TypeOK, RunFacts, WorkIsOfARun, OneRunning, HoldsItem
<1>7. CASE FailRun(r)
  BY <1>7 DEF FailRun, Spend, TypeOK, catalog, RunFacts, WorkIsOfARun, OneRunning, HoldsItem
<1>8. CASE KillRun(r)
  BY <1>8 DEF KillRun, Spend, TypeOK, catalog, RunFacts, WorkIsOfARun, OneRunning, HoldsItem
<1>9. CASE RunAges(r)
  BY <1>9 DEF RunAges, Spend, TypeOK, catalog, RunFacts, WorkIsOfARun, OneRunning, HoldsItem
<1> QED
  BY <1>1, <1>2, <1>3, <1>4, <1>5, <1>6, <1>7, <1>8, <1>9

\* Steps of the source and of editors.
LEMMA OutsideKeeps ==
    ASSUME IInv,
           \/ \E i \in Items : SourceChanges(i) \/ BaseAppears(i)
           \/ \E i \in Items, x \in Reasons : Dismiss(i, x) \/ LinkItem(i, x)
           \/ CloseLinked \/ EditorDies
    PROVE  IInv'
<1> USE DEF Spend
<1>0. TypeOK /\ CatalogFacts /\ RunFacts
  BY DEF IInv, CatalogFacts, RunFacts
<1>1. ASSUME NEW i \in Items, SourceChanges(i) \/ BaseAppears(i) PROVE IInv'
  <2>1. TypeOK'
    <3>1. spent' = [spent EXCEPT !["changes"] = @ + 1]
      BY <1>1 DEF SourceChanges, BaseAppears
    <3>2. /\ upstream' \in [Items -> Contents]
          /\ baseKnown' \subseteq Items
      <4>1. CASE SourceChanges(i)
        BY <1>0, <4>1 DEF SourceChanges, TypeOK
      <4>2. CASE BaseAppears(i)
        BY <1>0, <4>2 DEF BaseAppears, TypeOK
      <4> QED
        BY <1>1, <4>1, <4>2
    <3>3. UNCHANGED <<catalog, runVars, linking>>
      BY <1>1 DEF SourceChanges, BaseAppears
    <3> HIDE DEF Spend
    <3> QED
      BY <1>0, <3>1, <3>2, <3>3 DEF TypeOK, catalog, runVars
  <2>2. UNCHANGED <<snapshot, lastSeen, review, raisedBy, run, proc, held>>
    BY <1>1 DEF SourceChanges, BaseAppears, catalog, runVars
  <2> QED
    BY <1>0, <2>1, <2>2, CatalogUnchanged, RunsUnchanged DEF IInv, CatalogFacts, RunFacts
<1>2. ASSUME NEW i \in Items, NEW x \in Reasons, Dismiss(i, x) PROVE IInv'
  <2>1. /\ review' = [review EXCEPT ![i][x] = "dismissed"]
        /\ UNCHANGED <<upstream, snapshot, lastSeen, raisedBy, mapped, canonical, baseKnown,
                       run, aged, proc, todo, quota, held, linking>>
        /\ spent' = [spent EXCEPT !["decisions"] = @ + 1]
    BY <1>2 DEF Dismiss, runVars
  <2>2. TypeOK'
    BY <1>0, <2>1, ClosedStep DEF TypeOK
  <2>3. RunFacts'
    BY <1>0, <2>1, RunsUnchanged
  <2> QED
    BY <2>1, <2>2, <2>3, ClosedStep DEF IInv, RunFacts
<1>3. ASSUME NEW i \in Items, NEW x \in Reasons, LinkItem(i, x) PROVE IInv'
  <2>1. UNCHANGED <<snapshot, lastSeen, review, raisedBy, run, proc, held>>
    BY <1>3 DEF LinkItem, runVars
  <2>2. linking' \in [item : Items, reason : Linkable] \cup {Nobody}
    BY <1>3 DEF LinkItem
  <2>3. TypeOK'
    BY <1>0, <1>3, <2>2 DEF LinkItem, TypeOK, runVars
  <2> QED
    BY <1>0, <2>1, <2>3, CatalogUnchanged, RunsUnchanged DEF IInv, CatalogFacts, RunFacts
<1>4. CASE CloseLinked
  <2>1. linking \in [item : Items, reason : Linkable]
    BY <1>0, <1>4 DEF CloseLinked, TypeOK
  <2>2. linking.item \in Items /\ linking.reason \in Reasons
    BY <2>1 DEF Linkable, Reasons
  <2>3. /\ review' = [review EXCEPT ![linking.item][linking.reason] = "resolved"]
        /\ linking' = Nobody
        /\ UNCHANGED <<upstream, snapshot, lastSeen, raisedBy, mapped, canonical, baseKnown,
                       run, aged, proc, todo, quota, held, spent>>
    BY <1>4 DEF CloseLinked, runVars
  <2>4. TypeOK'
    BY <1>0, <2>2, <2>3, ClosedStep DEF TypeOK
  <2>5. RunFacts'
    BY <1>0, <2>3, RunsUnchanged
  <2> QED
    BY <2>2, <2>3, <2>4, <2>5, ClosedStep DEF IInv, RunFacts
<1>5. CASE EditorDies
  <2>1. UNCHANGED <<snapshot, lastSeen, review, raisedBy, run, proc, held>>
    BY <1>5 DEF EditorDies, catalog, runVars
  <2>2. TypeOK'
    BY <1>0, <1>5 DEF EditorDies, TypeOK, catalog, runVars
  <2> QED
    BY <1>0, <2>1, <2>2, CatalogUnchanged, RunsUnchanged DEF IInv, CatalogFacts, RunFacts
<1> QED
  BY <1>1, <1>2, <1>3, <1>4, <1>5

LEMMA InitIsSafe == Init => IInv
<1> SUFFICES ASSUME Init PROVE IInv
  OBVIOUS
<1> USE IngestionAssumption DEF Init
<1>1. NothingToDo \in [watched : SUBSET Items, unresolved : SUBSET Items, listed : SUBSET Items]
  BY DEF NothingToDo
<1>2. TypeOK
  BY <1>1 DEF TypeOK
<1>3. OnlyDerivativesBlock /\ OpenIsRaised /\ WorkIsOfARun /\ OneRunning /\ HoldsItem
  BY DEF OnlyDerivativesBlock, OpenIsRaised, WorkIsOfARun, OneRunning, HoldsItem
<1>4. BlockedIsExplained
  BY DEF BlockedIsExplained, Unresolved
<1>5. OpenItemsAreCurrent
  BY DEF OpenItemsAreCurrent, Blocking, Reasons
<1> QED
  BY <1>2, <1>3, <1>4, <1>5 DEF IInv

LEMMA NextIsSafe == IInv /\ [Next]_vars => IInv'
<1> SUFFICES ASSUME IInv, [Next]_vars PROVE IInv'
  OBVIOUS
<1>0. TypeOK /\ CatalogFacts /\ RunFacts
  BY DEF IInv, CatalogFacts, RunFacts
<1>1. CASE UNCHANGED vars
  <2>1. UNCHANGED <<snapshot, lastSeen, review, raisedBy, run, proc, held>>
    BY <1>1 DEF vars, catalog, runVars
  <2>2. TypeOK'
    BY <1>0, <1>1 DEF TypeOK, vars, catalog, runVars
  <2> QED
    BY <1>0, <2>1, <2>2, CatalogUnchanged, RunsUnchanged DEF IInv, CatalogFacts, RunFacts
<1>2. ASSUME NEW r \in Runs, ProcessItem(r) PROVE IInv'
  BY <1>2, ProcessItemStep
<1>3. ASSUME NEW r \in Runs,
             \/ SelectItems(r) \/ AbandonOldRuns(r) \/ InsertRun(r) \/ FetchItem(r) \/ FinishRun(r)
             \/ NextRun(r) \/ FailRun(r) \/ KillRun(r) \/ RunAges(r)
      PROVE  IInv'
  <2>1. UNCHANGED <<snapshot, lastSeen, review, raisedBy>>
    BY <1>3 DEF SelectItems, AbandonOldRuns, InsertRun, FetchItem, FinishRun, NextRun, FailRun, KillRun,
                RunAges, catalog
  <2> QED
    BY <1>0, <1>3, <2>1, RunStepKeeps, CatalogUnchanged DEF IInv, CatalogFacts, RunFacts
<1> QED
  BY <1>1, <1>2, <1>3, OutsideKeeps DEF Next, RunStep

-----------------------------------------------------------------------------
(* Theorems.                                                               *)

LEMMA Safe == Spec => []IInv
BY InitIsSafe, NextIsSafe, PTL DEF Spec

\* Runs, snapshots and review items keep their types.
THEOREM TypeCorrect == Spec => []TypeOK
<1>1. IInv => TypeOK
  BY DEF IInv
<1> QED
  BY Safe, <1>1, PTL

\* An item whose latest snapshot is blocked always has a review item that explains it,
\* which is open or was closed by an editor.
THEOREM BlockedIsExplainedHolds == Spec => []BlockedIsExplained
<1>1. IInv => BlockedIsExplained
  BY DEF IInv
<1> QED
  BY Safe, <1>1, PTL

\* What is open was raised by one evaluation, and what blocks points at a snapshot that
\* will be evaluated again.
THEOREM OpenItemsAreCurrentHolds == Spec => []OpenItemsAreCurrent
<1>1. IInv => OpenItemsAreCurrent
  BY DEF IInv
<1> QED
  BY Safe, <1>1, PTL

\* Of any number of processes that ingest the source at once, at most one has not been
\* given up as abandoned.
THEOREM OneUnlessAbandonedHolds == Spec => []OneUnlessAbandoned
<1>1. IInv => OneUnlessAbandoned
  BY DEF IInv, WorkIsOfARun, OneRunning, OneUnlessAbandoned
<1> QED
  BY Safe, <1>1, PTL

\* No run reopens or supersedes what an editor closed.
THEOREM EditorDecisionsStickHolds == Spec => EditorDecisionsStick
<1> DEFINE Sticks == \A i \in Items, x \in Reasons :
        review[i][x] \in {"dismissed", "resolved"} => review'[i][x] \in {"dismissed", "resolved"}
<1>1. IInv /\ [Next]_vars => [Sticks]_vars
  <2> SUFFICES ASSUME IInv, Next, NEW i \in Items, NEW x \in Reasons, review[i][x] \in {"dismissed", "resolved"}
               PROVE  review'[i][x] \in {"dismissed", "resolved"}
    OBVIOUS
  <2>0. review \in [Items -> [Reasons -> {"none", "open", "resolved", "dismissed", "superseded"}]]
    BY DEF IInv, TypeOK
  <2>1. ASSUME NEW r \in Runs, ProcessItem(r) PROVE review'[i][x] \in {"dismissed", "resolved"}
    <3>1. \/ review' = review
          \/ \E j \in Items, c \in Contents :
                review' = [review EXCEPT ![j] = [y \in Reasons |-> Synced(review[j][y], y \in Raised(j, c))]]
      BY <2>1 DEF ProcessItem, RecordFailure, Evaluate, IInv, HoldsItem
    <3>2. ASSUME NEW j \in Items, NEW c \in Contents,
                 review' = [review EXCEPT ![j] = [y \in Reasons |-> Synced(review[j][y], y \in Raised(j, c))]]
          PROVE  review'[i][x] \in {"dismissed", "resolved"}
      <4>1. review'[i][x] = IF i = j THEN Synced(review[i][x], x \in Raised(j, c)) ELSE review[i][x]
        BY <2>0, <3>2
      <4>2. Synced(review[i][x], x \in Raised(j, c)) = review[i][x]
        BY <2>0, SyncedKeepsDecisions
      <4> QED
        BY <4>1, <4>2
    <3> QED
      BY <3>1, <3>2
  <2>2. ASSUME \/ \E r \in Runs : \/ SelectItems(r) \/ AbandonOldRuns(r) \/ InsertRun(r) \/ FetchItem(r)
                                  \/ FinishRun(r) \/ NextRun(r) \/ FailRun(r) \/ KillRun(r) \/ RunAges(r)
               \/ \E j \in Items : SourceChanges(j) \/ BaseAppears(j)
               \/ \E j \in Items, y \in Reasons : LinkItem(j, y)
               \/ EditorDies
        PROVE  review'[i][x] \in {"dismissed", "resolved"}
    <3>1. review' = review
      BY <2>2 DEF SelectItems, AbandonOldRuns, InsertRun, FetchItem, FinishRun, NextRun, FailRun, KillRun, RunAges,
                  SourceChanges, BaseAppears, LinkItem, EditorDies, catalog
    <3> QED
      BY <3>1
  <2>3. ASSUME NEW j \in Items, NEW y \in Reasons, Dismiss(j, y) PROVE review'[i][x] \in {"dismissed", "resolved"}
    BY <2>0, <2>3 DEF Dismiss
  <2>4. CASE CloseLinked
    <3>1. linking.item \in Items /\ linking.reason \in Reasons
      BY <2>4 DEF CloseLinked, IInv, TypeOK, Linkable, Reasons
    <3> QED
      BY <2>0, <2>4, <3>1 DEF CloseLinked
  <2> QED
    BY <2>1, <2>2, <2>3, <2>4 DEF Next, RunStep
<1>2. Spec => [][Sticks]_vars
  BY Safe, <1>1, PTL DEF Spec
<1> QED
  BY <1>2 DEF EditorDecisionsStick

-----------------------------------------------------------------------------
(***************************************************************************)
(* The provenance of a field, for any sources, priorities and values: when *)
(* one process ingests them one after another, and a payload states the    *)
(* field once, the owner of a field outranks every source that states it   *)
(* and the canonical row holds its value.  Neither holds without the two   *)
(* assumptions.                                                            *)
(***************************************************************************)

\* How far transaction p has got, and what that has done to the rows.
Fresh(p) == tx[p].cleared = {} /\ ~tx[p].marked /\ tx[p].wrote = SeedValue

Outranks(p) == \A a \in applied : Priority[a.source] <= Priority[Mine(p).source]

Progress(p) ==
    /\ tx[p].at \in {"insert", "unset", "wait", "set", "apply"} => tx[p].file = 1
    /\ (tx[p].at = "next" /\ tx[p].file = 1) => Fresh(p)
    /\ tx[p].at \in {"insert", "unset", "wait"} => Fresh(p)
    /\ tx[p].at = "insert" => (tx[p].wins <=> Outranks(p))
    /\ tx[p].at \in {"unset", "wait", "set", "apply"} => Outranks(p)
    /\ tx[p].at = "wait" => tx[p].candidates = applied
    /\ tx[p].at = "set" => tx[p].cleared = applied /\ ~tx[p].marked /\ tx[p].wrote = SeedValue
    /\ tx[p].at = "apply" => tx[p].cleared = applied /\ tx[p].marked /\ tx[p].wrote = SeedValue
    /\ (tx[p].at = "next" /\ tx[p].file # 1) =>
          \/ Fresh(p) /\ ~Outranks(p)
          \/ /\ tx[p].cleared = applied /\ tx[p].marked /\ Outranks(p)
             /\ SeenCanonical(p) = Stated(Mine(p))

FieldInv ==
    /\ FieldTypeOK
    /\ AppliedIsCanonical
    /\ HighestPriorityOwns
    /\ \A p \in Procs : Open(p) => Progress(p)

\* One process takes the items of all sources, and a payload states the field once.
Alone == (\E p : Procs = {p}) /\ MaxFiles = 1

\* A payload states one value when MaxFiles is one.
LEMMA OneStatement ==
    ASSUME Alone, NEW a \in Snapshots
    PROVE  Len(a.payload) = 1 /\ a.payload[1] \in Values /\ a.payload[1] # SeedValue
<1>1. 1 .. MaxFiles = {1}
    BY DEF Alone
<1>2. Payloads = [1 .. 1 -> Values]
    BY <1>1 DEF Payloads
<1>3. a.payload \in [1 .. 1 -> Values]
    BY <1>2 DEF Snapshots
<1>4. Len(a.payload) = 1
    BY <1>3
<1> QED
    BY <1>3, <1>4, ProvenanceAssumption

\* The transaction stands before its statement or after it.
LEMMA TwoPlaces == Alone => 1 .. MaxFiles + 1 = {1, 2} /\ MaxFiles + 1 = 2
<1> SUFFICES ASSUME MaxFiles = 1 PROVE 1 .. MaxFiles + 1 = {1, 2} /\ MaxFiles + 1 = 2
    BY DEF Alone
<1>1. MaxFiles + 1 = 2
    OBVIOUS
<1>2. 1 .. 2 = {1, 2}
    OBVIOUS
<1> QED
    BY <1>1, <1>2

\* Initially nothing is asserted, so nothing is owned.
LEMMA FieldInvInit == FieldInit => FieldInv
<1> SUFFICES ASSUME FieldInit PROVE FieldInv
    OBVIOUS
<1>1. FieldTypeOK
    BY DEF FieldInit, FieldTypeOK, NoTx, Open
<1>2. AppliedIsCanonical /\ HighestPriorityOwns
    BY DEF FieldInit, AppliedIsCanonical, HighestPriorityOwns
<1>3. \A p \in Procs : ~Open(p)
    BY DEF FieldInit, Open, NoTx
<1> QED
    BY <1>1, <1>2, <1>3 DEF FieldInv

\* Steps inside a transaction leave the committed rows alone, so that only the
\* record of that transaction has to be looked at.
LEMMA InsideStep ==
    ASSUME FieldInv, Alone, NEW p \in Procs,
           UNCHANGED <<asserted, applied, rowValue, unresolved>>,
           NEW r \in Transaction \cup {NoTx}, Set(p, r),
           r.at # "none" => Progress(p)' /\ (r.wrote # SeedValue => r.marked)
    PROVE  FieldInv'
<1>1. Procs = {p}
    BY DEF Alone
<1>2. tx' = [tx EXCEPT ![p] = r] /\ tx \in [Procs -> Transaction \cup {NoTx}]
    BY DEF Set, FieldInv, FieldTypeOK
<1>3. tx'[p] = r /\ tx' \in [Procs -> Transaction \cup {NoTx}]
    BY <1>2
<1>4. FieldTypeOK'
    BY <1>1, <1>3 DEF FieldInv, FieldTypeOK, Open
<1>5. AppliedIsCanonical' /\ HighestPriorityOwns'
    BY DEF FieldInv, AppliedIsCanonical, HighestPriorityOwns, Stated
<1>6. \A q \in Procs : Open(q)' => Progress(q)'
    BY <1>1, <1>3 DEF Open
<1> QED
    BY <1>4, <1>5, <1>6 DEF FieldInv

\* What the record of an open transaction is.
LEMMA OpenTransaction ==
    ASSUME FieldInv, NEW p \in Procs, Open(p)
    PROVE  tx[p] \in Transaction /\ Progress(p) /\ Mine(p) \in Snapshots
BY DEF FieldInv, FieldTypeOK, Open, NoTx, Transaction, Mine

\* A transaction that begins has done nothing.
LEMMA BeginKeeps == ASSUME FieldInv, Alone, NEW p \in Procs, Begin(p) PROVE FieldInv'
<1>1. PICK a \in Snapshots :
        Set(p, [at |-> "next", snapshot |-> a, file |-> 1, wins |-> FALSE,
                candidates |-> {}, cleared |-> {}, marked |-> FALSE, wrote |-> SeedValue])
    BY DEF Begin
<1> DEFINE r == [at |-> "next", snapshot |-> a, file |-> 1, wins |-> FALSE,
                 candidates |-> {}, cleared |-> {}, marked |-> FALSE, wrote |-> SeedValue]
<1>2. r \in Transaction
    BY DEF Transaction, Alone
<1>3. tx'[p] = r
    BY <1>1 DEF Set, FieldInv, FieldTypeOK
<1>4. Progress(p)'
    BY <1>3 DEF Progress, Fresh
<1>5. UNCHANGED <<asserted, applied, rowValue, unresolved>>
    BY DEF Begin
<1> QED
    BY <1>1, <1>2, <1>4, <1>5, InsideStep

\* The owner selected is the committed one: nobody else writes.
LEMMA SelectOwnerKeeps == ASSUME FieldInv, Alone, NEW p \in Procs, SelectOwner(p) PROVE FieldInv'
<1>1. Open(p)
    BY DEF SelectOwner, Open
<1>2. tx[p] \in Transaction /\ Progress(p) /\ Mine(p) \in Snapshots
    BY <1>1, OpenTransaction
<1>3. tx[p].at = "next" /\ tx[p].file = 1
    <2>1. tx[p].file \in {1, 2}
        BY <1>2, TwoPlaces DEF Transaction
    <2>2. Len(Mine(p).payload) = 1
        BY <1>2, OneStatement
    <2> QED
        BY <2>1, <2>2 DEF SelectOwner
<1>4. Fresh(p)
    BY <1>2, <1>3 DEF Progress
<1> DEFINE r == [tx[p] EXCEPT !.at = "insert", !.wins = Wins(p)]
<1>5. Wins(p) <=> Outranks(p)
    BY <1>4 DEF Wins, Outranks, SeenApplied, Fresh
<1>6. Wins(p) \in BOOLEAN
    BY DEF Wins
<1>7. r \in Transaction /\ r.wrote = tx[p].wrote /\ r.at = "insert"
    BY <1>2, <1>6 DEF Transaction
<1>8. Set(p, r) /\ UNCHANGED <<asserted, applied, rowValue, unresolved>>
    BY DEF SelectOwner
<1>9. tx'[p] = r
    BY <1>8 DEF Set, FieldInv, FieldTypeOK
<1>10. Progress(p)'
    BY <1>2, <1>3, <1>4, <1>5, <1>8, <1>9 DEF Progress, Fresh, Outranks, Mine, Transaction
<1> QED
    BY <1>4, <1>7, <1>8, <1>10, InsideStep DEF Fresh

\* Whoever wins goes on; whoever does not is outranked, and has done nothing.
LEMMA InsertAssertionKeeps == ASSUME FieldInv, Alone, NEW p \in Procs, InsertAssertion(p) PROVE FieldInv'
<1>1. Open(p)
    BY DEF InsertAssertion, Open
<1>2. tx[p] \in Transaction /\ Progress(p) /\ Mine(p) \in Snapshots
    BY <1>1, OpenTransaction
<1>3. tx[p].at = "insert" /\ tx[p].file = 1 /\ Fresh(p) /\ (tx[p].wins <=> Outranks(p))
    BY <1>2 DEF InsertAssertion, Progress
<1> DEFINE r == IF tx[p].wins THEN [tx[p] EXCEPT !.at = "unset"]
                ELSE [tx[p] EXCEPT !.at = "next", !.file = @ + 1]
<1>4. Set(p, r) /\ UNCHANGED <<asserted, applied, rowValue, unresolved>>
    BY DEF InsertAssertion
<1>5. tx'[p] = r
    BY <1>4 DEF Set, FieldInv, FieldTypeOK
<1>6. r \in Transaction /\ r.wrote = tx[p].wrote
    <2>1. 1 \in 1 .. MaxFiles + 1 /\ 2 \in 1 .. MaxFiles + 1
        BY TwoPlaces
    <2>2. CASE tx[p].wins
        BY <1>2, <2>2 DEF Transaction
    <2>3. CASE ~tx[p].wins
        <3>1. r = [tx[p] EXCEPT !.at = "next", !.file = 2]
            BY <1>3, <2>3
        <3> QED
            BY <1>2, <2>1, <3>1 DEF Transaction
    <2> QED
        BY <2>2, <2>3
<1>7. Progress(p)'
    BY <1>2, <1>3, <1>4, <1>5 DEF Progress, Fresh, Outranks, Mine, Transaction
<1> QED
    BY <1>3, <1>4, <1>6, <1>7, InsideStep DEF Fresh

\* The candidates are the applied rows.
LEMMA UnsetKeeps == ASSUME FieldInv, Alone, NEW p \in Procs, Unset(p) PROVE FieldInv'
<1>1. Open(p)
    BY DEF Unset, Open
<1>2. tx[p] \in Transaction /\ Progress(p) /\ Mine(p) \in Snapshots
    BY <1>1, OpenTransaction
<1>3. tx[p].at = "unset" /\ tx[p].file = 1 /\ Fresh(p) /\ Outranks(p)
    BY <1>2 DEF Unset, Progress
<1> DEFINE r == [tx[p] EXCEPT !.at = "wait", !.candidates = SeenApplied(p)]
<1>4. SeenApplied(p) = applied /\ applied \in SUBSET Snapshots
    BY <1>3 DEF SeenApplied, Fresh, FieldInv, FieldTypeOK
<1>5. Set(p, r) /\ UNCHANGED <<asserted, applied, rowValue, unresolved>>
    BY DEF Unset
<1>6. tx'[p] = r
    BY <1>5 DEF Set, FieldInv, FieldTypeOK
<1>7. r \in Transaction /\ r.wrote = tx[p].wrote
    BY <1>2, <1>4 DEF Transaction
<1>8. Progress(p)'
    BY <1>2, <1>3, <1>4, <1>5, <1>6 DEF Progress, Fresh, Outranks, Mine, Transaction
<1> QED
    BY <1>3, <1>5, <1>7, <1>8, InsideStep DEF Fresh

\* Every applied row is cleared, for none was changed since.
LEMMA UnsetRowsKeeps == ASSUME FieldInv, Alone, NEW p \in Procs, UnsetRows(p) PROVE FieldInv'
<1>1. Open(p)
    BY DEF UnsetRows, Open
<1>2. tx[p] \in Transaction /\ Progress(p) /\ Mine(p) \in Snapshots
    BY <1>1, OpenTransaction
<1>3. tx[p].at = "wait" /\ tx[p].file = 1 /\ Fresh(p) /\ Outranks(p) /\ tx[p].candidates = applied
    BY <1>2 DEF UnsetRows, Progress
<1> DEFINE r == [tx[p] EXCEPT !.at = "set", !.cleared = @ \cup StillApplied(p), !.marked = FALSE]
<1>4. tx[p].cleared \cup StillApplied(p) = applied /\ applied \in SUBSET Snapshots
    BY <1>3 DEF StillApplied, Fresh, FieldInv, FieldTypeOK
<1>5. Set(p, r) /\ UNCHANGED <<asserted, applied, rowValue, unresolved>>
    BY DEF UnsetRows
<1>6. tx'[p] = r
    BY <1>5 DEF Set, FieldInv, FieldTypeOK
<1>7. r \in Transaction /\ r.wrote = tx[p].wrote
    BY <1>2, <1>4 DEF Transaction
<1>8. Progress(p)'
    BY <1>2, <1>3, <1>4, <1>5, <1>6 DEF Progress, Fresh, Outranks, Mine, Transaction
<1> QED
    BY <1>3, <1>5, <1>7, <1>8, InsideStep DEF Fresh

\* The source's own row is the one marked.
LEMMA MarkOwnKeeps == ASSUME FieldInv, Alone, NEW p \in Procs, MarkOwn(p) PROVE FieldInv'
<1>1. Open(p)
    BY DEF MarkOwn, Open
<1>2. tx[p] \in Transaction /\ Progress(p) /\ Mine(p) \in Snapshots
    BY <1>1, OpenTransaction
<1>3. /\ tx[p].at = "set" /\ tx[p].file = 1 /\ Outranks(p)
      /\ tx[p].cleared = applied /\ tx[p].wrote = SeedValue
    BY <1>2 DEF MarkOwn, Progress
<1> DEFINE r == [tx[p] EXCEPT !.at = "apply", !.marked = TRUE]
<1>4. Set(p, r) /\ UNCHANGED <<asserted, applied, rowValue, unresolved>>
    BY DEF MarkOwn
<1>5. tx'[p] = r
    BY <1>4 DEF Set, FieldInv, FieldTypeOK
<1>6. r \in Transaction /\ r.wrote = tx[p].wrote
    BY <1>2 DEF Transaction
<1>7. Progress(p)'
    BY <1>2, <1>3, <1>4, <1>5 DEF Progress, Fresh, Outranks, Mine, Transaction
<1> QED
    BY <1>3, <1>4, <1>6, <1>7, InsideStep

\* The canonical row then holds what the payload states.
LEMMA ApplyKeeps == ASSUME FieldInv, Alone, NEW p \in Procs, Apply(p) PROVE FieldInv'
<1>1. Open(p)
    BY DEF Apply, Open
<1>2. tx[p] \in Transaction /\ Progress(p) /\ Mine(p) \in Snapshots
    BY <1>1, OpenTransaction
<1>3. /\ tx[p].at = "apply" /\ tx[p].file = 1 /\ Outranks(p)
      /\ tx[p].cleared = applied /\ tx[p].marked /\ tx[p].wrote = SeedValue
    BY <1>2 DEF Apply, Progress
<1> DEFINE value == Mine(p).payload[1]
           r == [tx[p] EXCEPT !.at = "next", !.file = @ + 1,
                              !.wrote = IF SeenCanonical(p) = value THEN @ ELSE value]
<1>4. value \in Values /\ value # SeedValue /\ value = Stated(Mine(p))
    BY <1>2, OneStatement DEF Stated
<1>5. Set(p, r) /\ UNCHANGED <<asserted, applied, rowValue, unresolved>>
    BY <1>3 DEF Apply
<1>6. tx'[p] = r
    BY <1>5 DEF Set, FieldInv, FieldTypeOK
<1>7. r \in Transaction /\ r.marked
    <2>1. 2 \in 1 .. MaxFiles + 1
        BY TwoPlaces
    <2> DEFINE w == IF SeenCanonical(p) = value THEN tx[p].wrote ELSE value
    <2>2. w \in Values \cup {SeedValue}
        BY <1>3, <1>4
    <2> HIDE DEF w
    <2>3. r = [tx[p] EXCEPT !.at = "next", !.file = 2, !.wrote = w]
        BY <1>3 DEF w
    <2> QED
        BY <1>2, <1>3, <2>1, <2>2, <2>3 DEF Transaction
<1>8. /\ r.at = "next" /\ r.file = 2 /\ r.cleared = applied /\ r.snapshot = Mine(p)
      /\ r.wrote = IF rowValue = value THEN SeedValue ELSE value
    BY <1>2, <1>3 DEF Transaction, SeenCanonical, Mine
<1>9. SeenCanonical(p)' = Stated(Mine(p))' /\ Outranks(p)'
    BY <1>3, <1>4, <1>5, <1>6, <1>8 DEF SeenCanonical, Stated, Mine, Outranks
<1>10. Progress(p)'
    BY <1>5, <1>6, <1>7, <1>8, <1>9 DEF Progress
<1> QED
    BY <1>5, <1>7, <1>10, InsideStep

\* The commit makes the winner the owner, or adds an outranked assertion.
LEMMA CommitOutcome ==
    ASSUME FieldInv, Alone, NEW p \in Procs, Commit(p)
    PROVE  \/ applied' = applied /\ rowValue' = rowValue /\ ~Outranks(p)
           \/ applied' = {Mine(p)} /\ rowValue' = Stated(Mine(p)) /\ Outranks(p)
<1>1. Open(p) /\ tx[p].at = "next"
    BY DEF Commit, Open
<1>2. tx[p] \in Transaction /\ Progress(p) /\ Mine(p) \in Snapshots
    BY <1>1, OpenTransaction
<1>3. tx[p].file # 1
    BY <1>2, OneStatement DEF Commit
<1>4. applied' = SeenApplied(p) /\ rowValue' = SeenCanonical(p)
    BY DEF Commit
<1>5. CASE Fresh(p) /\ ~Outranks(p)
    BY <1>4, <1>5 DEF Fresh, SeenApplied, SeenCanonical
<1>6. CASE /\ tx[p].cleared = applied /\ tx[p].marked /\ Outranks(p)
           /\ SeenCanonical(p) = Stated(Mine(p))
    BY <1>4, <1>6 DEF SeenApplied
<1> QED
    BY <1>1, <1>2, <1>3, <1>5, <1>6 DEF Progress

\* Either outcome preserves the invariant.
LEMMA CommitKeeps == ASSUME FieldInv, Alone, NEW p \in Procs, Commit(p) PROVE FieldInv'
<1>1. Mine(p) \in Snapshots
    BY OpenTransaction DEF Commit, Open
<1>2. tx' = [tx EXCEPT ![p] = NoTx] /\ tx \in [Procs -> Transaction \cup {NoTx}] /\ Procs = {p}
    BY DEF Commit, Set, FieldInv, FieldTypeOK, Alone
<1>3. tx' \in [Procs -> Transaction \cup {NoTx}] /\ \A q \in Procs : ~Open(q)'
    BY <1>2 DEF Open, NoTx
<1>4. asserted' = asserted \cup {Mine(p)} /\ unresolved' \subseteq unresolved \cup {Mine(p)}
    BY DEF Commit
<1>5. applied \subseteq asserted /\ asserted \subseteq Snapshots
    BY DEF FieldInv, FieldTypeOK
<1>6. \A a \in Snapshots : Priority[a.source] \in Nat
    BY ProvenanceAssumption DEF Snapshots
<1>7. CASE applied' = applied /\ rowValue' = rowValue /\ ~Outranks(p)
    <2>1. PICK b \in applied : ~(Priority[b.source] <= Priority[Mine(p).source])
        BY <1>7 DEF Outranks
    <2>2. Priority[Mine(p).source] <= Priority[b.source]
        BY <1>1, <1>5, <1>6, <2>1
    <2>3. HighestPriorityOwns'
        BY <1>4, <1>7, <2>2 DEF FieldInv, HighestPriorityOwns
    <2>4. AppliedIsCanonical'
        BY <1>7 DEF FieldInv, AppliedIsCanonical, Stated
    <2>5. FieldTypeOK'
        BY <1>1, <1>3, <1>4, <1>5, <1>7 DEF FieldInv, FieldTypeOK
    <2> QED
        BY <1>3, <2>3, <2>4, <2>5 DEF FieldInv
<1>8. CASE applied' = {Mine(p)} /\ rowValue' = Stated(Mine(p)) /\ Outranks(p)
    <2>1. ASSUME NEW a \in asserted PROVE Priority[a.source] <= Priority[Mine(p).source]
        <3>1. PICK b \in applied : Priority[a.source] <= Priority[b.source]
            BY DEF FieldInv, HighestPriorityOwns
        <3>2. Priority[b.source] <= Priority[Mine(p).source]
            BY <1>8 DEF Outranks
        <3> QED
            BY <1>1, <1>5, <1>6, <3>1, <3>2
    <2>2. HighestPriorityOwns'
        BY <1>1, <1>4, <1>6, <1>8, <2>1 DEF HighestPriorityOwns
    <2>3. AppliedIsCanonical'
        BY <1>8 DEF AppliedIsCanonical, Stated
    <2>4. Stated(Mine(p)) \in Values
        BY <1>1, OneStatement DEF Stated
    <2>5. FieldTypeOK'
        BY <1>1, <1>3, <1>4, <1>5, <1>8, <2>4 DEF FieldInv, FieldTypeOK
    <2> QED
        BY <1>3, <2>2, <2>3, <2>5 DEF FieldInv
<1> QED
    BY <1>7, <1>8, CommitOutcome

\* A rollback leaves what was committed.
LEMMA RollbackKeeps == ASSUME FieldInv, Alone, NEW p \in Procs, Rollback(p) PROVE FieldInv'
<1>1. Set(p, NoTx) /\ UNCHANGED <<asserted, applied, rowValue, unresolved>>
    BY DEF Rollback
<1>2. NoTx \in Transaction \cup {NoTx} /\ NoTx.at = "none"
    BY DEF NoTx
<1> QED
    BY <1>1, <1>2, InsideStep

\* Every step of the only process preserves the invariant.
LEMMA FieldInvStep == FieldInv /\ Alone /\ [FieldNext]_fieldVars => FieldInv'
<1> SUFFICES ASSUME FieldInv, Alone, [FieldNext]_fieldVars PROVE FieldInv'
    OBVIOUS
<1>1. CASE UNCHANGED fieldVars
    BY <1>1 DEF fieldVars, FieldInv, FieldTypeOK, AppliedIsCanonical, HighestPriorityOwns, Stated, Open, Progress,
                Fresh, Outranks, Mine, SeenCanonical
<1>2. ASSUME NEW p \in Procs, Step(p) PROVE FieldInv'
    BY <1>2, BeginKeeps, SelectOwnerKeeps, InsertAssertionKeeps, UnsetKeeps, UnsetRowsKeeps,
       MarkOwnKeeps, ApplyKeeps, CommitKeeps, RollbackKeeps DEF Step
<1> QED
    BY <1>1, <1>2 DEF FieldNext

\* One process at work: whoever owns a field outranks every source that states it
\* (assertField: "applies it to the canonical row when no higher-priority source
\* currently owns the field").
THEOREM HighestPrioritySafe == ASSUME Alone PROVE FieldSpec => []HighestPriorityOwns
<1>1. FieldInv /\ [FieldNext]_fieldVars => FieldInv'
    BY FieldInvStep
<1>2. FieldInv => HighestPriorityOwns
    BY DEF FieldInv
<1> QED
    BY <1>1, <1>2, FieldInvInit, PTL DEF FieldSpec

\* One process at work: the canonical row holds what its applied assertion states
\* (schema/ingest.ts on fieldAssertion.applied).
THEOREM AppliedSafe == ASSUME Alone PROVE FieldSpec => []AppliedIsCanonical
<1>1. FieldInv /\ [FieldNext]_fieldVars => FieldInv'
    BY FieldInvStep
<1>2. FieldInv => AppliedIsCanonical
    BY DEF FieldInv
<1> QED
    BY <1>1, <1>2, FieldInvInit, PTL DEF FieldSpec

\* One process at work: what the row holds changes only in favour of a source that
\* outranks the owner it had (assertField, `wins`).
THEOREM NoDowngradeHolds == ASSUME Alone PROVE FieldSpec => NoDowngrade
<1> DEFINE Ratchet == rowValue' # rowValue =>
          \E b \in applied' : \A a \in applied : Priority[a.source] <= Priority[b.source]
<1>1. FieldInv /\ [FieldNext]_fieldVars => FieldInv'
    BY FieldInvStep
<1>2. FieldInv /\ [FieldNext]_fieldVars => [Ratchet]_fieldVars
    <2> SUFFICES ASSUME FieldInv, FieldNext, rowValue' # rowValue PROVE Ratchet
        BY DEF fieldVars
    <2>1. PICK p \in Procs : Commit(p)
        BY DEF FieldNext, Step, Begin, SelectOwner, InsertAssertion, Unset, UnsetRows, MarkOwn, Apply, Rollback
    <2>2. applied' = {Mine(p)} /\ Outranks(p)
        BY <2>1, CommitOutcome
    <2> QED
        BY <2>2 DEF Outranks
<1> QED
    BY <1>1, <1>2, FieldInvInit, PTL DEF FieldSpec, NoDowngrade

-----------------------------------------------------------------------------
(***************************************************************************)
(* The HTTP client, for every choice of retries, waits and spacing and     *)
(* every delay a server may announce.                                      *)
(*                                                                         *)
(* The client keeps no record of why it waits: the spacing and the end of  *)
(* an exhausted window live in `lastRequestAt`, which may lie in the       *)
(* future, and a delay only in the time that has passed.  The inductive    *)
(* invariant says what both are worth wherever a request may follow.       *)
(***************************************************************************)

\* `lastRequestAt` is the latest request; between requests it may stand for the end of
\* the window that request exhausted.
RecordsRequest ==
    /\ sentAt <= now
    /\ (pc \in {"flight", "answer"} \/ resetAt = NoHeader) => lastRequestAt = sentAt
    /\ (pc \in {"idle", "pace"} /\ resetAt # NoHeader) => lastRequestAt = resetAt - MinInterval

\* Before a retry the delay the server named has passed.
DelayServed ==
    (pc = "pace" /\ attempt > 0 /\ response.retryAfter # NoHeader)
        => now >= sentAt + response.retryAfter

ClientInv == ClientTypeOK /\ RecordsRequest /\ DelayServed

-----------------------------------------------------------------------------
\* A delay of the client's own is a number, however often it has been doubled.
LEMMA BackoffIsNat == ClientTypeOK => Backoff \subseteq Nat
<1> SUFFICES ASSUME ClientTypeOK, NEW j \in 0 .. Jitter PROVE Smaller(MaxWait, 2 ^ attempt + j) \in Nat
  BY DEF Backoff
<1>1. 2 ^ attempt \in Nat
  BY HttpClientAssumption DEF ClientTypeOK
<1> QED
  BY <1>1, HttpClientAssumption DEF Smaller

\* What a typed response says.
LEMMA ResponseShape ==
    ASSUME NEW r \in Response \cup {NoResponse}
    PROVE  /\ r.retryAfter \in Nat \cup {NoHeader} /\ r.reset \in Nat \cup {NoHeader}
<1>1. CASE r = NoResponse
  BY <1>1 DEF NoResponse
<1>2. CASE r \in Response
  BY <1>2, HttpClientAssumption DEF Response
<1> QED
  BY <1>1, <1>2

\* A request keeps the invariant: whatever was waited for, it is on record.
LEMMA PaceStep == ClientInv /\ Pace => ClientInv'
<1> SUFFICES ASSUME ClientInv, Pace PROVE ClientInv'
  OBVIOUS
<1> USE HttpClientAssumption DEF ClientInv, Pace, Larger
<1>1. ClientTypeOK'
  BY DEF ClientTypeOK
<1>2. RecordsRequest' /\ DelayServed'
  BY <1>1 DEF RecordsRequest, DelayServed, ClientTypeOK
<1> QED
  BY <1>1, <1>2

\* So does an answer, after any latency.
LEMMA AnswerStep == ClientInv /\ Answer => ClientInv'
<1> SUFFICES ASSUME ClientInv, Answer PROVE ClientInv'
  OBVIOUS
<1> USE HttpClientAssumption DEF ClientInv, Answer
<1>1. ClientTypeOK'
  BY DEF ClientTypeOK
<1>2. RecordsRequest' /\ DelayServed'
  BY <1>1 DEF RecordsRequest, DelayServed, ClientTypeOK
<1> QED
  BY <1>1, <1>2

\* The end of a successful call: an exhausted window is written into `lastRequestAt`.
LEMMA SucceedStep == ClientInv /\ Succeed => ClientInv'
<1> SUFFICES ASSUME ClientInv, Succeed PROVE ClientInv'
  OBVIOUS
<1> USE HttpClientAssumption DEF ClientInv, Succeed, Exhausted, Ends
<1>0. response.reset \in Nat \cup {NoHeader}
  BY ResponseShape DEF ClientTypeOK
<1>1. ClientTypeOK'
  BY <1>0 DEF ClientTypeOK, Outcome
<1>2. RecordsRequest' /\ DelayServed'
  BY <1>0, <1>1 DEF RecordsRequest, DelayServed, ClientTypeOK
<1> QED
  BY <1>1, <1>2

\* The rejected fetch waits as long as the client likes: no delay was named.
LEMMA FetchFailedStep == ClientInv /\ FetchFailed => ClientInv'
<1> SUFFICES ASSUME ClientInv, FetchFailed PROVE ClientInv'
  OBVIOUS
<1> USE HttpClientAssumption DEF ClientInv, FetchFailed, Ends, Retries
<1>0. response.retryAfter = NoHeader
  BY DEF NoResponse
<1>1. ClientTypeOK'
  BY BackoffIsNat DEF ClientTypeOK, Outcome
<1>2. RecordsRequest' /\ DelayServed'
  BY <1>0, <1>1, BackoffIsNat DEF RecordsRequest, DelayServed, ClientTypeOK
<1> QED
  BY <1>1, <1>2

\* Any other answer: a named delay is served in full, or the call ends.
LEMMA RefusedStep == ClientInv /\ Refused => ClientInv'
<1> SUFFICES ASSUME ClientInv, Refused PROVE ClientInv'
  OBVIOUS
<1> USE HttpClientAssumption DEF ClientInv
<1>0. response.retryAfter \in Nat \cup {NoHeader} /\ response.reset \in Nat \cup {NoHeader}
  BY ResponseShape DEF ClientTypeOK
<1>1. pc = "answer" /\ resetAt' = NoHeader /\ UNCHANGED <<lastRequestAt, sentAt, response, gets>>
  BY DEF Refused
<1>2. CASE \E delay \in Nat : /\ attempt < MaxRetries /\ Retries(delay) /\ UNCHANGED outcome
                              /\ response.retryAfter \in {NoHeader, delay}
  <2>1. ClientTypeOK'
    BY <1>1, <1>2 DEF Retries, ClientTypeOK
  <2>2. RecordsRequest' /\ DelayServed'
    BY <1>0, <1>1, <1>2, <2>1 DEF Retries, RecordsRequest, DelayServed, ClientTypeOK
  <2> QED
    BY <2>1, <2>2
<1>3. CASE UNCHANGED <<now, attempt>> /\ \E how \in {"httpError", "rateLimitError"} : Ends(how)
  <2>1. ClientTypeOK'
    BY <1>1, <1>3 DEF Ends, ClientTypeOK, Outcome
  <2>2. RecordsRequest' /\ DelayServed'
    BY <1>1, <1>3, <2>1 DEF Ends, RecordsRequest, DelayServed, ClientTypeOK
  <2> QED
    BY <2>1, <2>2
<1>4. \/ \E delay \in Nat : /\ attempt < MaxRetries /\ Retries(delay) /\ UNCHANGED outcome
                            /\ response.retryAfter \in {NoHeader, delay}
      \/ UNCHANGED <<now, attempt>> /\ \E how \in {"httpError", "rateLimitError"} : Ends(how)
  <2>1. CASE MayRetry /\ RetryDelay = NoHeader /\ \E delay \in Backoff : Retries(delay)
    BY <1>0, <2>1, BackoffIsNat DEF Refused, MayRetry, RetryDelay, Ends, Retries
  <2>2. CASE MayRetry /\ RetryDelay # NoHeader /\ RetryDelay <= MaxWait /\ Retries(RetryDelay)
    BY <1>0, <2>2 DEF Refused, MayRetry, RetryDelay, Ends, Retries
  <2>3. CASE UNCHANGED <<now, attempt>>
    BY <2>3 DEF Refused, Retries, ClientTypeOK, Ends
  <2> QED
    BY <2>1, <2>2, <2>3 DEF Refused
<1> QED
  BY <1>2, <1>3, <1>4

\* The invariant is inductive.
LEMMA ClientInvStep == ClientInv /\ [ClientNext]_clientVars => ClientInv'
<1> SUFFICES ASSUME ClientInv, [ClientNext]_clientVars PROVE ClientInv'
  OBVIOUS
<1>1. CASE Get
  BY <1>1, HttpClientAssumption DEF ClientInv, Get, ClientTypeOK, RecordsRequest, DelayServed
<1>2. CASE NotModified
  <2>1. ClientTypeOK'
    BY <1>2 DEF ClientInv, NotModified, Ends, ClientTypeOK, Outcome
  <2> QED
    BY <1>2, <2>1 DEF ClientInv, NotModified, Ends, RecordsRequest, DelayServed
<1>3. CASE UNCHANGED clientVars
  BY <1>3 DEF clientVars, ClientInv, ClientTypeOK, RecordsRequest, DelayServed
<1> QED
  BY <1>1, <1>2, <1>3, PaceStep, AnswerStep, SucceedStep, FetchFailedStep, RefusedStep DEF ClientNext

\* The invariant holds initially.
LEMMA ClientInvInit == ClientInit => ClientInv
<1> SUFFICES ASSUME ClientInit PROVE ClientInv
  OBVIOUS
<1> USE HttpClientAssumption DEF ClientInit
<1>1. ClientTypeOK
  BY DEF ClientTypeOK, Outcome
<1>2. RecordsRequest /\ DelayServed
  BY DEF RecordsRequest, DelayServed, NoResponse
<1> QED
  BY <1>1, <1>2 DEF ClientInv

\* The inductive invariant holds in every reachable state.
THEOREM ClientSafe == ClientSpec => []ClientInv
BY ClientInvInit, ClientInvStep, PTL DEF ClientSpec

\* Type correctness: the clock, the record of the latest request and the answer keep their shapes.
THEOREM ClientTypeCorrect == ClientSpec => []ClientTypeOK
<1>1. ClientInv => ClientTypeOK
  BY DEF ClientInv
<1> QED
  BY <1>1, ClientSafe, PTL

\* No request leaves before the end of a window the one before it exhausted, and no retry
\* before the delay the server named is over (http.ts: retryDelayMs, applyRateLimitHeaders).
THEOREM ServerIsObeyedHolds == ClientSpec => ServerIsObeyed
<1> DEFINE Obeys == Pace => /\ resetAt # NoHeader => sentAt' >= resetAt
                            /\ (attempt > 0 /\ response.retryAfter # NoHeader)
                                  => sentAt' >= sentAt + response.retryAfter
<1>1. ClientInv /\ [ClientNext]_clientVars => [Obeys]_clientVars
  <2> SUFFICES ASSUME ClientInv, Pace PROVE Obeys
    BY DEF clientVars
  <2>1. response.retryAfter \in Nat \cup {NoHeader}
    BY ResponseShape DEF ClientInv, ClientTypeOK
  <2> QED
    BY <2>1, HttpClientAssumption DEF ClientInv, ClientTypeOK, Pace, Larger, RecordsRequest, DelayServed
<1>2. ClientSpec => [][Obeys]_clientVars
  BY <1>1, ClientSafe, PTL DEF ClientSpec
<1> QED
  BY <1>2 DEF ServerIsObeyed

\* Requests keep their distance, retries included, unless the window of the earlier one has
\* ended since (http.ts: pace).
THEOREM SpacedOrAfterResetHolds == ClientSpec => SpacedOrAfterReset
<1> DEFINE Spaced == Pace => sentAt' >= sentAt + MinInterval \/ (resetAt # NoHeader /\ sentAt' >= resetAt)
<1>1. ClientInv /\ [ClientNext]_clientVars => [Spaced]_clientVars
  <2> SUFFICES ASSUME ClientInv, Pace PROVE Spaced
    BY DEF clientVars
  <2> QED
    BY HttpClientAssumption DEF ClientInv, ClientTypeOK, Pace, Larger, RecordsRequest
<1>2. ClientSpec => [][Spaced]_clientVars
  BY <1>1, ClientSafe, PTL DEF ClientSpec
<1> QED
  BY <1>2 DEF SpacedOrAfterReset
===============================================================================
