----------------------------- MODULE Enrichment -----------------------------
(***************************************************************************)
(* The derived texts kept by the job queue: enrich.entity in               *)
(* apps/worker/src/handlers.ts and runEnrichment in                        *)
(* packages/db/src/enrichment.ts, beside the search index and under the    *)
(* same queue, writers and crashes (SearchIndex).                          *)
(*                                                                         *)
(* A dedupe key is `search.reindex:<id>` or `enrich:<id>`; a transaction   *)
(* writes one entity and enqueues under one of its keys.  A run reads the  *)
(* facts, compares their hash with the current text's, waits for the       *)
(* provider and stores what came back, each in a step of its own.          *)
(*                                                                         *)
(* Abstractions.  A provider is configured, and one task applies to every  *)
(* subject (the other entity kinds are `not_applicable`).  An input hash   *)
(* is the input.  A provider that throws, and an output that is rejected,  *)
(* are handlers that throw: GiveBack.                                      *)
(***************************************************************************)
EXTENDS SearchIndex, Sequences

CONSTANTS
    Subjects,      \* the keys `enrich:<id>`
    InputOf        \* the request built from each version of an entity

ASSUME EnrichmentAssumption ==
    /\ Subjects \subseteq Keys
    /\ DOMAIN InputOf = 0 .. MaxEdits

VARIABLES
    texts,     \* ecosystem.derived_content of each subject, oldest first
    writing    \* the calls of runEnrichment: [by, copy, version, at, old]

enrichVars == <<texts, writing>>
everything == <<allVars, enrichVars>>

EnrichInit ==
    /\ IndexInit
    /\ texts = [k \in Subjects |-> <<>>]
    /\ writing = {}

\* The rows whose superseded_at is null, by position.
Current(k) == {i \in DOMAIN texts[k] : ~texts[k][i].superseded}

Call(w, c) == {x \in writing : x.by = w /\ x.copy = c}

\* Process w is in the handler of copy c, an enrich.entity job.
Enriches(w, c) ==
    /\ pc[w] = "batch" /\ c \in batch[w] /\ <<w, c>> \notin ran
    /\ key[c.id] \in Subjects

Proceeds(x, y) == writing' = (writing \ {x}) \cup {y}

\* The request the task builds from the facts a call has read, which is hashed.
Input(x) == InputOf[x.version]

\* loadEnrichmentFacts.
LoadFacts(w, c) ==
    /\ Enriches(w, c) /\ Call(w, c) = {}
    /\ writing' = writing \cup
          {[by |-> w, copy |-> c, version |-> data[key[c.id]], at |-> "loaded", old |-> {}]}
    /\ UNCHANGED <<vars, indexVars, texts>>

\* A bug to rule out: the hash is not compared.
AlwaysOutdated(k, input) == FALSE

\* `existing?.inputHash === inputHash`
UpToDate(k, input) == \E i \in Current(k) : texts[k][i].input = input

\* The run is over, having seen version v of the facts.
Returns(w, c, x) ==
    /\ writing' = writing \ {x}
    /\ indexed' = [indexed EXCEPT ![key[c.id]] = x.version]
    /\ ran' = ran \cup {<<w, c>>}
    /\ UNCHANGED <<vars, data, tx>>

Unchanged(w, c) ==
    /\ Enriches(w, c)
    /\ \E x \in Call(w, c) :
          /\ x.at = "loaded" /\ UpToDate(key[c.id], Input(x))
          /\ Returns(w, c, x)
    /\ UNCHANGED texts

\* provider.generate returns a text that passes validateEnrichmentOutput.
Generate(w, c) ==
    /\ Enriches(w, c)
    /\ \E x \in Call(w, c) :
          /\ x.at = "loaded" /\ ~UpToDate(key[c.id], Input(x))
          /\ Proceeds(x, [x EXCEPT !.at = "generated"])
    /\ UNCHANGED <<vars, indexVars, texts>>

\* The update of the transaction: it waits for whoever updates the same rows.
Supersede(w, c) ==
    /\ Enriches(w, c)
    /\ \A y \in writing : key[y.copy.id] = key[c.id] => y.old \cap Current(key[c.id]) = {}
    /\ \E x \in Call(w, c) :
          /\ x.at = "generated"
          /\ Proceeds(x, [x EXCEPT !.at = "superseding", !.old = Current(key[c.id])])
    /\ UNCHANGED <<vars, indexVars, texts>>

\* A bug to rule out: the older text stays current.
NothingSuperseded(rows, old) == rows

Superseded(rows, old) ==
    [i \in DOMAIN rows |-> IF i \in old THEN [rows[i] EXCEPT !.superseded = TRUE] ELSE rows[i]]

\* The insert, and the commit of both.
StoreText(w, c) ==
    /\ Enriches(w, c)
    /\ \E x \in Call(w, c) :
          /\ x.at = "superseding"
          /\ texts' = [texts EXCEPT ![key[c.id]] =
                          Append(Superseded(@, x.old), [input |-> Input(x), superseded |-> FALSE])]
          /\ Returns(w, c, x)

(* The writers, the queue and the other handler.  A call ends with its     *)
(* copy: when the handler throws or the process dies, nothing is stored.   *)
Elsewhere ==
    /\ IndexNext
    /\ \A x \in ran' \ ran : key[x[2].id] \notin Subjects
    /\ writing' = {x \in writing : x.copy \in batch'[x.by]}
    /\ UNCHANGED texts

EnrichNext ==
    \/ Elsewhere
    \/ \E w \in Workers : \E c \in batch[w] :
          \/ LoadFacts(w, c) \/ Unchanged(w, c) \/ Generate(w, c)
          \/ Supersede(w, c) \/ StoreText(w, c)

EnrichSpec == EnrichInit /\ [][EnrichNext]_everything

-----------------------------------------------------------------------------
(* Properties *)

\* docs/ai-enrichment.md: "changed facts ... produce a new row, and the previous one is
\* marked `superseded_at`": a subject has one current text, the newest, and it is made
\* of the facts the last finished run has read, whatever failed or died since.
OneCurrentText ==
    \A k \in Subjects : texts[k] # <<>> =>
        /\ Current(k) = {Len(texts[k])}
        /\ texts[k][Len(texts[k])].input = InputOf[indexed[k]]

\* runEnrichment, "unchanged facts, prompt version and provider never regenerate": no
\* text is stored after one of the same input, although jobs are repeated after failures and
\* crashes (one that dies between the provider's answer and the store asks again).
NeverGeneratedTwice ==
    \A k \in Subjects : \A i \in 1 .. Len(texts[k]) - 1 : texts[k][i].input # texts[k][i + 1].input
=============================================================================
