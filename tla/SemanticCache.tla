----------------------------- MODULE SemanticCache -----------------------------
(***************************************************************************)
(* Cached vectors of facts for ranking by meaning (search_semantic.py,     *)
(* providers/embeddings.py).  The cache is one JSON file that names the    *)
(* model it was made with.  Searches and dreams fill it, rebuild-index     *)
(* makes it anew, the user changes the model, and the file is rewritten in *)
(* place by processes that know nothing of each other.                     *)
(***************************************************************************)
EXTENDS Integers, FiniteSets, Sequences, SequencesExt

CONSTANTS
  Proc, Fact,
  Model,   \* embedding signatures: provider, model and version
  MaxActs  \* bound: commands and changes of the configuration in one behaviour

VARIABLES
  config,  \* the configured signature
  cache,   \* the file
  pc, job, \* the command of a process
  used,    \* ghost: vectors the command compared with its query
  acts

vars == <<config, cache, pc, job, used, acts>>

None == "none"
NoVector == [of |-> None, model |-> None]
Vector == [of : Fact, model : Model] \* the vector of a fact's text under a model
Vectors == [Fact -> Vector \union {NoVector}]
Empty == [key |-> None, torn |-> FALSE, entry |-> [f \in Fact |-> NoVector]]
NoJob == [model |-> None, force |-> FALSE, asks |-> FALSE, wanted |-> {}, legacy |-> FALSE,
          read |-> Empty, pending |-> <<>>]

TypeOK ==
  /\ config \in Model
  /\ cache.key \in Model \union {None} /\ cache.torn \in BOOLEAN /\ cache.entry \in Vectors
  /\ pc \in [Proc -> {"idle", "load", "embed", "write", "rank"}]
  /\ \A p \in Proc : /\ job[p].model \in Model \union {None} /\ job[p].wanted \subseteq Fact
                     /\ job[p].read.entry \in Vectors /\ ToSet(job[p].pending) \subseteq Fact
  /\ used \in [Proc -> SUBSET (Vector \X Fact)] /\ acts \in 0 .. MaxActs

\* A cache of an earlier version does not name its model.
Init ==
  /\ config \in Model
  /\ \E entry \in Vectors :
       /\ \A f \in Fact : entry[f].of \in {f, None}
       /\ cache = [Empty EXCEPT !.entry = entry]
  /\ pc = [p \in Proc |-> "idle"] /\ job = [p \in Proc |-> NoJob]
  /\ used = [p \in Proc |-> {}] /\ acts = 0

Act == acts < MaxActs /\ acts' = acts + 1

\* A file that does not parse is an empty cache.
Loaded == IF cache.torn THEN Empty ELSE cache

\* inspect_embedding_cache_state: a cache without a key is judged by its entries.
Signatures(c) == {c.entry[f].model : f \in {g \in Fact : c.entry[g] # NoVector}}
State(c, model) ==
  IF c.key # None THEN IF c.key = model THEN "ready" ELSE "rebuild"
  ELSE IF Signatures(c) = {} THEN "empty" ELSE IF Signatures(c) = {model} THEN "legacy" ELSE "rebuild"

Valid(vector, model) == vector.model = model

----------------------------------------------------------------------------
Configure ==
  /\ Act /\ \E m \in Model : m # config /\ config' = m
  /\ UNCHANGED <<cache, pc, job, used>>

\* A command reads the configuration and knows its facts: a search those it found, a dream
\* and rebuild-index all active ones.
Begin(p) ==
  /\ pc[p] = "idle" /\ Act
  /\ \E force \in BOOLEAN, asks \in BOOLEAN, wanted \in SUBSET Fact :
       /\ ~(force /\ asks) /\ (asks => wanted # {})
       /\ job' = [job EXCEPT ![p] = [NoJob EXCEPT !.model = config, !.force = force, !.asks = asks,
                                                  !.wanted = wanted]]
  /\ pc' = [pc EXCEPT ![p] = "load"] /\ used' = [used EXCEPT ![p] = {}]
  /\ UNCHANGED <<config, cache>>

Goto(p, l) == pc' = [pc EXCEPT ![p] = l]
Leave(p) == IF job[p].asks THEN Goto(p, "rank") /\ UNCHANGED job
            ELSE Goto(p, "idle") /\ job' = [job EXCEPT ![p] = NoJob]

\* ensure_embeddings reads the cache; one of another model is left alone unless the command
\* rebuilds it, and then it starts from nothing.
Kept(j, c) == IF j.force THEN Empty.entry ELSE c.entry

Load(p) ==
  /\ pc[p] = "load"
  /\ LET j == job[p]
         kept == [Loaded EXCEPT !.entry = Kept(j, Loaded)]
         pending == {f \in j.wanted : j.force \/ ~Valid(kept.entry[f], j.model)}
     IN
       IF State(Loaded, j.model) = "rebuild" /\ ~j.force THEN Leave(p)
       ELSE /\ job' = [job EXCEPT ![p].read = kept, ![p].pending = SetToSeq(pending),
                                   ![p].legacy = State(Loaded, j.model) = "legacy"]
            /\ Goto(p, "embed")
  /\ UNCHANGED <<config, cache, used, acts>>

\* A provider answers a batch in any order, with the index of each text and not always all of
\* them; without an index an item is taken for the text at its own position.
Slot_Position(items, k) == k
Slot(items, k) == items[k]

Embed(p) ==
  /\ pc[p] = "embed"
  /\ LET j == job[p] IN
     \E answered \in SUBSET DOMAIN j.pending : \E items \in SetToSeqs(answered) :
       LET got == {k \in DOMAIN items : Slot(items, k) \in DOMAIN j.pending}
           entry == [f \in Fact |->
             IF \E k \in got : j.pending[Slot(items, k)] = f
             THEN LET k == CHOOSE k \in got : j.pending[Slot(items, k)] = f
                  IN [of |-> j.pending[items[k]], model |-> j.model]
             ELSE j.read.entry[f]]
       IN
         IF got # {} \/ (j.force /\ j.wanted = {}) \/ j.legacy
         THEN /\ job' = [job EXCEPT ![p].read = [key |-> j.model, torn |-> FALSE, entry |-> entry]]
              /\ cache' = [cache EXCEPT !.torn = TRUE] \* write_text opens the file
              /\ Goto(p, "write")
         ELSE Leave(p) /\ UNCHANGED cache
  /\ UNCHANGED <<config, used, acts>>

\* The text reaches the file.
Write(p) ==
  /\ pc[p] = "write" /\ cache' = job[p].read /\ Leave(p)
  /\ UNCHANGED <<config, used, acts>>

\* The query is embedded and compared with what the cache, read once more, holds.
Rank(p) ==
  /\ pc[p] = "rank"
  /\ used' = [used EXCEPT ![p] =
       IF State(Loaded, job[p].model) = "rebuild" THEN {}
       ELSE {<<Loaded.entry[f], f>> : f \in {g \in job[p].wanted : Valid(Loaded.entry[g], job[p].model)}}]
  /\ Goto(p, "idle") /\ UNCHANGED <<config, cache, job, acts>>

Die(p) ==
  /\ pc[p] # "idle" /\ Act /\ Goto(p, "idle") /\ job' = [job EXCEPT ![p] = NoJob]
  /\ UNCHANGED <<config, cache, used>>

Next ==
  \/ Configure
  \/ \E p \in Proc : Begin(p) \/ Load(p) \/ Embed(p) \/ Write(p) \/ Rank(p) \/ Die(p)
Spec == Init /\ [][Next]_vars

----------------------------------------------------------------------------
\* A query is compared only with vectors of its own model, each made from the text of the
\* fact it stands for, whatever order a provider answers in (rerank_candidates,
\* semantic_similarity_map, _extract_indexed_embeddings).
ComparesLikeWithLike ==
  \A p \in Proc, v \in Vector, f \in Fact :
    <<v, f>> \in used[p] => v = [of |-> f, model |-> job[p].model]

\* A cache that names its model holds vectors of no other, though it is rewritten in place by
\* overlapping commands with different configurations (ensure_embeddings).
KeyTellsEntries == cache.key # None => Signatures(cache) \subseteq {cache.key}
=============================================================================
