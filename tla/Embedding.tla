----------------------------- MODULE Embedding ------------------------------
(***************************************************************************)
(* How texts get their embeddings: the fields of documents are looked up   *)
(* in the map DocumentEmbedder keeps for all requests, their texts and     *)
(* those of search queries and of /inference requests in the cache of a    *)
(* model, if it has one (CachedEmbedModel), and the rest is sent to the    *)
(* model.  All of it runs concurrently.                                    *)
(***************************************************************************)
EXTENDS Naturals, Sequences, FiniteSets, FiniteSetsExt, Functions

CONSTANTS
  Embedders,    \* fibers: calls of addDocuments, and of encode for other requests
  Fields,       \* text fields with a model, for which a request names its model
  Uncached,     \* those whose model has no cache; the model of the others has one
  Texts,
  KeyOf,        \* the 64 bits that are kept of a hash of "task: text", by <<task, text>>
  Batches,      \* sequences of texts that are embedded at once
  CacheSize,    \* entries the cache keeps
  MaxJobs       \* bound: batches embedded

\* TaskType: a model may embed a document, a query and what /inference is asked
\* differently.
Tasks == {"doc", "query", "raw"}

ASSUME EmbeddingAssumption ==
  /\ Batches \subseteq Seq(Texts) \ {<<>>}
  /\ DOMAIN KeyOf = Tasks \X Texts
  /\ CacheSize \in Nat /\ MaxJobs \in Nat

\* The key of the cache, which two texts may share; and the embedding a model makes
\* of a text.
Key(task, text) == KeyOf[<<task, text>>]
Vector(task, text) == [task |-> task, text |-> text]
Missing == [task |-> "none", text |-> "none"]

VARIABLES
  fields,    \* DocumentEmbedder.cache: the fields whose model is known
  seen,      \* [Embedders -> what a put found in its bucket of that map]
  memo,      \* the cache: a function from some of the keys to vectors
  job,       \* [Embedders -> [task, field, texts]]
  place,     \* [Embedders -> where the fiber is]
  found,     \* [Embedders -> what the cache answered, text by text]
  made,      \* [Embedders -> what the model answered, in order]
  vectors,   \* [Embedders -> the answer, text by text]
  short,     \* embedders whose model answered too few embeddings
  clashed,   \* embedders that were at the map while another put into it
  jobs       \* batches so far

embedVars == <<fields, seen, memo, job, place, found, made, vectors, short, clashed, jobs>>

Goes(e, to) == place' = [place EXCEPT ![e] = to]

NoJob == [task |-> "query", field |-> CHOOSE f \in Fields : TRUE, texts |-> <<>>]

EmbeddingInit ==
  /\ fields = {} /\ memo = <<>> /\ short = {} /\ clashed = {} /\ jobs = 0
  /\ seen = [e \in Embedders |-> {}]
  /\ job = [e \in Embedders |-> NoJob]
  /\ place = [e \in Embedders |-> "idle"]
  /\ found = [e \in Embedders |-> <<>>]
  /\ made = found /\ vectors = found

-----------------------------------------------------------------------------
Embed(e) ==
  /\ place[e] = "idle" /\ jobs < MaxJobs
  /\ jobs' = jobs + 1
  /\ \E task \in Tasks, f \in Fields, texts \in Batches :
       /\ task = "query" => Len(texts) = 1
       /\ job' = [job EXCEPT ![e] = [task |-> task, field |-> f, texts |-> texts]]
       /\ Goes(e, IF task = "doc" THEN "select" ELSE "get")
  /\ vectors' = [vectors EXCEPT ![e] = <<>>]
  /\ short' = short \ {e} /\ clashed' = clashed \ {e}
  /\ UNCHANGED <<fields, seen, memo, found, made>>

\* The map is not made for concurrent use: while a put makes it grow, a read may
\* miss what it has.
Putting(e) == {d \in Embedders \ {e} : place[d] = "mark"}

MayFind(e) == job[e].field \in fields
MayMiss(e) == job[e].field \notin fields \/ Putting(e) # {}

Meets(e) ==
  clashed' = IF Putting(e) = {} THEN clashed ELSE clashed \cup Putting(e) \cup {e}

\* selectEmbedStrings: the field is known, or it is put into the map.  The put
\* reads the bucket ...
SelectField(e) ==
  /\ place[e] = "select"
  /\ \/ MayFind(e) /\ Goes(e, "get") /\ UNCHANGED seen
     \/ MayMiss(e) /\ Goes(e, "mark") /\ seen' = [seen EXCEPT ![e] = fields]
  /\ Meets(e)
  /\ UNCHANGED <<fields, memo, job, found, made, vectors, short, jobs>>

\* Mutant: the map keeps one field.
MarkLast(e) ==
  /\ place[e] = "mark"
  /\ fields' = {job[e].field}
  /\ seen' = [seen EXCEPT ![e] = {}]
  /\ Goes(e, "get")
  /\ UNCHANGED <<memo, job, found, made, vectors, short, clashed, jobs>>

\* ... and writes it: what another put in meanwhile is gone.
MarkField(e) ==
  /\ place[e] = "mark"
  /\ fields' = seen[e] \cup {job[e].field}
  /\ seen' = [seen EXCEPT ![e] = {}]
  /\ Goes(e, "get")
  /\ UNCHANGED <<memo, job, found, made, vectors, short, clashed, jobs>>

\* CachedEmbedModel.encode: what the cache has, which is nothing if there is none ...
InMemo(e, text) ==
  LET k == Key(job[e].task, text)
  IN  IF job[e].field \notin Uncached /\ k \in DOMAIN memo THEN memo[k] ELSE Missing

GetMemo(e) ==
  /\ place[e] = "get"
  /\ found' = [found EXCEPT ![e] =
                 [i \in DOMAIN job[e].texts |-> InMemo(e, job[e].texts[i])]]
  /\ Goes(e, "encode")
  /\ UNCHANGED <<fields, seen, memo, job, made, vectors, short, clashed, jobs>>

\* How many of the first i texts the cache does not have; and the places of
\* those texts, in order.
Missed(e, i) == Cardinality({j \in 1..i : found[e][j] = Missing})
NonCached(e) ==
  [n \in 1..Missed(e, Len(found[e])) |->
     CHOOSE i \in DOMAIN found[e] : found[e][i] = Missing /\ Missed(e, i) = n]

\* ... the model embeds what it has not; one may answer too few embeddings ...
CallModel(e) ==
  /\ place[e] = "encode"
  /\ LET texts == [i \in DOMAIN NonCached(e) |-> job[e].texts[NonCached(e)[i]]]
     IN  \E n \in {Len(texts), IF texts = <<>> THEN 0 ELSE Len(texts) - 1} :
           /\ made' = [made EXCEPT ![e] = [i \in 1..n |-> Vector(job[e].task, texts[i])]]
           /\ short' = IF n < Len(texts) THEN short \cup {e} ELSE short
  /\ Goes(e, "put")
  /\ UNCHANGED <<fields, seen, memo, job, found, vectors, clashed, jobs>>

\* Mutant: the new embeddings go to the first texts of the batch.
MergedInOrder(e) ==
  [i \in DOMAIN found[e] |->
     IF found[e][i] # Missing THEN found[e][i]
     ELSE IF i <= Len(made[e]) THEN made[e][i] ELSE Missing]

\* mergeEmbeds: the embedding of each text, by its place in the batch; null where
\* the model answered none.
Merged(e) ==
  [i \in DOMAIN found[e] |->
     IF found[e][i] # Missing THEN found[e][i]
     ELSE IF Missed(e, i) <= Len(made[e]) THEN made[e][Missed(e, i)] ELSE Missing]

\* What the cache holds once the new embeddings are put, if it evicted nothing.
MemoWith(e) ==
  LET n == Len(made[e])
      keys == {Key(job[e].task, job[e].texts[NonCached(e)[i]]) : i \in 1..n}
      latest(k) == made[e][CHOOSE i \in 1..n :
                     /\ Key(job[e].task, job[e].texts[NonCached(e)[i]]) = k
                     /\ \A j \in i+1..n :
                          Key(job[e].task, job[e].texts[NonCached(e)[j]]) # k]
  IN  [k \in keys \cup DOMAIN memo |-> IF k \in keys THEN latest(k) ELSE memo[k]]

\* What the caller of encode gets: without a cache, what the model answered.
Answered(e) == IF job[e].field \in Uncached THEN made[e] ELSE Merged(e)

\* EmbedModelDict.encode of a query takes one embedding, no other number of them.
FailsQuery(e) == job[e].task = "query" /\ Len(Answered(e)) # 1

\* ... and both are put together, and the new ones into the cache, which evicts
\* what it likes to keep its size.
PutMemo(e) ==
  /\ place[e] = "put" /\ ~FailsQuery(e)
  /\ vectors' = [vectors EXCEPT ![e] = Answered(e)]
  /\ LET all == IF job[e].field \in Uncached THEN memo ELSE MemoWith(e)
     IN  IF Cardinality(DOMAIN all) <= CacheSize THEN memo' = all
         ELSE \E kept \in kSubset(CacheSize, DOMAIN all) : memo' = Restrict(all, kept)
  /\ found' = [found EXCEPT ![e] = <<>>] /\ made' = [made EXCEPT ![e] = <<>>]
  /\ Goes(e, IF job[e].task = "doc" THEN "join" ELSE "done")
  /\ UNCHANGED <<fields, seen, job, short, clashed, jobs>>

\* The answer is kept by text: of a text that is in a batch twice, the last one.
ByText(e) ==
  LET answered(x) == {j \in DOMAIN vectors[e] : job[e].texts[j] = x}
  IN  [i \in DOMAIN job[e].texts |-> vectors[e][Max(answered(job[e].texts[i]))]]

EveryTextAnswered(e) ==
  \A i \in DOMAIN job[e].texts : \E j \in DOMAIN vectors[e] : job[e].texts[j] = job[e].texts[i]

\* DocumentEmbedder.join looks the field up again: if it is not there, the
\* field stays without a vector.
Join(e) ==
  /\ place[e] = "join"
  /\ \/ /\ MayFind(e) /\ EveryTextAnswered(e)
        /\ vectors' = [vectors EXCEPT ![e] = ByText(e)]
     \/ MayMiss(e) /\ vectors' = [vectors EXCEPT ![e] = <<>>]
  /\ Meets(e)
  /\ Goes(e, "done")
  /\ UNCHANGED <<fields, seen, memo, job, found, made, short, jobs>>

\* A request fails: its query, or a text of a document, has no embedding.
JoinFails(e) ==
  /\ \/ place[e] = "put" /\ FailsQuery(e) /\ UNCHANGED clashed
     \/ place[e] = "join" /\ MayFind(e) /\ ~EveryTextAnswered(e) /\ Meets(e)
  /\ Goes(e, "idle")
  /\ job' = [job EXCEPT ![e] = NoJob]
  /\ found' = [found EXCEPT ![e] = <<>>] /\ made' = [made EXCEPT ![e] = <<>>]
  /\ vectors' = [vectors EXCEPT ![e] = <<>>]
  /\ UNCHANGED <<fields, seen, memo, short, jobs>>

\* The caller takes the answer.
Deliver(e) ==
  /\ place[e] = "done"
  /\ Goes(e, "idle")
  /\ job' = [job EXCEPT ![e] = NoJob]
  /\ vectors' = [vectors EXCEPT ![e] = <<>>]
  /\ UNCHANGED <<fields, seen, memo, found, made, short, clashed, jobs>>

EmbeddingNext ==
  \E e \in Embedders :
    \/ Embed(e) \/ SelectField(e) \/ MarkField(e) \/ GetMemo(e) \/ CallModel(e)
    \/ PutMemo(e) \/ Join(e) \/ JoinFails(e) \/ Deliver(e)

EmbeddingSpec == EmbeddingInit /\ [][EmbeddingNext]_embedVars

-----------------------------------------------------------------------------
\* The embeddings that may stand for a text: without a cache its own, with one that
\* of any text that has the same key.
Embeddings(e, text) ==
  IF job[e].field \in Uncached THEN {Vector(job[e].task, text)}
  ELSE {Vector(v[1], v[2]) : v \in {w \in DOMAIN KeyOf : KeyOf[w] = KeyOf[<<job[e].task, text>>]}}

\* What the cache holds under a key is the embedding of a text with that key, and so
\* is what a caller gets for a text: its own, unless another one shares its key, in
\* whatever order batches are looked up, embedded, put and evicted.  A text is left
\* without one (null) only if the model answered too few to this very call.
EmbeddingSharesItsKey ==
  /\ \A k \in DOMAIN memo :
       \E v \in DOMAIN KeyOf : KeyOf[v] = k /\ memo[k] = Vector(v[1], v[2])
  /\ \A e \in Embedders : \A i \in DOMAIN vectors[e] :
       \/ vectors[e][i] \in Embeddings(e, job[e].texts[i])
       \/ vectors[e][i] = Missing /\ e \in short /\ job[e].field \notin Uncached

\* A document is indexed without the vectors of a field only if its request was
\* at the shared map while another one put a field into it, or the other way
\* round (DocumentEmbedder.scala:25): alone, or later, no request loses them.
VectorlessNeedsAClash ==
  \A e \in Embedders :
    place[e] = "done" /\ job[e].task = "doc" /\ vectors[e] = <<>> => e \in clashed
=============================================================================
