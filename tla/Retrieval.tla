------------------------------ MODULE Retrieval ------------------------------
(***************************************************************************)
(* GET /v1/search and POST /v1/check-collision: the CompositeRetriever     *)
(* fans a query out to the full-text and the vector retriever, merges what *)
(* came back by reciprocal rank fusion and hydrates the best hits; the     *)
(* CollisionDetector asks the vector side alone.                           *)
(*                                                                         *)
(* A list of hits is a function from objects to scores.  Sorting is        *)
(* sort.Slice over values taken from a map, so equal scores come in any    *)
(* order.  1/(K + rank) is scaled to an integer.                           *)
(***************************************************************************)
EXTENDS Integers, Sequences, FiniteSets, SequencesExt

CONSTANTS Calls,               \* requests being served
          Objects,             \* knowledge objects of the workspace
          Scores,              \* relevance, as ts_rank and cosine give it
          Threshold,           \* DefaultCollisionThreshold among Scores
          DefaultSearchLimit,  \* hits of the vector side, and of an answer
          MaxSearchLimit,
          K,                   \* constant of the fusion, 60
          Scale                \* a common multiple of K + 1, ..., K + MaxSearchLimit

\* Scores are numbers, the default limit (10) is within the maximum (100), and a
\* share of the fusion is a whole number of units.
ASSUME RetrievalAssumption ==
  /\ IsFiniteSet(Objects) /\ Scores \subseteq Int /\ Threshold \in Int
  /\ DefaultSearchLimit \in Nat /\ MaxSearchLimit \in Nat /\ DefaultSearchLimit <= MaxSearchLimit
  /\ K \in Nat /\ Scale \in Nat \ {0}
  /\ \A i \in 1..MaxSearchLimit : Scale % (K + i) = 0

VARIABLES phase,   \* phase[r]: "idle", "search", "collision", "refused", "done"
          lists,   \* lists[r][s]: what retriever s answered
          answer   \* answer[r]: "none", "error", or the objects in order

retrievalVars == <<phase, lists, answer>>

Retrievers == {"fts", "vector"}

Pending == [state |-> "pending", score |-> <<>>]
Failed == [state |-> "failed", score |-> <<>>]
Hits(score) == [state |-> "hits", score |-> score]

NoLists == [s \in Retrievers |-> Pending]

RetrievalInit ==
  /\ phase = [r \in Calls |-> "idle"]
  /\ lists = [r \in Calls |-> NoLists]
  /\ answer = [r \in Calls |-> [state |-> "none"]]

\* Every list of at most n hits a retriever can find.
ListsOf(n) ==
  UNION {[S -> Scores] : S \in {T \in SUBSET Objects : Cardinality(T) <= n}}

\* The orders sort.Slice may leave the keys of score in: best first, ties free.
Rankings(score) ==
  {q \in SetToSeqs(DOMAIN score) :
     \A i, j \in DOMAIN q : i < j => score[q[i]] >= score[q[j]]}

\* limit 0 stands for the default, and no limit exceeds the maximum.
Clamp(limit) ==
  IF limit = 0 THEN DefaultSearchLimit
  ELSE IF limit > MaxSearchLimit THEN MaxSearchLimit ELSE limit

Answers(r, s, list) ==
  /\ phase[r] = "search" /\ lists[r][s].state = "pending"
  /\ lists' = [lists EXCEPT ![r][s] = list]
  /\ UNCHANGED <<phase, answer>>

\* FTSRetriever.Search honours the limit of the query.
SearchFullText(r) ==
  \/ Answers(r, "fts", Failed)
  \/ \E limit \in 0..(MaxSearchLimit + 1) : \E score \in ListsOf(Clamp(limit)) :
       Answers(r, "fts", Hits(score))

\* vectorRetriever.Search embeds the text, scans, then loads every hit.  A hit
\* whose object is gone (FindByID: app.ErrNotFound) fails the whole retriever:
\* the loop only skips pgx.ErrNoRows, which FindByID never returns.
SearchVectors(r) ==
  \/ Answers(r, "vector", Failed)
  \/ \E score \in ListsOf(DefaultSearchLimit) : \E gone \in SUBSET DOMAIN score :
       Answers(r, "vector", IF gone = {} THEN Hits(score) ELSE Failed)

\* The share of the fused score that rank i of one list is worth.
Weight(i) == Scale \div (K + i)

RankIn(q, o) == CHOOSE i \in DOMAIN q : q[i] = o

\* Faulty variant: the second list overwrites the shares of the first instead of adding to them.
FusedOverwritten(ranking) ==
  [o \in UNION {Range(ranking[s]) : s \in Retrievers} |->
     IF o \in Range(ranking["vector"]) THEN Weight(RankIn(ranking["vector"], o))
     ELSE Weight(RankIn(ranking["fts"], o))]

\* scores[...] += 1/(k + rank), over the lists that were returned.
Fused(ranking) ==
  LET share(s, o) ==
        IF o \in Range(ranking[s]) THEN Weight(RankIn(ranking[s], o)) ELSE 0
  IN  [o \in UNION {Range(ranking[s]) : s \in Retrievers} |->
         share("fts", o) + share("vector", o)]

Cut(q) == SubSeq(q, 1, IF Len(q) > DefaultSearchLimit THEN DefaultSearchLimit ELSE Len(q))

Respond(r, a) ==
  /\ answer' = [answer EXCEPT ![r] = a]
  /\ phase' = [phase EXCEPT ![r] = "done"]

Returned(r) == {s \in Retrievers : lists[r][s].state = "hits"}

\* firstErr is returned only when no retriever filled hitSet.
GivesUp(r) == Returned(r) = {}

\* CompositeRetriever.Search after wg.Wait.  An object the hydrator does not
\* find is answered as a stub, so hydration never drops a hit.
Merge(r) ==
  /\ phase[r] = "search"
  /\ \A s \in Retrievers : lists[r][s].state # "pending"
  /\ \/ GivesUp(r) /\ Respond(r, [state |-> "error"])
     \/ /\ ~GivesUp(r)
        /\ \E f \in Rankings(lists[r]["fts"].score),
             v \in Rankings(lists[r]["vector"].score) :
             \E q \in Rankings(Fused([fts |-> f, vector |-> v])) :
               Respond(r, [state |-> "hits", order |-> Cut(q)])
  /\ UNCHANGED lists

\* CollisionDetector.Detect: hits below the threshold and objects that cannot
\* be loaded are skipped; the others keep the order of the scan, so that the
\* answer is a ranking of what is left.
CheckCollision(r) ==
  /\ phase[r] = "collision"
  /\ \/ Respond(r, [state |-> "error"]) /\ UNCHANGED lists
     \/ \E score \in ListsOf(DefaultSearchLimit) : \E gone \in SUBSET DOMAIN score :
          LET found == [o \in DOMAIN score \ gone |-> score[o]]
              close == {o \in DOMAIN found : found[o] >= Threshold} IN
          /\ lists' = [lists EXCEPT ![r]["vector"] = Hits(found)]
          /\ \E q \in Rankings([o \in close |-> found[o]]) :
               Respond(r, [state |-> "hits", order |-> q])

\* The handler begins; the response is written and the request forgotten.
Begin(r, kind) ==
  /\ phase[r] = "idle"
  /\ phase' = [phase EXCEPT ![r] = kind]
  /\ UNCHANGED <<lists, answer>>

Finish(r) ==
  /\ phase[r] \in {"done", "refused"}
  /\ phase' = [phase EXCEPT ![r] = "idle"]
  /\ lists' = [lists EXCEPT ![r] = NoLists]
  /\ answer' = [answer EXCEPT ![r] = [state |-> "none"]]

-----------------------------------------------------------------------------
\* Every list that came back has x above y, or has x and not y.
Prefers(r, x, y) ==
  /\ Returned(r) # {}
  /\ \A s \in Returned(r) :
       LET score == lists[r][s].score IN
       x \in DOMAIN score /\ (y \in DOMAIN score => score[x] > score[y])

Before(q, x, y) == x \in Range(q) /\ RankIn(q, x) < RankIn(q, y)

\* A search is an error only if every retriever failed, and an answer never
\* contradicts its sources: an object that every list which came back puts above
\* another is answered, and first, whenever the other is answered, in spite of
\* partial failures, ties, cuts and threshold (CompositeRetriever.Search,
\* CollisionDetector.Detect).
AnswersKeepTheConsensus ==
  \A r \in Calls : phase[r] = "done" =>
    /\ answer[r].state = "error" => Returned(r) = {}
    /\ answer[r].state = "hits" =>
         \A x \in Objects, y \in Range(answer[r].order) :
           Prefers(r, x, y) => Before(answer[r].order, x, y)

=============================================================================
