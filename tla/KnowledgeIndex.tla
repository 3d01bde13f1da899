--------------------------- MODULE KnowledgeIndex ---------------------------
(***************************************************************************)
(* The knowledge index and the requests that write and search it.          *)
(*                                                                         *)
(* Indexing asks the embedding model, and writes the document under an id  *)
(* made of its type and source, waiting until a refresh makes the write    *)
(* visible.  A search asks the embedding model, then the two branches one  *)
(* after the other, and other requests write in between.                   *)
(*                                                                         *)
(* The writes to a document are numbered; the number stands for what the   *)
(* write put there, 0 for no document.                                     *)
(***************************************************************************)
EXTENDS ResourceSetup, HybridRetrieval

CONSTANTS
  Doc,          \* document ids
  Filters,      \* the documents each filter lets through
  TopK,         \* top_k of the searches
  MaxRetries    \* max_retries of the Elasticsearch client

ASSUME DocAssumption == Doc \subseteq Nat \ {0} /\ Filters \subseteq SUBSET Doc
ASSUME BoundAssumption == TopK \in Nat /\ MaxRetries \in Nat

VARIABLES
  index,       \* the last write to each document
  searchable,  \* the one that searches see
  stray,       \* the documents that an abandoned call may still write
  job,         \* the document each request indexes, or the filter of its search
  written,     \* the number of its write
  tries,       \* how often its call was repeated
  keyword,     \* the hits of its keyword branch
  vector,      \* the hits of its vector branch
  items,       \* the answer of its search
  told         \* the newest write to each document that was answered with success

store == <<index, searchable, stray>>
local == <<job, written, tries, keyword, vector, items>>
vars == <<setup, pc, store, local, told>>

Indexing(doc) == [doc |-> doc, filter |-> {}]
Searching(filter) == [doc |-> 0, filter |-> filter]
NoJob == Searching({})
Job == {Indexing(d) : d \in Doc} \cup {Searching(f) : f \in Filters \cup {{}}}
Hit(d) == [doc |-> d, number |-> searchable[d]]

Using == {"indexing", "refreshing", "keyword_search", "vector_search"}
InFlight == {"embedding"} \cup SetupStep \cup Using

Init ==
  /\ SetupInit
  /\ index \in [Doc -> {0, 1}]
  /\ made # 1..Calls => index = [d \in Doc |-> 0]
  /\ searchable = index
  /\ stray = {}
  /\ told = [d \in Doc |-> 0]
  /\ job = [r \in Request |-> NoJob]
  /\ written = [r \in Request |-> 0] /\ tries = [r \in Request |-> 0]
  /\ keyword = [r \in Request |-> <<>>] /\ vector = [r \in Request |-> <<>>]
  /\ items = [r \in Request |-> <<>>]
-----------------------------------------------------------------------------
ArriveToIndex(r, d) ==
  /\ Proceed(r, "idle", "embedding")
  /\ job' = [job EXCEPT ![r] = Indexing(d)]
  /\ UNCHANGED <<setup, store, written, tries, keyword, vector, items, told>>

ArriveToSearch(r, f) ==
  /\ Proceed(r, "idle", "embedding")
  /\ job' = [job EXCEPT ![r] = Searching(f)]
  /\ UNCHANGED <<setup, store, written, tries, keyword, vector, items, told>>

Embed(r) ==
  /\ Proceed(r, "embedding", "entering")
  /\ UNCHANGED <<setup, store, local, told>>

Use(r) == IF job[r].doc \in Doc THEN "indexing" ELSE "keyword_search"

EnsureResources(r) ==
  /\ SetUp(r, Use(r))
  /\ UNCHANGED <<store, local, told>>
-----------------------------------------------------------------------------
(* Elasticsearch.                                                          *)

Put(d) == index' = [index EXCEPT ![d] = @ + 1]

WriteStray(d) ==
  /\ d \in stray
  /\ stray' = stray \ {d}
  /\ Put(d)
  /\ UNCHANGED <<searchable, setup, pc, local, told>>

Refresh ==
  /\ searchable' = index
  /\ UNCHANGED <<index, stray, setup, pc, local, told>>
-----------------------------------------------------------------------------
(* Indexing a document.                                                    *)

Upsert(r) ==
  /\ Proceed(r, "indexing", "refreshing")
  /\ Put(job[r].doc)
  /\ written' = [written EXCEPT ![r] = index[job[r].doc] + 1]
  /\ UNCHANGED <<setup, searchable, stray, job, tries, keyword, vector, items, told>>

(* The request and what the client library holds of its call are gone.     *)
Close(r, from) ==
  /\ Proceed(r, from, "done")
  /\ written' = [written EXCEPT ![r] = 0]
  /\ tries' = [tries EXCEPT ![r] = 0]

(* refresh="wait_for".                                                     *)
AnyRefresh(r) == searchable[job[r].doc] \in Nat
Refreshed(r) == searchable[job[r].doc] >= written[r]

AnswerIndex(r) ==
  /\ Close(r, "refreshing")
  /\ Refreshed(r)
  /\ told' = [told EXCEPT ![job[r].doc] = Larger(@, written[r])]
  /\ UNCHANGED <<setup, store, job, keyword, vector, items>>

(* The answer does not come in time: the client repeats the call, and one  *)
(* that had not written yet may still do so.                               *)
MayRepeatOnceMore(r) == tries[r] <= MaxRetries
MayRepeat(r) == tries[r] < MaxRetries
Abandon(r) == stray' = IF pc[r] = "indexing" THEN stray \cup {job[r].doc} ELSE stray

Repeat(r) ==
  /\ \E step \in {"indexing", "refreshing"} : Proceed(r, step, "indexing")
  /\ MayRepeat(r)
  /\ tries' = [tries EXCEPT ![r] = @ + 1]
  /\ written' = [written EXCEPT ![r] = 0]
  /\ Abandon(r)
  /\ UNCHANGED <<setup, index, searchable, job, keyword, vector, items, told>>
-----------------------------------------------------------------------------
(* Searching.                                                              *)

(* Each branch ranks documents that are visible and pass the filter.       *)
Visible(f) == {d \in f : searchable[d] > 0}
Rankings(f) ==
  {[i \in DOMAIN order |-> Hit(order[i])] :
     order \in UNION {SetToSeqs(found) : found \in
       {some \in SUBSET Visible(f) :
          IsFiniteSet(some) /\ Cardinality(some) <= CandidateLimit(TopK)}}}

KeywordSearch(r) ==
  /\ Proceed(r, "keyword_search", "vector_search")
  /\ \E hits \in Rankings(job[r].filter) : keyword' = [keyword EXCEPT ![r] = hits]
  /\ UNCHANGED <<setup, store, job, written, tries, vector, items, told>>

Everything(f) == Doc
Filtered(f) == f

VectorSearch(r) ==
  /\ Proceed(r, "vector_search", "done")
  /\ \E hits \in Rankings(Filtered(job[r].filter)) :
       /\ vector' = [vector EXCEPT ![r] = hits]
       /\ items' = [items EXCEPT ![r] = Best(TopK, Fuse(keyword[r], hits))]
  /\ UNCHANGED <<setup, store, job, written, tries, keyword, told>>
-----------------------------------------------------------------------------
(* The embedding model or Elasticsearch is unavailable: 503.               *)
Fail(r) ==
  /\ \E step \in {"embedding"} \cup Using : Close(r, step)
  /\ Abandon(r)
  /\ job' = [job EXCEPT ![r] = NoJob]
  /\ keyword' = [keyword EXCEPT ![r] = <<>>]
  /\ UNCHANGED <<setup, index, searchable, vector, items, told>>

Serve(r) ==
  \/ Embed(r) \/ EnsureResources(r)
  \/ Upsert(r) \/ AnswerIndex(r) \/ Repeat(r)
  \/ KeywordSearch(r) \/ VectorSearch(r)
  \/ Fail(r)

Next ==
  \/ \E r \in Request :
       \/ \E d \in Doc : ArriveToIndex(r, d)
       \/ \E f \in Filters : ArriveToSearch(r, f)
       \/ Serve(r)
  \/ \E d \in Doc : WriteStray(d)
  \/ Refresh

Spec == Init /\ [][Next]_vars /\ WF_vars(\E r \in Request : Serve(r))
-----------------------------------------------------------------------------
(* Properties.                                                             *)

(* Type invariant.                                                         *)
TypeOK ==
  /\ SetupTypeOK
  /\ pc \in [Request -> InFlight \cup {"idle", "done"}]
  /\ index \in [Doc -> Nat] /\ searchable \in [Doc -> Nat] /\ told \in [Doc -> Nat]
  /\ stray \subseteq Doc
  /\ job \in [Request -> Job]
  /\ written \in [Request -> Nat] /\ tries \in [Request -> 0..MaxRetries]
  /\ \A r \in Request : pc[r] \in {"indexing", "refreshing"} => job[r].doc \in Doc

(* Who is told that a document is indexed can search it: every search that *)
(* starts afterwards sees that write or a later one.                       *)
ToldIsVisible == \A d \in Doc : searchable[d] >= told[d]

(* An answer holds each document once, although the document may have been *)
(* written again between the two branches, and only documents the filter   *)
(* lets through, whichever branch found them.                              *)
ItemsOfTheFilter ==
  \A r \in Request : \A i, j \in DOMAIN items[r] :
    /\ items[r][i].doc \in job[r].filter
    /\ items[r][i].doc = items[r][j].doc => i = j

(* A document that both branches rank no lower than another, and one of    *)
(* them higher, is not behind it; nor is one that both branches found,     *)
(* near enough to the top, behind one that a single branch found.          *)
Clearer(r, d, e) ==
  LET kd == Rank(keyword[r], d)  vd == Rank(vector[r], d)
      ke == Rank(keyword[r], e)  ve == Rank(vector[r], e)
  IN Dominates(kd, vd, ke, ve) \/ (Agreed(kd, vd) /\ (ke = 0 \/ ve = 0))
ClearerFirst ==
  \A r \in Request : \A j \in DOMAIN items[r] :
    \A d \in Docs(keyword[r]) \cup Docs(vector[r]) :
      Clearer(r, d, items[r][j].doc) => \E i \in 1..(j - 1) : items[r][i].doc = d

(* Every request is answered: no failure of the set-up keeps the lock from *)
(* the threads that wait for it.                                           *)
EveryRequestAnswered ==
  \A r \in Request : pc[r] # "idle" ~> pc[r] = "done"
=============================================================================
