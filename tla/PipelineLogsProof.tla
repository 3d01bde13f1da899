--------------------------- MODULE PipelineLogsProof ---------------------------
(***************************************************************************)
(* Proofs about PipelineLogs for any entries and batches, and any number   *)
(* of requests, processes, repetitions and rollovers.                      *)
(***************************************************************************)
EXTENDS PipelineLogs, ResourceSetupProof, FiniteSetTheorems

USE DEF setup, SetupStep, Proceed, stream, bulk, Counts, NothingYet, Using, InFlight

(* The initial states have the types.                                      *)
LEMMA TypeInit == Init => TypeOK
  BY CallsAssumption, NobodyAssumption, BoundAssumption
  DEF Init, SetupInit, TypeOK, SetupTypeOK

(* No step leaves the types.                                               *)
LEMMA TypeStep == TypeOK /\ [Next]_vars => TypeOK'
<1> SUFFICES ASSUME TypeOK, [Next]_vars PROVE TypeOK'
  OBVIOUS
<1> USE DEF TypeOK
<1>1. ASSUME NEW r \in Request, NEW b \in Batches \cup {<<>>}, Arrive(r, b) PROVE TypeOK'
  <2>1. b \in Seq(Entry)
    <3>1. CASE b \in Batches
      BY <3>1, BatchAssumption
    <3>2. CASE b = <<>>
      BY <3>2
    <3> QED
      BY <3>1, <3>2
  <2>2. batch' \in [Request -> Seq(Entry)] /\ todo' \in [Request -> Seq(Entry)]
    BY <1>1, <2>1 DEF Arrive
  <2> QED
    BY <1>1, <2>2 DEF Arrive, SetupTypeOK
<1>2. ASSUME NEW r \in Request, EnsureResources(r) PROVE TypeOK'
  <2>1. SetupTypeOK'
    BY <1>2, SetupTypeStep DEF EnsureResources
  <2>2. pc' \in [Request -> InFlight \cup {"idle", "done"}]
    BY <1>2 DEF EnsureResources, SetUp, Enter, TakeLock, Create, FailCreate, SetReady, Use
  <2> QED
    BY <1>2, <2>1, <2>2 DEF EnsureResources
<1>3. ASSUME NEW r \in Request, Search(r) PROVE TypeOK'
  BY <1>3 DEF Search, SetupTypeOK
<1>4. ASSUME NEW r \in Request, Accept(r) \/ Refuse(r) \/ Reject(r) PROVE TypeOK'
  <2>1. /\ Head(todo[r]) \in Entry
        /\ Tail(todo[r]) \in Seq(Entry)
    BY <1>4 DEF Accept, Refuse, Reject, Process
  <2>2. todo' \in [Request -> Seq(Entry)]
    BY <1>4, <2>1 DEF Accept, Refuse, Reject, Process
  <2>3. counts' \in [Request -> Counts]
    <3>1. counts[r] \in Counts
      BY Zenon
    <3>2. counts[r].accepted + 1 \in Nat /\ counts[r].duplicate + 1 \in Nat
      BY <3>1
    <3>3. /\ [counts[r] EXCEPT !.accepted = @ + 1] \in Counts
          /\ CountDuplicate(counts[r]) \in Counts
          /\ CountRejected(counts[r]) \in Counts
      BY <3>1, <3>2, Zenon DEF CountDuplicate, CountRejected
    <3>4. \E c \in Counts : counts' = [counts EXCEPT ![r] = c]
      <4>1. CASE Accept(r)
        BY <3>3, <4>1 DEF Accept, Process
      <4>2. CASE Refuse(r)
        BY <3>3, <4>2 DEF Refuse, Process
      <4>3. CASE Reject(r)
        BY <3>3, <4>3 DEF Reject, Process
      <4> QED
        BY <1>4, <4>1, <4>2, <4>3
    <3> HIDE DEF Counts
    <3> QED
      BY <3>4
  <2>4. stored' \in [Entry -> Nat] /\ current' \subseteq Entry
    <3>1. CASE Accept(r)
      BY <2>1, <3>1 DEF Accept, WriteNew
    <3>2. CASE Refuse(r) \/ Reject(r)
      BY <3>2 DEF Refuse, Reject
    <3> QED
      BY <1>4, <3>1, <3>2
  <2>5. UNCHANGED <<setup, pc, batch, rolled, stray, tries, receipts>>
    BY <1>4 DEF Accept, Refuse, Reject, Process, Sending
  <2> QED
    BY <2>2, <2>3, <2>4, <2>5 DEF SetupTypeOK
<1>5. ASSUME NEW r \in Request, Answer(r) PROVE TypeOK'
  <2>1. todo' \in [Request -> Seq(Entry)] /\ tries' \in [Request -> 0..MaxRetries]
    BY <1>5, BoundAssumption DEF Answer, Close
  <2> QED
    BY <1>5, <2>1 DEF Answer, Close, SetupTypeOK
<1>6. ASSUME NEW r \in Request, Repeat(r) PROVE TypeOK'
  <2>1. todo' \in [Request -> Seq(Entry)] /\ tries' \in [Request -> 0..MaxRetries]
    BY <1>6, BoundAssumption DEF Repeat, MayRepeat
  <2>2. stray' \subseteq Entry
    BY <1>6 DEF Repeat, Abandon
  <2>3. counts' \in [Request -> Counts]
    BY <1>6 DEF Repeat, ResetCounts
  <2> QED
    BY <1>6, <2>1, <2>2, <2>3 DEF Repeat, Sending, SetupTypeOK
<1>7. ASSUME NEW r \in Request, GiveUp(r) \/ AnswerRejected(r) PROVE TypeOK'
  <2>1. Fail(r) /\ (Abandon(r) \/ UNCHANGED stray)
    BY <1>7 DEF GiveUp, AnswerRejected
  <2>2. todo' \in [Request -> Seq(Entry)] /\ tries' \in [Request -> 0..MaxRetries]
    BY <2>1, BoundAssumption DEF Fail, Close
  <2>3. stray' \subseteq Entry
    BY <2>1 DEF Abandon
  <2>4. counts' \in [Request -> Counts]
    BY <2>1 DEF Fail
  <2>5. batch' \in [Request -> Seq(Entry)]
    BY <2>1 DEF Fail
  <2>6. pc' \in [Request -> InFlight \cup {"idle", "done"}]
    BY <2>1 DEF Fail, Close
  <2> QED
    BY <2>1, <2>2, <2>3, <2>4, <2>5, <2>6 DEF Fail, SetupTypeOK
<1>8. CASE RollOver
  BY <1>8, BoundAssumption DEF RollOver, SetupTypeOK
<1>9. ASSUME NEW e \in Entry, WriteStray(e) PROVE TypeOK'
  <2>1. stored' \in [Entry -> Nat] /\ current' \subseteq Entry
    <3>1. CASE Fresh(e)
      BY <1>9, <3>1 DEF WriteStray, WriteNew
    <3>2. CASE ~Fresh(e)
      BY <1>9, <3>2 DEF WriteStray
    <3> QED
      BY <3>1, <3>2
  <2>2. stray' \subseteq Entry /\ UNCHANGED <<rolled, setup, pc, bulk, batch, receipts>>
    BY <1>9 DEF WriteStray
  <2> QED
    BY <2>1, <2>2 DEF SetupTypeOK
<1>10. CASE UNCHANGED vars
  BY <1>10 DEF vars, SetupTypeOK
<1> QED
  BY <1>1, <1>2, <1>3, <1>4, <1>5, <1>6, <1>7, <1>8, <1>9, <1>10 DEF Next, Serve

(* TypeOK holds throughout.                                                *)
THEOREM TypeCorrect == Spec => []TypeOK
  BY TypeInit, TypeStep, PTL DEF Spec
-----------------------------------------------------------------------------
SetupInv == TypeOK /\ SetUpBeforeUse /\ CallsMade

(* Nothing is set up before the first request.                             *)
LEMMA SetupHolds == Init => SetupInv
  BY TypeInit DEF Init, SetupInit, SetupInv, SetUpBeforeUse, CallsMade

(* Nor does any other step.                                                *)
LEMMA SetupKept == SetupInv /\ [Next]_vars => SetupInv'
<1> SUFFICES ASSUME SetupInv, [Next]_vars PROVE SetUpBeforeUse' /\ CallsMade'
  BY TypeStep DEF SetupInv
<1> USE DEF SetupInv, TypeOK, SetUpBeforeUse, CallsMade
<1>1. ASSUME NEW r \in Request, EnsureResources(r) PROVE SetUpBeforeUse' /\ CallsMade'
  <2>1. SetUp(r, Use(r)) /\ Use(r) \notin SetupStep \cup {"idle", "done"}
    BY <1>1 DEF EnsureResources, Use
  <2>2. SetupTypeOK /\ pc \in [Request -> InFlight \cup {"idle", "done"}]
    OBVIOUS
  <2> QED
    BY <2>1, <2>2, SetupAdvances, Zenon
<1>2. ASSUME UNCHANGED setup, NEW r \in Request,
             NEW from \in {"idle"} \cup Using, NEW to \in {"entering", "done"},
             Proceed(r, from, to)
      PROVE  SetUpBeforeUse' /\ CallsMade'
  BY <1>2
<1>3. ASSUME NEW r \in Request, NEW b \in Batches \cup {<<>>}, Arrive(r, b)
      PROVE  SetUpBeforeUse' /\ CallsMade'
  BY <1>3, <1>2 DEF Arrive
<1>4. ASSUME NEW r \in Request,
             Search(r) \/ Answer(r) \/ AnswerRejected(r) \/ GiveUp(r)
      PROVE  SetUpBeforeUse' /\ CallsMade'
  <2>1. UNCHANGED setup /\ \E step \in Using : Proceed(r, step, "done")
    BY <1>4, Zenon DEF Search, Answer, AnswerRejected, GiveUp, Fail, Close
  <2> QED
    BY <2>1, <1>2
<1>5. CASE UNCHANGED <<setup, pc>>
  BY <1>5
<1> QED
  BY <1>1, <1>3, <1>4, <1>5, Zenon
  DEF Next, Serve, vars, Accept, Refuse, Reject, Process, Sending, Repeat, RollOver, WriteStray

(* A store is used only after its resources exist, and its lock is not     *)
(* left held (elasticsearch_logs.py ensure_resources).                     *)
THEOREM SetUpFirst == Spec => []SetUpBeforeUse
<1>1. SetupInv => SetUpBeforeUse
  BY DEF SetupInv
<1> QED
  BY SetupHolds, SetupKept, <1>1, PTL DEF Spec
-----------------------------------------------------------------------------
(* A copy is in the newest backing index or in one that it replaced.       *)
CopiesCounted ==
  \A e \in Entry : stored[e] <= rolled + (IF e \in current THEN 1 ELSE 0)

(* What the newest index holds is stored.                                  *)
CurrentStored == \A e \in current : stored[e] > 0

StreamInv == TypeOK /\ CopiesCounted /\ CurrentStored

(* Only the steps below touch the stream, and they keep both.              *)
LEMMA StreamStep == StreamInv /\ [Next]_vars => StreamInv'
<1> SUFFICES ASSUME StreamInv, [Next]_vars PROVE CopiesCounted' /\ CurrentStored'
  BY TypeStep DEF StreamInv
<1> USE DEF StreamInv, CopiesCounted, CurrentStored
<1>0. /\ stored \in [Entry -> Nat] /\ rolled \in Nat /\ current \subseteq Entry
      /\ \A r \in Request : todo[r] \in Seq(Entry)
  BY DEF TypeOK
<1>1. ASSUME NEW e \in Entry, Fresh(e), WriteNew(e), UNCHANGED rolled
      PROVE  CopiesCounted' /\ CurrentStored'
  BY <1>0, <1>1 DEF Fresh, WriteNew
<1>2. ASSUME NEW r \in Request, Accept(r) PROVE CopiesCounted' /\ CurrentStored'
  <2>1. Head(todo[r]) \in Entry
    BY <1>0, <1>2 DEF Accept, Process
  <2> QED
    BY <1>1, <1>2, <2>1, Zenon DEF Accept, Process
<1>3. ASSUME NEW e \in Entry, WriteStray(e) PROVE CopiesCounted' /\ CurrentStored'
  <2>1. CASE Fresh(e)
    BY <1>1, <1>3, <2>1, Zenon DEF WriteStray
  <2>2. CASE ~Fresh(e)
    BY <1>3, <2>2 DEF WriteStray
  <2> QED
    BY <2>1, <2>2
<1>4. CASE RollOver
  BY <1>0, <1>4 DEF RollOver
<1>5. CASE UNCHANGED <<stored, current, rolled>>
  BY <1>5
<1> QED
  BY <1>2, <1>3, <1>4, <1>5, Zenon
  DEF Next, Serve, vars, Arrive, EnsureResources, Search, Refuse, Reject, Process,
      Answer, AnswerRejected, GiveUp, Fail, Repeat

(* However often it is sent, an entry has one copy in each backing index   *)
(* (elasticsearch_logs.py append, create under event_hash).                *)
THEOREM StoredOnce == Spec => []EntryStoredOnce
<1>1. Init => StreamInv
  BY TypeInit DEF Init, StreamInv, CopiesCounted, CurrentStored
<1>2. StreamInv => EntryStoredOnce
  BY DEF StreamInv, CopiesCounted, EntryStoredOnce, TypeOK
<1> QED
  BY <1>1, <1>2, StreamStep, PTL DEF Spec
-----------------------------------------------------------------------------
(* How much of its batch the present call of a request has processed.      *)
Processed(r) == Len(batch[r]) - Len(todo[r])

(* What is left of a batch is its end; unless an item was rejected, the    *)
(* counts account for the rest of it, which is stored.                     *)
Accounted(r) ==
  /\ Len(todo[r]) <= Len(batch[r])
  /\ \A i \in 1..Len(todo[r]) : todo[r][i] = batch[r][Processed(r) + i]
  /\ counts[r].rejected = FALSE =>
       /\ counts[r].accepted + counts[r].duplicate = Processed(r)
       /\ \A i \in 1..Processed(r) : stored[batch[r][i]] > 0

(* A request that is not yet answered is accounted for, an answered one    *)
(* has a complete receipt.                                                 *)
ReceiptInv ==
  /\ \A r \in Request : pc[r] # "done" => r \notin receipts /\ Accounted(r)
  /\ \A r \in Request : pc[r] = "idle" => counts[r] = NothingYet
  /\ ReceiptIsComplete

(* Nothing that is stored is removed.                                      *)
LEMMA StoredGrows ==
  ASSUME TypeOK, [Next]_vars, NEW e \in Entry PROVE stored[e] <= stored'[e]
<1> stored \in [Entry -> Nat]
  BY DEF TypeOK
<1>1. ASSUME NEW d, WriteNew(d) PROVE stored[e] <= stored'[e]
  BY <1>1 DEF WriteNew
<1>2. CASE UNCHANGED stored
  BY <1>2
<1> QED
  BY <1>1, <1>2, Zenon
  DEF Next, Serve, vars, Arrive, EnsureResources, Search, Accept, Refuse, Reject, Process,
      Answer, AnswerRejected, GiveUp, Fail, Repeat, RollOver, WriteStray

(* A step leaves the accounts of the requests alone that it does not serve.*)
LEMMA OthersAccounted ==
  ASSUME TypeOK, ReceiptInv, [Next]_vars, NEW q \in Request,
         UNCHANGED <<batch[q], todo[q], counts[q]>>
  PROVE  /\ Accounted(q) => Accounted(q)'
         /\ q \in receipts =>
              /\ counts'[q].accepted + counts'[q].duplicate = Len(batch'[q])
              /\ \A i \in DOMAIN batch'[q] : stored'[batch'[q][i]] > 0
<1> batch[q] \in Seq(Entry) /\ todo[q] \in Seq(Entry)
  BY DEF TypeOK
<1>1. \A e \in Entry : stored[e] > 0 => stored'[e] > 0
  <2>1. stored \in [Entry -> Nat] /\ stored' \in [Entry -> Nat]
    BY TypeStep DEF TypeOK
  <2> QED
    BY <2>1, StoredGrows
<1>2. ASSUME Accounted(q) PROVE Accounted(q)'
  <2>1. Processed(q) \in Nat /\ Processed(q)' = Processed(q)
    BY <1>2 DEF Accounted, Processed
  <2>2. ASSUME NEW i \in 1..Processed(q) PROVE batch[q][i] \in Entry
    <3>1. Len(batch[q]) \in Nat /\ Len(todo[q]) \in Nat
      OBVIOUS
    <3>2. i \in 1..Len(batch[q])
      BY <2>1, <3>1 DEF Processed
    <3> QED
      BY <3>2
  <2> QED
    BY <1>1, <1>2, <2>1, <2>2 DEF Accounted
<1>3. ASSUME q \in receipts
      PROVE  /\ counts'[q].accepted + counts'[q].duplicate = Len(batch'[q])
             /\ \A i \in DOMAIN batch'[q] : stored'[batch'[q][i]] > 0
  BY <1>1, <1>3 DEF ReceiptInv, ReceiptIsComplete
<1> QED
  BY <1>2, <1>3

(* An item of a bulk call is answered and accounted for.                   *)
LEMMA ItemAccounted ==
  ASSUME TypeOK, ReceiptInv, NEW r \in Request, Accept(r) \/ Refuse(r) \/ Reject(r), TypeOK',
         CurrentStored, \A e \in Entry : stored[e] <= stored'[e]
  PROVE  Accounted(r)'
<1> DEFINE n == Processed(r)
<1>1. /\ batch[r] \in Seq(Entry) /\ todo[r] \in Seq(Entry) /\ todo[r] # <<>>
      /\ todo'[r] = Tail(todo[r]) /\ batch'[r] = batch[r]
  BY DEF Accept, Refuse, Reject, Process, Sending, TypeOK
<1>2. Accounted(r)
  BY DEF ReceiptInv, Accept, Refuse, Reject, Process, Sending
<1>3. Len(todo'[r]) = Len(todo[r]) - 1 /\ Processed(r)' = n + 1 /\ n \in Nat
  <2>1. /\ Len(batch[r]) \in Nat /\ Len(todo[r]) \in Nat /\ Len(todo[r]) > 0
        /\ Len(todo'[r]) = Len(todo[r]) - 1
    BY <1>1
  <2>2. Len(todo[r]) <= Len(batch[r])
    BY <1>2 DEF Accounted
  <2>3. Processed(r)' = Len(batch[r]) - Len(todo'[r])
    BY <1>1 DEF Processed
  <2> QED
    BY <2>1, <2>2, <2>3 DEF Processed
<1>4. Head(todo[r]) = batch[r][n + 1]
  BY <1>1, <1>2 DEF Accounted
<1>5. \A i \in 1..Len(todo'[r]) : todo'[r][i] = batch[r][n + 1 + i]
  <2> TAKE i \in 1..Len(todo'[r])
  <2>1. todo'[r][i] = todo[r][i + 1] /\ i + 1 \in 1..Len(todo[r])
    BY <1>1, <1>3
  <2>2. todo[r][i + 1] = batch[r][n + (i + 1)]
    BY <1>2, <2>1 DEF Accounted
  <2> QED
    BY <1>3, <2>1, <2>2
<1>6. ASSUME counts'[r].rejected = FALSE
      PROVE  /\ counts'[r].accepted + counts'[r].duplicate = n + 1
             /\ stored'[batch[r][n + 1]] > 0
             /\ counts[r].rejected = FALSE
  <2>1. counts[r] \in Counts /\ counts \in [Request -> Counts]
    BY Zenon DEF TypeOK
  <2>2. stored \in [Entry -> Nat] /\ Head(todo[r]) \in Entry /\ current \subseteq Entry
    BY <1>1 DEF TypeOK
  <2>3. CASE Accept(r)
    <3>1. counts'[r] = [counts[r] EXCEPT !.accepted = @ + 1]
      BY <2>1, <2>3, Zenon DEF Accept, Process
    <3>2. stored'[Head(todo[r])] = stored[Head(todo[r])] + 1
      BY <2>2, <2>3 DEF Accept, WriteNew
    <3>3. counts[r].rejected = FALSE
      BY <1>6, <2>1, <3>1, Zenon
    <3>4. counts[r].accepted + counts[r].duplicate = n
      BY <1>2, <3>3 DEF Accounted
    <3>5. /\ counts'[r].accepted = counts[r].accepted + 1
          /\ counts'[r].duplicate = counts[r].duplicate
      BY <2>1, <3>1, Zenon
    <3> QED
      BY <1>3, <1>4, <2>1, <2>2, <3>2, <3>3, <3>4, <3>5
  <2>4. CASE Refuse(r)
    <3>a. counts' = [counts EXCEPT ![r] = CountDuplicate(counts[r])]
      BY <2>4 DEF Refuse, Process
    <3>b. counts'[r] = CountDuplicate(counts[r])
      BY <2>1, <3>a
    <3>1. counts'[r] = [counts[r] EXCEPT !.duplicate = @ + 1]
      BY <3>b DEF CountDuplicate
    <3>2. Head(todo[r]) \in current /\ stored' = stored
      BY <2>4 DEF Refuse, Fresh
    <3>3. counts[r].rejected = FALSE
      BY <1>6, <2>1, <3>1, Zenon
    <3>4. counts[r].accepted + counts[r].duplicate = n
      BY <1>2, <3>3 DEF Accounted
    <3>5. /\ counts'[r].accepted = counts[r].accepted
          /\ counts'[r].duplicate = counts[r].duplicate + 1
      BY <2>1, <3>1, Zenon
    <3> QED
      BY <1>3, <1>4, <2>1, <2>2, <3>2, <3>3, <3>4, <3>5 DEF CurrentStored
  <2>5. CASE Reject(r)
    <3>1. counts'[r] = [counts[r] EXCEPT !.rejected = TRUE]
      BY <2>1, <2>5, Zenon DEF Reject, Process, CountRejected
    <3> QED
      BY <1>6, <2>1, <3>1, Zenon
  <2> QED
    BY <2>3, <2>4, <2>5
<1>7. ASSUME counts[r].rejected = FALSE, NEW i \in 1..n PROVE stored'[batch[r][i]] > 0
  <2>0. stored[batch[r][i]] > 0
    BY <1>2, <1>7 DEF Accounted
  <2>1. batch[r][i] \in Entry
    <3>1. Len(batch[r]) \in Nat /\ Len(todo[r]) \in Nat
      BY <1>1
    <3>2. i \in 1..Len(batch[r])
      BY <1>3, <3>1 DEF Processed
    <3> QED
      BY <1>1, <3>2
  <2> QED
    BY <2>0, <2>1 DEF TypeOK
<1>8. ASSUME counts'[r].rejected = FALSE, NEW i \in 1..(n + 1)
      PROVE  stored'[batch[r][i]] > 0
  <2>1. i = n + 1 \/ i \in 1..n
    BY <1>3
  <2> QED
    BY <1>6, <1>7, <1>8, <2>1
<1>9. Len(todo'[r]) <= Len(batch'[r])
  BY <1>1, <1>2, <1>3 DEF Accounted
<1> HIDE DEF n
<1> QED
  BY <1>1, <1>3, <1>5, <1>6, <1>8, <1>9 DEF Accounted

(* No step breaks the receipts.                                            *)
LEMMA ReceiptStep ==
  TypeOK /\ CurrentStored /\ ReceiptInv /\ [Next]_vars => ReceiptInv'
<1> SUFFICES ASSUME TypeOK, CurrentStored, ReceiptInv, [Next]_vars PROVE ReceiptInv'
  OBVIOUS
<1> USE DEF ReceiptInv, ReceiptIsComplete
<1>0. TypeOK' /\ \A e \in Entry : stored[e] <= stored'[e]
  BY TypeStep, StoredGrows
<1>1. ASSUME NEW r \in Request,
             \A q \in Request \ {r} :
               /\ UNCHANGED <<pc[q], batch[q], todo[q], counts[q]>>
               /\ q \in receipts' <=> q \in receipts,
             receipts' \subseteq Request,
             pc'[r] # "done" => r \notin receipts' /\ Accounted(r)',
             pc'[r] = "idle" => counts'[r] = NothingYet,
             r \in receipts' =>
               /\ counts'[r].accepted + counts'[r].duplicate = Len(batch'[r])
               /\ \A i \in DOMAIN batch'[r] : stored'[batch'[r][i]] > 0
      PROVE  ReceiptInv'
  <2>1. ASSUME NEW q \in Request \ {r}
        PROVE  /\ pc'[q] # "done" => q \notin receipts' /\ Accounted(q)'
               /\ pc'[q] = "idle" => counts'[q] = NothingYet
               /\ q \in receipts' =>
                    /\ counts'[q].accepted + counts'[q].duplicate = Len(batch'[q])
                    /\ \A i \in DOMAIN batch'[q] : stored'[batch'[q][i]] > 0
    BY <1>1, OthersAccounted
  <2> QED
    BY <1>1, <2>1
<1>2. CASE UNCHANGED <<pc, batch, todo, counts, receipts>>
  <2>1. \A q \in Request : UNCHANGED <<batch[q], todo[q], counts[q]>>
    BY <1>2
  <2> QED
    BY <1>2, <2>1, OthersAccounted DEF TypeOK
<1>3. ASSUME NEW r \in Request, Accept(r) \/ Refuse(r) \/ Reject(r) PROVE ReceiptInv'
  <2>1. Accounted(r)'
    BY <1>0, <1>3, ItemAccounted
  <2>2. /\ pc[r] = "sending" /\ UNCHANGED <<pc, batch, receipts>>
        /\ \A q \in Request \ {r} : UNCHANGED <<todo[q], counts[q]>>
    BY <1>3, Zenon DEF Accept, Refuse, Reject, Process, Sending, TypeOK
  <2>3. pc'[r] = "sending" /\ r \notin receipts' /\ receipts' \subseteq Request
    BY <2>2 DEF TypeOK
  <2>4. \A q \in Request \ {r} :
          UNCHANGED <<pc[q], batch[q], todo[q], counts[q]>> /\ (q \in receipts' <=> q \in receipts)
    BY <2>2
  <2> QED
    BY <1>1, <2>1, <2>3, <2>4
<1>4. ASSUME NEW r \in Request, NEW b \in Batches \cup {<<>>}, Arrive(r, b) PROVE ReceiptInv'
  <2>1. /\ batch'[r] = b /\ todo'[r] = b /\ counts'[r] = NothingYet
        /\ pc'[r] = "entering" /\ UNCHANGED receipts /\ r \notin receipts
        /\ \A q \in Request \ {r} : UNCHANGED <<pc[q], batch[q], todo[q], counts[q]>>
    BY <1>4 DEF Arrive, TypeOK
  <2>2. batch'[r] \in Seq(Entry)
    BY <1>0 DEF TypeOK
  <2>3. Accounted(r)'
    <3>1. Len(b) \in Nat /\ Processed(r)' = 0
      BY <2>1, <2>2 DEF Processed
    <3> QED
      BY <2>1, <3>1 DEF Accounted
  <2>4. pc'[r] = "entering" /\ r \notin receipts' /\ receipts' \subseteq Request
    BY <2>1 DEF TypeOK
  <2>5. \A q \in Request \ {r} :
          UNCHANGED <<pc[q], batch[q], todo[q], counts[q]>> /\ (q \in receipts' <=> q \in receipts)
    BY <2>1
  <2> QED
    BY <1>1, <2>3, <2>4, <2>5
<1>5. ASSUME NEW r \in Request, EnsureResources(r) \/ Search(r) PROVE ReceiptInv'
  <2>1. /\ pc[r] # "done" /\ pc'[r] # "idle" /\ UNCHANGED <<batch, todo, counts, receipts>>
        /\ \A q \in Request \ {r} : UNCHANGED pc[q]
    BY <1>5 DEF EnsureResources, SetUp, Enter, TakeLock, Create, FailCreate, SetReady, Use,
                Search, TypeOK
  <2>2. Accounted(r)'
    BY <2>1, OthersAccounted
  <2>3. r \notin receipts' /\ receipts' \subseteq Request
    BY <2>1 DEF TypeOK
  <2>4. \A q \in Request \ {r} :
          UNCHANGED <<pc[q], batch[q], todo[q], counts[q]>> /\ (q \in receipts' <=> q \in receipts)
    BY <2>1
  <2> QED
    BY <1>1, <2>1, <2>2, <2>3, <2>4
<1>6. ASSUME NEW r \in Request, Answer(r) PROVE ReceiptInv'
  <2>1. /\ pc[r] = "sending" /\ pc'[r] = "done" /\ todo[r] = <<>>
        /\ UNCHANGED <<batch, counts, stored>> /\ receipts' = receipts \cup {r}
        /\ todo'[r] = <<>>
        /\ \A q \in Request \ {r} : UNCHANGED <<pc[q], todo[q]>>
    BY <1>6, Zenon DEF Answer, Close, TypeOK
  <2>2. counts[r].rejected = FALSE
    <3>1. counts[r] \in Counts /\ ~counts[r].rejected
      BY <1>6, Zenon DEF Answer, TypeOK
    <3> QED
      BY <3>1, Zenon
  <2>3. Processed(r) = Len(batch[r]) /\ DOMAIN batch[r] = 1..Len(batch[r])
    BY <2>1 DEF Processed, TypeOK
  <2>4. /\ counts[r].accepted + counts[r].duplicate = Len(batch[r])
        /\ \A i \in DOMAIN batch[r] : stored[batch[r][i]] > 0
    BY <2>1, <2>2, <2>3 DEF Accounted
  <2> QED
    BY <1>1, <2>1, <2>4 DEF TypeOK
<1>7. ASSUME NEW r \in Request, AnswerRejected(r) \/ GiveUp(r) PROVE ReceiptInv'
  <2>1. /\ pc[r] = "sending" /\ pc'[r] = "done" /\ UNCHANGED receipts
        /\ \A q \in Request \ {r} : UNCHANGED <<pc[q], batch[q], todo[q], counts[q]>>
    BY <1>7, Zenon DEF AnswerRejected, GiveUp, Fail, Close, TypeOK
  <2> QED
    BY <1>1, <2>1 DEF TypeOK
<1>8. ASSUME NEW r \in Request, Repeat(r) PROVE ReceiptInv'
  <2>1. /\ pc[r] = "sending" /\ UNCHANGED <<pc, batch, receipts>>
        /\ todo'[r] = batch[r] /\ counts'[r] = NothingYet
        /\ \A q \in Request \ {r} : UNCHANGED <<todo[q], counts[q]>>
    BY <1>8, Zenon DEF Repeat, Sending, ResetCounts, TypeOK
  <2>2. Accounted(r)'
    <3>1. batch[r] \in Seq(Entry) /\ batch'[r] = batch[r]
      BY <2>1 DEF TypeOK
    <3>2. Len(batch[r]) \in Nat /\ Processed(r)' = 0
      BY <2>1, <3>1 DEF Processed
    <3> QED
      BY <2>1, <3>1, <3>2 DEF Accounted
  <2>3. pc'[r] = "sending" /\ r \notin receipts' /\ receipts' \subseteq Request
    BY <2>1 DEF TypeOK
  <2>4. \A q \in Request \ {r} :
          UNCHANGED <<pc[q], batch[q], todo[q], counts[q]>> /\ (q \in receipts' <=> q \in receipts)
    BY <2>1
  <2> QED
    BY <1>1, <2>2, <2>3, <2>4
<1> QED
  BY <1>2, <1>3, <1>4, <1>5, <1>6, <1>7, <1>8, Zenon
  DEF Next, Serve, vars, RollOver, WriteStray

(* A receipt accounts for every entry of its batch, and all of them are    *)
(* stored (elasticsearch_logs.py append, pipeline_logs.py).                *)
THEOREM ReceiptsAreComplete == Spec => []ReceiptIsComplete
<1>1. Init => StreamInv /\ ReceiptInv
  <2>1. Init => StreamInv
    BY TypeInit DEF Init, StreamInv, CopiesCounted, CurrentStored
  <2>2. ASSUME Init PROVE ReceiptInv
    <3>1. ASSUME NEW r \in Request PROVE Accounted(r)
      <4>1. batch[r] = <<>> /\ todo[r] = <<>> /\ counts[r] = NothingYet
        BY <2>2 DEF Init
      <4>2. Processed(r) = 0 /\ Len(todo[r]) = 0 /\ Len(batch[r]) = 0
        BY <4>1 DEF Processed
      <4> QED
        BY <4>1, <4>2 DEF Accounted
    <3> QED
      BY <2>2, <3>1 DEF Init, ReceiptInv, ReceiptIsComplete
  <2> QED
    BY <2>1, <2>2
<1>2. StreamInv /\ ReceiptInv /\ [Next]_vars => (StreamInv /\ ReceiptInv)'
  BY StreamStep, ReceiptStep DEF StreamInv
<1>3. ReceiptInv => ReceiptIsComplete
  BY DEF ReceiptInv
<1> QED
  BY <1>1, <1>2, <1>3, PTL DEF Spec
-----------------------------------------------------------------------------
(* What the calls under way have counted so far is claimed as well.        *)
ClaimsInv ==
  /\ IsFiniteSet(Copies) /\ IsFiniteSet(ClaimsOf(Request))
  /\ Cardinality(ClaimsOf(Request)) <= Cardinality(Copies)

(* A write adds one copy.                                                  *)
LEMMA WriteAddsCopy ==
  ASSUME TypeOK, NEW e \in Entry, WriteNew(e), IsFiniteSet(Copies)
  PROVE  IsFiniteSet(Copies') /\ Cardinality(Copies') = Cardinality(Copies) + 1
<1> DEFINE new == <<e, stored[e] + 1>>
<1>1. stored[e] \in Nat /\ stored'[e] = stored[e] + 1
      /\ \A d \in Entry \ {e} : stored'[d] = stored[d]
  BY DEF TypeOK, WriteNew
<1>2. 1..stored'[e] = (1..stored[e]) \cup {stored[e] + 1}
  BY <1>1
<1>3. new \notin Copies
  BY <1>1 DEF Copies
<1>4. Copies' = Copies \cup {new}
  <2>1. ASSUME NEW x PROVE x \in Copies' <=> x \in Copies \cup {new}
    <3>1. x \in Copies' <=> \E d \in Entry : \E n \in 1..stored'[d] : x = <<d, n>>
      BY DEF Copies
    <3>2. x \in Copies <=> \E d \in Entry : \E n \in 1..stored[d] : x = <<d, n>>
      BY DEF Copies
    <3> QED
      BY <1>1, <1>2, <3>1, <3>2, Zenon
  <2> QED
    BY <2>1, Zenon
<1> QED
  BY <1>3, <1>4, FS_AddElement

(* A request counts one more.                                              *)
LEMMA AcceptAddsClaim ==
  ASSUME TypeOK, NEW r \in Request, Accept(r), IsFiniteSet(ClaimsOf(Request))
  PROVE  /\ IsFiniteSet(ClaimsOf(Request)')
         /\ Cardinality(ClaimsOf(Request)') = Cardinality(ClaimsOf(Request)) + 1
<1> DEFINE new == <<r, counts[r].accepted + 1>>
<1>1. /\ counts[r].accepted \in Nat /\ counts'[r].accepted = counts[r].accepted + 1
      /\ \A q \in Request \ {r} : counts'[q] = counts[q]
  <2>1. counts \in [Request -> Counts] /\ counts[r] \in Counts
    BY Zenon DEF TypeOK
  <2>2. counts' = [counts EXCEPT ![r] = [counts[r] EXCEPT !.accepted = @ + 1]]
    BY DEF Accept, Process
  <2> QED
    BY <2>1, <2>2
<1>2. 1..counts'[r].accepted = (1..counts[r].accepted) \cup {counts[r].accepted + 1}
  BY <1>1
<1>3. new \notin ClaimsOf(Request)
  BY <1>1 DEF ClaimsOf
<1>4. ClaimsOf(Request)' = ClaimsOf(Request) \cup {new}
  <2>1. ASSUME NEW x PROVE x \in ClaimsOf(Request)' <=> x \in ClaimsOf(Request) \cup {new}
    <3>1. x \in ClaimsOf(Request)' <=>
            \E q \in Request : \E n \in 1..counts'[q].accepted : x = <<q, n>>
      BY DEF ClaimsOf
    <3>2. x \in ClaimsOf(Request) <=>
            \E q \in Request : \E n \in 1..counts[q].accepted : x = <<q, n>>
      BY DEF ClaimsOf
    <3> QED
      BY <1>1, <1>2, <3>1, <3>2, Zenon
  <2> QED
    BY <2>1, Zenon
<1> QED
  BY <1>3, <1>4, FS_AddElement

(* A repeated or failed call gives up what it has counted.                 *)
LEMMA ClaimsShrink ==
  ASSUME TypeOK, \A r \in Request : counts'[r].accepted \in {0, counts[r].accepted},
         IsFiniteSet(ClaimsOf(Request))
  PROVE  /\ IsFiniteSet(ClaimsOf(Request)')
         /\ Cardinality(ClaimsOf(Request)') <= Cardinality(ClaimsOf(Request))
<1>1. \A r \in Request : 1..counts'[r].accepted \subseteq 1..counts[r].accepted
  OBVIOUS
<1>2. ClaimsOf(Request)' \subseteq ClaimsOf(Request)
  BY <1>1 DEF ClaimsOf
<1> QED
  BY <1>2, FS_Subset

(* No step claims more than it stores.                                     *)
LEMMA ClaimsStep == TypeOK /\ ClaimsInv /\ [Next]_vars => ClaimsInv'
<1> SUFFICES ASSUME TypeOK, ClaimsInv, [Next]_vars PROVE ClaimsInv'
  OBVIOUS
<1>0. /\ Cardinality(Copies) \in Nat /\ Cardinality(ClaimsOf(Request)) \in Nat
      /\ IsFiniteSet(Copies) /\ IsFiniteSet(ClaimsOf(Request))
  BY FS_CardinalityType DEF ClaimsInv
<1>1. ASSUME NEW r \in Request, Accept(r) PROVE ClaimsInv'
  <2>1. Head(todo[r]) \in Entry /\ WriteNew(Head(todo[r]))
    <3>1. todo[r] \in Seq(Entry) /\ todo[r] # <<>> /\ WriteNew(Head(todo[r]))
      BY <1>1 DEF Accept, Process, TypeOK
    <3> QED
      BY <3>1
  <2> QED
    BY <1>0, <1>1, <2>1, WriteAddsCopy, AcceptAddsClaim DEF ClaimsInv
<1>2. ASSUME IsFiniteSet(Copies'), Cardinality(Copies) <= Cardinality(Copies'),
             \A r \in Request : counts'[r].accepted \in {0, counts[r].accepted}
      PROVE  ClaimsInv'
  <2>1. /\ IsFiniteSet(ClaimsOf(Request)')
        /\ Cardinality(ClaimsOf(Request)') <= Cardinality(ClaimsOf(Request))
    BY <1>0, <1>2, ClaimsShrink
  <2>2. Cardinality(Copies') \in Nat /\ Cardinality(ClaimsOf(Request)') \in Nat
    BY <1>2, <2>1, FS_CardinalityType
  <2> QED
    BY <1>0, <1>2, <2>1, <2>2 DEF ClaimsInv
<1>3. ASSUME UNCHANGED stored,
             \A r \in Request : counts'[r].accepted \in {0, counts[r].accepted}
      PROVE  ClaimsInv'
  <2>1. Copies' = Copies
    BY <1>3 DEF Copies
  <2> QED
    BY <1>0, <1>2, <1>3, <2>1
<1>4. ASSUME NEW e \in Entry, WriteStray(e) PROVE ClaimsInv'
  <2>1. UNCHANGED counts /\ (WriteNew(e) \/ UNCHANGED stored)
    BY <1>4 DEF WriteStray
  <2>2. CASE WriteNew(e)
    BY <1>0, <1>2, <2>1, <2>2, WriteAddsCopy
  <2> QED
    BY <1>3, <2>1, <2>2
<1>5. ASSUME NEW r \in Request, Refuse(r) \/ Reject(r) PROVE ClaimsInv'
  <2>1. counts \in [Request -> Counts]
    BY Zenon DEF TypeOK
  <2>2. UNCHANGED stored /\ \E c \in {CountDuplicate(counts[r]), CountRejected(counts[r])} :
          counts' = [counts EXCEPT ![r] = c]
    BY <1>5, Zenon DEF Refuse, Reject, Process
  <2>3. \A c \in {CountDuplicate(counts[r]), CountRejected(counts[r])} :
          c.accepted = counts[r].accepted
    BY <2>1 DEF CountDuplicate, CountRejected
  <2> QED
    BY <1>3, <2>1, <2>2, <2>3
<1>6. ASSUME NEW r \in Request, Repeat(r) \/ AnswerRejected(r) \/ GiveUp(r) PROVE ClaimsInv'
  <2>1. counts \in [Request -> Counts]
    BY Zenon DEF TypeOK
  <2>2. UNCHANGED stored /\ counts' = [counts EXCEPT ![r] = NothingYet]
    BY <1>6, Zenon DEF Repeat, ResetCounts, AnswerRejected, GiveUp, Fail
  <2> QED
    BY <1>3, <2>1, <2>2
<1>7. CASE UNCHANGED <<stored, counts>>
  BY <1>3, <1>7
<1> QED
  BY <1>1, <1>4, <1>5, <1>6, <1>7, Zenon
  DEF Next, Serve, vars, Arrive, EnsureResources, Search, Answer, RollOver

(* All receipts together claim no more than was stored, for any number of  *)
(* requests and entries (elasticsearch_logs.py append).                    *)
THEOREM ClaimsAreStored == Spec => []AcceptedAreStored
<1>1. Init => ClaimsInv
  <2> SUFFICES ASSUME Init PROVE ClaimsInv
    OBVIOUS
  <2>1. Copies = {} /\ ClaimsOf(Request) = {}
    BY DEF Init, Copies, ClaimsOf
  <2> QED
    BY <2>1, FS_EmptySet DEF ClaimsInv
<1>2. TypeOK /\ ClaimsInv => AcceptedAreStored
  <2> SUFFICES ASSUME TypeOK, ClaimsInv PROVE AcceptedAreStored
    OBVIOUS
  <2>1. ClaimsOf(receipts) \subseteq ClaimsOf(Request)
    BY DEF ClaimsOf, TypeOK
  <2>2. /\ IsFiniteSet(ClaimsOf(receipts))
        /\ Cardinality(ClaimsOf(receipts)) <= Cardinality(ClaimsOf(Request))
    BY <2>1, FS_Subset DEF ClaimsInv
  <2> QED
    BY <2>2, FS_CardinalityType DEF ClaimsInv, AcceptedAreStored
<1> QED
  BY <1>1, <1>2, TypeInit, TypeStep, ClaimsStep, PTL DEF Spec
=============================================================================
