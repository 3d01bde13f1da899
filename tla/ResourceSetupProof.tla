--------------------------- MODULE ResourceSetupProof ---------------------------
(***************************************************************************)
(* What every step of the set-up keeps, for any number of requests, stores *)
(* and resources.                                                          *)
(***************************************************************************)
EXTENDS ResourceSetup, TLAPS

USE DEF setup, SetupStep, Proceed

(* No step of the set-up leaves the types.                                 *)
LEMMA SetupTypeStep ==
  ASSUME SetupTypeOK, NEW r \in Request, NEW use, SetUp(r, use) PROVE SetupTypeOK'
<1> USE CallsAssumption, StoreOfAssumption DEF SetupTypeOK
<1>1. CASE Enter(r, use)
  BY <1>1 DEF Enter
<1>2. CASE TakeLock(r, use)
  BY <1>2 DEF TakeLock
<1>3. CASE Create(r)
  <2>1. call[r] \in 1..Calls /\ call[r] + 1 \in 1..(Calls + 1)
    BY <1>3 DEF Create
  <2>2. made' \subseteq 1..Calls
    BY <1>3, <2>1 DEF Create
  <2>3. call' \in [Request -> 1..(Calls + 1)]
    BY <1>3, <2>1 DEF Create
  <2> QED
    BY <1>3, <2>2, <2>3 DEF Create
<1>4. CASE FailCreate(r)
  BY <1>4 DEF FailCreate, Release
<1>5. CASE SetReady(r, use)
  BY <1>5 DEF SetReady, Release
<1> QED
  BY <1>1, <1>2, <1>3, <1>4, <1>5 DEF SetUp

(* What a thread's next call builds on has been made.                      *)
CallsMade == \A r \in Request : 1..(call[r] - 1) \subseteq made

(* No step of the set-up breaks its discipline.                            *)
LEMMA SetupAdvances ==
  ASSUME SetupTypeOK, NEW Step, pc \in [Request -> Step],
         SetUpBeforeUse, CallsMade,
         NEW r \in Request, NEW use, use \notin SetupStep \cup {"idle", "done"}, SetUp(r, use)
  PROVE  SetUpBeforeUse' /\ CallsMade'
<1> USE StoreOfAssumption, NobodyAssumption, CallsAssumption
    DEF SetupTypeOK, SetUpBeforeUse, CallsMade
<1> /\ StoreOf[r] \in Store /\ call[r] \in 1..(Calls + 1)
    /\ made \subseteq 1..Calls /\ 1..(call[r] - 1) \subseteq made
  OBVIOUS
<1>1. CASE Enter(r, use)
  <2>1. UNCHANGED setup /\ pc[r] = "entering" /\ pc'[r] # "creating"
    BY <1>1 DEF Enter
  <2>2. \A q \in Request \ {r} : pc'[q] = pc[q]
    BY <1>1 DEF Enter
  <2>3. pc'[r] # "waiting" => ready[StoreOf[r]]
    BY <1>1 DEF Enter
  <2>4. \A s \in Store : holder[s] # Nobody => holder[s] \in Request \ {r}
    BY <2>1
  <2>5. \A q \in Request : pc'[q] = "creating" => holder'[StoreOf[q]] = q
    BY <2>1, <2>2
  <2>6. \A q \in Request :
          pc'[q] \notin SetupStep \cup {"idle", "done"} => ready'[StoreOf[q]]
    BY <2>1, <2>2, <2>3
  <2> QED
    BY <2>1, <2>2, <2>4, <2>5, <2>6
<1>2. CASE TakeLock(r, use)
  <2>1. /\ UNCHANGED <<made, ready, call>>
        /\ pc[r] = "waiting" /\ \A q \in Request \ {r} : pc'[q] = pc[q]
        /\ holder[StoreOf[r]] = Nobody
        /\ \A s \in Store \ {StoreOf[r]} : holder'[s] = holder[s]
    BY <1>2 DEF TakeLock, LockFree
  <2>2. CASE ready[StoreOf[r]]
    <3>1. holder' = holder /\ pc'[r] = use
      BY <1>2, <2>1, <2>2 DEF TakeLock
    <3> QED
      BY <2>1, <2>2, <3>1
  <2>3. CASE ~ready[StoreOf[r]]
    <3>1. holder'[StoreOf[r]] = r /\ pc'[r] = "creating"
      BY <1>2, <2>3 DEF TakeLock
    <3>2. \A q \in Request \ {r} : pc'[q] = "creating" => StoreOf[q] # StoreOf[r]
      BY <2>1
    <3>3. \A s \in Store \ {StoreOf[r]} : holder'[s] # Nobody => holder'[s] # r
      BY <2>1
    <3>4. \A s \in Store : holder'[s] # Nobody =>
            pc'[holder'[s]] = "creating" /\ StoreOf[holder'[s]] = s
      BY <2>1, <3>1, <3>3
    <3>5. \A q \in Request : pc'[q] = "creating" => holder'[StoreOf[q]] = q
      BY <2>1, <3>1, <3>2
    <3>6. \A q \in Request :
            pc'[q] \notin SetupStep \cup {"idle", "done"} => ready'[StoreOf[q]]
      BY <2>1, <3>1
    <3> QED
      BY <2>1, <3>4, <3>5, <3>6
  <2> QED
    BY <2>2, <2>3
<1>3. CASE Create(r)
  <2>0. /\ call[r] \in 1..Calls /\ made' = made \cup {call[r]}
        /\ UNCHANGED <<ready, holder>>
    BY <1>3 DEF Create
  <2>1. made \subseteq made' /\ made' \subseteq 1..Calls /\ UNCHANGED <<ready, holder>>
    BY <2>0
  <2>2. call'[r] = call[r] + 1 /\ call[r] \in made' /\ 1..(call[r] - 1) \subseteq made'
    BY <1>3, <2>1 DEF Create
  <2>3. 1..(call'[r] - 1) \subseteq made'
    BY <2>2
  <2>4. \A q \in Request \ {r} : call'[q] = call[q]
    BY <1>3 DEF Create
  <2>5. pc' = pc
    BY <1>3 DEF Create
  <2>6. CallsMade'
    BY <2>1, <2>3, <2>4, <2>5
  <2>7. \A s \in Store : ready[s] => made' = 1..Calls
    BY <2>1
  <2> QED
    BY <2>1, <2>5, <2>6, <2>7
<1>4. CASE FailCreate(r) \/ SetReady(r, use)
  <2>1. /\ pc[r] = "creating" /\ \A q \in Request \ {r} : pc'[q] = pc[q]
        /\ holder'[StoreOf[r]] = Nobody
        /\ \A s \in Store \ {StoreOf[r]} : holder'[s] = holder[s]
        /\ call'[r] = 1 /\ \A q \in Request \ {r} : call'[q] = call[q]
    BY <1>4 DEF FailCreate, SetReady, Release
  <2>2. made \subseteq made' /\ made' \subseteq 1..Calls
    <3>1. CASE FailCreate(r)
      <4>1. call[r] \in 1..Calls
        BY <3>1 DEF FailCreate
      <4> QED
        BY <3>1, <4>1 DEF FailCreate
    <3>2. CASE SetReady(r, use)
      BY <3>2 DEF SetReady
    <3> QED
      BY <1>4, <3>1, <3>2
  <2>3. /\ pc'[r] # "creating"
        /\ \A s \in Store : ready[s] => ready'[s]
        /\ \A s \in Store : ready'[s] => made' = 1..Calls
        /\ pc'[r] # "done" => ready'[StoreOf[r]]
    <3>1. CASE FailCreate(r)
      BY <2>2, <3>1 DEF FailCreate
    <3>2. CASE SetReady(r, use)
      <4>1. made = 1..Calls
        <5>1. call[r] - 1 = Calls
          BY <3>2 DEF SetReady, AllCalled
        <5> QED
          BY <5>1
      <4> QED
        BY <3>2, <4>1 DEF SetReady
    <3> QED
      BY <1>4, <3>1, <3>2
  <2>4. \A s \in Store : holder'[s] # Nobody => holder'[s] # r
    BY <2>1
  <2>5. \A q \in Request \ {r} : pc[q] = "creating" => StoreOf[q] # StoreOf[r]
    BY <2>1
  <2>6. CallsMade'
    BY <2>1, <2>2, <2>3
  <2>7. \A s \in Store : holder'[s] # Nobody =>
          pc'[holder'[s]] = "creating" /\ StoreOf[holder'[s]] = s
    BY <2>1, <2>4
  <2>8. \A q \in Request : pc'[q] = "creating" => holder'[StoreOf[q]] = q
    BY <2>1, <2>3, <2>5
  <2>9. \A q \in Request :
          pc'[q] \notin SetupStep \cup {"idle", "done"} => ready'[StoreOf[q]]
    BY <2>1, <2>3
  <2> QED
    BY <2>3, <2>6, <2>7, <2>8, <2>9
<1> QED
  BY <1>1, <1>2, <1>3, <1>4 DEF SetUp
=============================================================================
