---------------------------- MODULE ResourceSetup ----------------------------
(***************************************************************************)
(* How a store object of a worker process sets up its Elasticsearch        *)
(* resources before the first request uses them: a flag that is read       *)
(* without the lock, then again under it, then the calls that create the   *)
(* resources one after the other, and the flag last.  The threads of a     *)
(* process share its store; the processes share Elasticsearch.             *)
(*                                                                         *)
(* The log store and the knowledge store both extend this module.          *)
(***************************************************************************)
EXTENDS Naturals

CONSTANTS
  Request,   \* requests, each of which is served once by a thread of its own
  Store,     \* one store object per worker process
  StoreOf,   \* the store of the process that serves each request
  Calls,     \* how many calls create the resources
  Nobody     \* the lock is free

ASSUME StoreOfAssumption == StoreOf \in [Request -> Store]
ASSUME CallsAssumption == Calls \in Nat
ASSUME NobodyAssumption == Nobody \notin Request

VARIABLES
  made,    \* the resources that exist, each numbered as the call for it
  ready,   \* _resources_ready of each store
  holder,  \* the request whose thread holds each store's lock
  pc,      \* what each request does next
  call     \* the next call of each request that sets the resources up

setup == <<made, ready, holder, call>>

SetupStep == {"entering", "waiting", "creating"}

(* A process starts; earlier ones may have set up everything, nothing, or  *)
(* died in between.                                                        *)
SetupInit ==
  /\ made \in {1..n : n \in 0..Calls}
  /\ ready = [s \in Store |-> FALSE]
  /\ holder = [s \in Store |-> Nobody]
  /\ pc = [r \in Request |-> "idle"]
  /\ call = [r \in Request |-> 1]
-----------------------------------------------------------------------------
Proceed(r, from, to) == pc[r] = from /\ pc' = [pc EXCEPT ![r] = to]

(* The first look at the flag takes no lock.                               *)
Enter(r, use) ==
  /\ Proceed(r, "entering", IF ready[StoreOf[r]] THEN use ELSE "waiting")
  /\ UNCHANGED setup

LockFree(s) == holder[s] = Nobody

(* The second look, with the lock, which is kept only to set up.           *)
TakeLock(r, use) ==
  LET s == StoreOf[r] IN
  /\ LockFree(s)
  /\ Proceed(r, "waiting", IF ready[s] THEN use ELSE "creating")
  /\ holder' = [holder EXCEPT ![s] = IF ready[s] THEN Nobody ELSE r]
  /\ UNCHANGED <<made, ready, call>>

(* A resource is refused while one that it is built on is missing; one     *)
(* that already exists is replaced or left as it is.                       *)
Create(r) ==
  /\ Proceed(r, "creating", "creating")
  /\ call[r] <= Calls /\ 1..(call[r] - 1) \subseteq made
  /\ made' = made \cup {call[r]}
  /\ call' = [call EXCEPT ![r] = @ + 1]
  /\ UNCHANGED <<ready, holder>>

KeepLock(r) == holder' = holder /\ call' = [call EXCEPT ![r] = 1]
Release(r) ==
  /\ holder' = [holder EXCEPT ![StoreOf[r]] = Nobody]
  /\ call' = [call EXCEPT ![r] = 1]

(* A call fails; it may have been carried out all the same.                *)
FailCreate(r) ==
  /\ Proceed(r, "creating", "done")
  /\ call[r] <= Calls
  /\ made' \in {made, made \cup {call[r]}}
  /\ Release(r)
  /\ UNCHANGED ready

AnyCall(r) == call[r] \in Nat
AllCalled(r) == call[r] = Calls + 1

SetReady(r, use) ==
  /\ AllCalled(r)
  /\ Proceed(r, "creating", use)
  /\ ready' = [ready EXCEPT ![StoreOf[r]] = TRUE]
  /\ Release(r)
  /\ UNCHANGED made

SetUp(r, use) ==
  Enter(r, use) \/ TakeLock(r, use) \/ Create(r) \/ FailCreate(r) \/ SetReady(r, use)
-----------------------------------------------------------------------------
SetupTypeOK ==
  /\ made \subseteq 1..Calls
  /\ ready \in [Store -> BOOLEAN]
  /\ holder \in [Store -> Request \cup {Nobody}]
  /\ call \in [Request -> 1..(Calls + 1)]

(* A store is used only when everything it needs exists, also when two     *)
(* threads or two processes set up at once or one of them fails half-way;  *)
(* and its lock is held by the one thread that sets it up, never left held *)
(* after a failure.                                                        *)
SetUpBeforeUse ==
  /\ \A s \in Store :
       /\ ready[s] => made = 1..Calls
       /\ holder[s] # Nobody =>
            pc[holder[s]] = "creating" /\ StoreOf[holder[s]] = s
  /\ \A r \in Request :
       /\ pc[r] \notin SetupStep \cup {"idle", "done"} => ready[StoreOf[r]]
       /\ pc[r] = "creating" => holder[StoreOf[r]] = r
=============================================================================
