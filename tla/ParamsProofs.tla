---------------------------- MODULE ParamsProofs ----------------------------
(***************************************************************************)
(* Proofs about ParamsStore, for any clients, keys and values: its types,  *)
(* the order of asynchronous writes, that it implements DurableStore, and  *)
(* that a queue is empty when its Params goes, if no push was missed.      *)
(***************************************************************************)
EXTENDS ParamsStore, SequenceTheorems, TLAPS

\* A job that thread t can be in.  A call that has not begun has its keys before it; one
\* that waits for the directory has none left; a thread between calls holds nothing.
JobOK(t, j) ==
  /\ j.pc \in {"idle", "pop", "exit", "pushed"} => j = At(j.pc)
  /\ j.pc \in {"write", "lock"} => ~Begun(j)
  /\ j.pc \in {"apply", "write", "lock"} => j.todo # {}
  /\ j.pc = "sync" => j.todo = {}
  /\ j.pc \in {"write", "lock", "apply", "sync", "unlock"} =>
       \/ j.op = "clear" /\ j.todo \subseteq ClearedKeys
       \/ j.op \in {"put", "remove"} /\ \E k \in Keys : j.todo \subseteq {k}
  /\ j.pc = "unlock" /\ j.op = "clear" => j.todo = {}

JobInv == \A t \in Threads : JobOK(t, job[t])

\* Enough to carry every step: the types, the jobs and the queues.
StoreInv ==
  /\ TypeOK
  /\ JobInv
  /\ AsyncInOrder
  /\ \A c \in Clients : pushed[c] <= calls

-----------------------------------------------------------------------------

\* A client has two threads, different from one another and from another client's.
LEMMA ThreadsOf ==
  /\ \A c \in Clients : /\ main(c) \in Threads /\ worker(c) \in Threads
                        /\ main(c) # worker(c)
                        /\ main(c)[1] = c /\ worker(c)[1] = c
                        /\ main(c)[2] = "main" /\ worker(c)[2] = "worker"
  /\ NoThread \notin Threads
BY ParamsAssumption DEF Threads, main, worker

\* Resting jobs are jobs, and hold nothing.
LEMMA AtIsJob ==
  ASSUME NEW pc \in Pcs
  PROVE  /\ At(pc) \in Job /\ At(pc).pc = pc /\ At(pc).op = "none"
         /\ At(pc).todo = {} /\ At(pc).val = Absent
BY DEF At, Job, Operations

LEMMA RestIsJob ==
  ASSUME NEW t \in Threads
  PROVE  /\ Rest(t) \in Job /\ Rest(t).pc \in {"idle", "pop"} /\ Rest(t) = At(Rest(t).pc)
         /\ Rest(t).op = "none" /\ Rest(t).todo = {} /\ Rest(t).val = Absent
BY AtIsJob DEF Rest, Pcs

LEMMA CallsAreJobs ==
  /\ \A k \in Keys, v \in Values :
       /\ Put(k, v) \in Job /\ Put(k, v).pc = "write" /\ Put(k, v).op = "put"
       /\ Put(k, v).todo = {k} /\ Put(k, v).val = v
  /\ \A op \in Operations, S \in SUBSET Keys :
       /\ Removal(op, S) \in Job /\ Removal(op, S).pc = "lock" /\ Removal(op, S).op = op
       /\ Removal(op, S).todo = S /\ Removal(op, S).val = Absent
BY DEF Put, Removal, Job, Pcs, Operations

-----------------------------------------------------------------------------

LEMMA InitStore == Init => StoreInv
<1> SUFFICES ASSUME Init PROVE StoreInv
  OBVIOUS
<1>1. \A t \in Threads : job[t] = At("idle")
  BY DEF Init
<1>2. At("idle") \in Job /\ At("idle").pc = "idle" /\ At("idle").op = "none"
  BY AtIsJob DEF Pcs
<1>3. TypeOK
  <2>1. queue \in [Clients -> Seq(Write)]
    BY DEF Init
  <2>2. job \in [Threads -> Job]
    BY <1>2 DEF Init
  <2>3. \A t \in Threads : job[t].pc \in {"apply", "sync", "unlock"} <=> lock = t
    BY <1>1, <1>2, ThreadsOf DEF Init
  <2> QED BY <2>1, <2>2, <2>3, ParamsAssumption DEF Init, TypeOK
<1>4. JobInv
  BY <1>1, <1>2 DEF JobInv, JobOK
<1>5. AsyncInOrder
  BY DEF Init, AsyncInOrder
<1> QED BY <1>3, <1>4, <1>5 DEF StoreInv, Init

-----------------------------------------------------------------------------

\* One thread's job changes, and the lock with it: types and jobs are kept.
LEMMA JobChanges ==
  ASSUME TypeOK, JobInv, NEW t \in Threads, NEW j \in Job, JobOK(t, j),
         job' = [job EXCEPT ![t] = j], lock' \in Threads \cup {NoThread},
         \/ /\ lock' = lock
            /\ j.pc \in {"apply", "sync", "unlock"} <=> lock = t
         \/ /\ lock = NoThread /\ lock' = t
            /\ j.pc \in {"apply", "sync", "unlock"}
         \/ /\ lock = t /\ lock' = NoThread
            /\ j.pc \notin {"apply", "sync", "unlock"}
  PROVE  /\ job' \in [Threads -> Job]
         /\ \A u \in Threads : job'[u].pc \in {"apply", "sync", "unlock"} <=> lock' = u
         /\ JobInv'
<1>1. job \in [Threads -> Job]
  BY DEF TypeOK
<1>2. job'[t] = j /\ \A u \in Threads \ {t} : job'[u] = job[u]
  BY <1>1
<1>3. JobInv'
  BY <1>2 DEF JobInv
<1>4. \A u \in Threads : job'[u].pc \in {"apply", "sync", "unlock"} <=> lock' = u
  BY <1>2, ThreadsOf DEF TypeOK
<1> QED BY <1>1, <1>3, <1>4

\* A write pushed or taken leaves the queues in order.
LEMMA PushKeepsOrder ==
  ASSUME TypeOK, AsyncInOrder, NEW c \in Clients, NEW w \in Write, w.n = pushed[c] + 1,
         queue' = [queue EXCEPT ![c] = Append(@, w)],
         pushed' = [pushed EXCEPT ![c] = @ + 1], taken' = taken
  PROVE  AsyncInOrder' /\ queue' \in [Clients -> Seq(Write)]
<1>1. /\ queue \in [Clients -> Seq(Write)]
      /\ pushed \in [Clients -> 0..MaxCalls] /\ taken \in [Clients -> 0..MaxCalls]
  BY DEF TypeOK
<1>2. queue[c] \in Seq(Write) /\ Append(queue[c], w) \in Seq(Write)
  BY <1>1
<1>3. Len(Append(queue[c], w)) = Len(queue[c]) + 1
  BY <1>2
<1>4. \A i \in 1..Len(queue[c]) + 1 :
        Append(queue[c], w)[i] = IF i = Len(queue[c]) + 1 THEN w ELSE queue[c][i]
  BY <1>2
<1>5. Len(queue[c]) = pushed[c] - taken[c] /\ \A i \in 1..Len(queue[c]) : queue[c][i].n = taken[c] + i
  BY DEF AsyncInOrder
<1>6. \A i \in 1..Len(queue[c]) + 1 : Append(queue[c], w)[i].n = taken[c] + i
  BY <1>1, <1>2, <1>4, <1>5, ParamsAssumption
<1>7. /\ queue'[c] = Append(queue[c], w) /\ pushed'[c] = pushed[c] + 1
      /\ \A d \in Clients \ {c} : queue'[d] = queue[d] /\ pushed'[d] = pushed[d]
  <2>1. DOMAIN queue = Clients /\ DOMAIN pushed = Clients
    BY <1>1
  <2> QED BY <2>1
<1>8. AsyncInOrder'
  <2> SUFFICES ASSUME NEW d \in Clients
               PROVE  /\ Len(queue'[d]) = pushed'[d] - taken'[d]
                      /\ \A i \in 1..Len(queue'[d]) : queue'[d][i].n = taken'[d] + i
    BY DEF AsyncInOrder
  <2>1. CASE d = c
    BY <2>1, <1>1, <1>3, <1>5, <1>6, <1>7, ParamsAssumption
  <2>2. CASE d # c
    BY <2>2, <1>7 DEF AsyncInOrder
  <2> QED BY <2>1, <2>2
<1> QED BY <1>1, <1>2, <1>8

LEMMA PopKeepsOrder ==
  ASSUME TypeOK, AsyncInOrder, NEW c \in Clients, queue[c] # <<>>,
         queue' = [queue EXCEPT ![c] = Tail(@)],
         taken' = [taken EXCEPT ![c] = Head(queue[c]).n], pushed' = pushed
  PROVE  /\ AsyncInOrder' /\ queue' \in [Clients -> Seq(Write)]
         /\ taken' \in [Clients -> 0..MaxCalls]
         /\ Head(queue[c]) \in Write
<1>1. /\ queue \in [Clients -> Seq(Write)]
      /\ pushed \in [Clients -> 0..MaxCalls] /\ taken \in [Clients -> 0..MaxCalls]
  BY DEF TypeOK
<1>2. /\ queue[c] \in Seq(Write) /\ Tail(queue[c]) \in Seq(Write)
      /\ Head(queue[c]) \in Write /\ Head(queue[c]) = queue[c][1]
      /\ Len(queue[c]) \in Nat /\ Len(queue[c]) >= 1
  BY <1>1
<1>3. Len(Tail(queue[c])) = Len(queue[c]) - 1
  BY <1>2
<1>4. \A i \in 1..Len(queue[c]) - 1 : Tail(queue[c])[i] = queue[c][i + 1]
  BY <1>2
<1>5. Len(queue[c]) = pushed[c] - taken[c] /\ \A i \in 1..Len(queue[c]) : queue[c][i].n = taken[c] + i
  BY DEF AsyncInOrder
<1>6. Head(queue[c]).n = taken[c] + 1
  BY <1>2, <1>5
<1>7. taken[c] + 1 \in 0..MaxCalls
  BY <1>1, <1>2, <1>5, ParamsAssumption
<1>8. /\ queue'[c] = Tail(queue[c]) /\ taken'[c] = taken[c] + 1 /\ pushed'[c] = pushed[c]
      /\ \A d \in Clients \ {c} : queue'[d] = queue[d] /\ taken'[d] = taken[d]
  <2>1. DOMAIN queue = Clients /\ DOMAIN taken = Clients
    BY <1>1
  <2> QED BY <2>1, <1>6
<1>9. AsyncInOrder'
  <2> SUFFICES ASSUME NEW d \in Clients
               PROVE  /\ Len(queue'[d]) = pushed'[d] - taken'[d]
                      /\ \A i \in 1..Len(queue'[d]) : queue'[d][i].n = taken'[d] + i
    BY DEF AsyncInOrder
  <2>1. CASE d = c
    <3>1. Len(Tail(queue[c])) = pushed[c] - (taken[c] + 1)
      BY <1>1, <1>2, <1>3, <1>5, ParamsAssumption
    <3>2. ASSUME NEW i \in 1..Len(queue[c]) - 1
          PROVE  Tail(queue[c])[i].n = (taken[c] + 1) + i
      <4>1. i + 1 \in 1..Len(queue[c]) /\ taken[c] + (i + 1) = (taken[c] + 1) + i
        BY <1>1, <1>2, ParamsAssumption
      <4> QED BY <4>1, <1>4, <1>5
    <3>3. Len(queue'[c]) = Len(queue[c]) - 1
      BY <1>3, <1>8
    <3>4. Len(queue'[c]) = pushed'[c] - taken'[c]
      BY <3>1, <1>3, <1>8
    <3>5. \A i \in 1..Len(queue'[c]) : queue'[c][i].n = taken'[c] + i
      BY <3>2, <3>3, <1>8
    <3> QED BY <2>1, <3>4, <3>5
  <2>2. CASE d # c
    BY <2>2, <1>8 DEF AsyncInOrder
  <2> QED BY <2>1, <2>2
<1> QED BY <1>1, <1>2, <1>6, <1>7, <1>9

-----------------------------------------------------------------------------
\* Every step keeps StoreInv, first the calls of a main thread.

LEMMA CallBlockingKeeps ==
  ASSUME StoreInv, NEW c \in Clients, CallBlocking(c)
  PROVE  StoreInv'
<1> USE DEF StoreInv
<1>1. PICK j \in Job : /\ job' = [job EXCEPT ![main(c)] = j]
                       /\ j.pc \in {"write", "lock"} /\ JobOK(main(c), j)
  <2>1. CASE \E k \in Keys, v \in Values : job' = [job EXCEPT ![main(c)] = Put(k, v)]
    <3>1. \A k \in Keys, v \in Values :
            /\ Put(k, v) \in Job /\ JobOK(main(c), Put(k, v)) /\ Put(k, v).pc = "write"
      BY CallsAreJobs DEF JobOK, Begun
    <3> QED BY <2>1, <3>1
  <2>2. CASE \E k \in Keys : job' = [job EXCEPT ![main(c)] = Removal("remove", {k})]
    <3>1. \A k \in Keys : /\ Removal("remove", {k}) \in Job
                          /\ JobOK(main(c), Removal("remove", {k}))
                          /\ Removal("remove", {k}).pc = "lock"
      BY CallsAreJobs DEF JobOK, Begun, Operations
    <3> QED BY <2>2, <3>1
  <2>3. CASE job' = [job EXCEPT ![main(c)] = Removal("clear", ClearedKeys)]
    <3>1. /\ Removal("clear", ClearedKeys) \in Job
          /\ JobOK(main(c), Removal("clear", ClearedKeys))
          /\ Removal("clear", ClearedKeys).pc = "lock"
      BY CallsAreJobs, ParamsAssumption DEF JobOK, Begun, Operations
    <3> QED BY <2>3, <3>1
  <2> QED BY <2>1, <2>2, <2>3 DEF CallBlocking
<1>3. lock # main(c)
  BY ThreadsOf DEF CallBlocking, MayCall, TypeOK
<1>4. /\ job' \in [Threads -> Job]
      /\ \A u \in Threads : job'[u].pc \in {"apply", "sync", "unlock"} <=> lock' = u
      /\ JobInv'
  <2>1. lock' = lock /\ lock \in Threads \cup {NoThread}
    BY DEF CallBlocking, TypeOK
  <2> QED BY <1>1, <1>3, <2>1, ThreadsOf, JobChanges
<1>5. TypeOK' /\ AsyncInOrder' /\ \A d \in Clients : pushed'[d] <= calls'
  <2>1. calls' = calls + 1 /\ calls' \in 0..MaxCalls
    BY ParamsAssumption DEF CallBlocking, MayCall, TypeOK
  <2>2. UNCHANGED <<directory, lock, queue, open, failures, history>>
    BY DEF CallBlocking
  <2>3. TypeOK'
    BY <1>4, <2>1, <2>2 DEF TypeOK, directory, history
  <2>4. AsyncInOrder'
    BY <2>2 DEF AsyncInOrder, history
  <2>5. \A d \in Clients : pushed'[d] <= calls'
    BY <2>1, <2>2, ParamsAssumption DEF TypeOK, history
  <2> QED BY <2>3, <2>4, <2>5
<1> QED BY <1>4, <1>5

LEMMA PutNonBlockingKeeps ==
  ASSUME StoreInv, NEW c \in Clients, PutNonBlocking(c)
  PROVE  StoreInv'
<1> USE DEF StoreInv
<1>1. PICK k \in Keys, v \in Values :
        queue' = [queue EXCEPT ![c] = Append(@, [key |-> k, val |-> v, n |-> pushed[c] + 1])]
  BY DEF PutNonBlocking
<1> DEFINE w == [key |-> k, val |-> v, n |-> pushed[c] + 1]
<1>2. w \in Write /\ w.n = pushed[c] + 1
  BY ParamsAssumption DEF Write, TypeOK
<1>3. AsyncInOrder' /\ queue' \in [Clients -> Seq(Write)]
  BY <1>1, <1>2, PushKeepsOrder DEF PutNonBlocking
<1>4. lock # main(c)
  BY ThreadsOf DEF PutNonBlocking, MayCall, TypeOK
<1>5. /\ job' \in [Threads -> Job]
      /\ \A u \in Threads : job'[u].pc \in {"apply", "sync", "unlock"} <=> lock' = u
      /\ JobInv'
  <2>1. At("pushed") \in Job /\ At("pushed").pc = "pushed" /\ JobOK(main(c), At("pushed"))
    BY AtIsJob DEF Pcs, JobOK
  <2>2. lock' = lock /\ lock \in Threads \cup {NoThread}
    BY DEF PutNonBlocking, TypeOK
  <2>3. job' = [job EXCEPT ![main(c)] = At("pushed")]
    BY DEF PutNonBlocking
  <2> QED BY <1>4, <2>1, <2>2, <2>3, ThreadsOf, JobChanges
<1>6. TypeOK' /\ \A d \in Clients : pushed'[d] <= calls'
  <2>1. calls' = calls + 1 /\ calls' \in 0..MaxCalls
    BY ParamsAssumption DEF PutNonBlocking, MayCall, TypeOK
  <2>2. UNCHANGED <<directory, lock, open, failures, taken>>
    BY DEF PutNonBlocking
  <2>3. pushed' = [pushed EXCEPT ![c] = @ + 1] /\ DOMAIN pushed = Clients
    BY DEF PutNonBlocking, TypeOK
  <2>4. \A d \in Clients : pushed[d] \in Nat /\ pushed[d] <= calls /\ calls \in Nat
    BY ParamsAssumption DEF TypeOK
  <2>5. \A d \in Clients : pushed'[d] \in Nat /\ pushed'[d] <= calls'
    BY <2>1, <2>3, <2>4
  <2>6. pushed' \in [Clients -> 0..MaxCalls]
    <3>1. \A d \in Clients : pushed'[d] \in 0..MaxCalls
      BY <2>1, <2>5, ParamsAssumption
    <3> QED BY <2>3, <3>1
  <2>7. TypeOK'
    BY <1>3, <1>5, <2>1, <2>2, <2>6 DEF TypeOK, directory
  <2> QED BY <2>5, <2>7
<1> QED BY <1>3, <1>5, <1>6

\* A step that changes one job and the lock, and no queue.
LEMMA OneJobKeeps ==
  ASSUME StoreInv, NEW t \in Threads, NEW j \in Job, JobOK(t, j),
         job' = [job EXCEPT ![t] = j], lock' \in Threads \cup {NoThread},
         \/ /\ lock' = lock
            /\ j.pc \in {"apply", "sync", "unlock"} <=> lock = t
         \/ /\ lock = NoThread /\ lock' = t
            /\ j.pc \in {"apply", "sync", "unlock"}
         \/ /\ lock = t /\ lock' = NoThread
            /\ j.pc \notin {"apply", "sync", "unlock"},
         entry' \in [Keys -> Values \cup {Absent}],
         stable' \in [Keys -> SUBSET (Values \cup {Absent})],
         \A k \in Keys : entry'[k] \in stable'[k],
         failures' \in 0..MaxFailures, UNCHANGED <<queue, open, calls, history>>
  PROVE  StoreInv'
<1>1. /\ job' \in [Threads -> Job]
      /\ \A u \in Threads : job'[u].pc \in {"apply", "sync", "unlock"} <=> lock' = u
      /\ JobInv'
  BY JobChanges DEF StoreInv
<1>2. TypeOK'
  BY <1>1 DEF StoreInv, TypeOK, history
<1>3. AsyncInOrder' /\ \A c \in Clients : pushed'[c] <= calls'
  BY DEF StoreInv, AsyncInOrder, history
<1> QED BY <1>1, <1>2, <1>3 DEF StoreInv

\* What a thread's job is while it works on an operation.
LEMMA JobFacts ==
  ASSUME StoreInv, NEW t \in Threads
  PROVE  /\ job[t] \in Job /\ JobOK(t, job[t])
         /\ lock \in Threads \cup {NoThread}
         /\ job[t].pc \in {"apply", "sync", "unlock"} <=> lock = t
         /\ entry \in [Keys -> Values \cup {Absent}]
         /\ stable \in [Keys -> SUBSET (Values \cup {Absent})]
         /\ \A k \in Keys : entry[k] \in stable[k]
         /\ failures \in 0..MaxFailures
         /\ NoThread # t
BY ThreadsOf DEF StoreInv, TypeOK, JobInv

LEMMA RestOK ==
  ASSUME NEW t \in Threads
  PROVE  JobOK(t, Rest(t))
BY RestIsJob DEF JobOK

LEMMA OperationKeeps ==
  ASSUME StoreInv, NEW t \in Threads,
         WriteTemp(t) \/ TakeLock(t) \/ ApplyNext(t) \/ FsyncDir(t) \/ Unlock(t)
  PROVE  StoreInv'
<1>1. CASE WriteTemp(t)
  <2>1. CASE job' = [job EXCEPT ![t].pc = "lock"] /\ UNCHANGED failures
    <3> DEFINE j == [job[t] EXCEPT !.pc = "lock"]
    <3>1. job' = [job EXCEPT ![t] = j]
      BY <2>1
    <3>2. j \in Job /\ j.pc = "lock" /\ j.op = job[t].op /\ j.todo = job[t].todo
      BY JobFacts DEF Job, Pcs
    <3>3. JobOK(t, j)
      BY <1>1, <3>2, JobFacts DEF JobOK, WriteTemp, Begun
    <3>4. lock # t
      BY <1>1, JobFacts DEF WriteTemp
    <3> HIDE DEF j
    <3> QED BY <1>1, <2>1, <3>1, <3>2, <3>3, <3>4, JobFacts, OneJobKeeps DEF WriteTemp, directory
  <2>2. CASE /\ failures < MaxFailures /\ failures' = failures + 1
             /\ job' = [job EXCEPT ![t] = Rest(t)]
    <3>1. lock # t /\ failures' \in 0..MaxFailures
      BY <1>1, <2>2, JobFacts, ParamsAssumption DEF WriteTemp
    <3> QED BY <1>1, <2>2, <3>1, JobFacts, RestIsJob, RestOK, OneJobKeeps DEF WriteTemp, directory
  <2> QED BY <1>1, <2>1, <2>2 DEF WriteTemp
<1>2. CASE TakeLock(t)
  <2> DEFINE j == [job[t] EXCEPT !.pc = "apply"]
  <2>1. job' = [job EXCEPT ![t] = j]
    BY <1>2 DEF TakeLock
  <2>2. j \in Job /\ j.pc = "apply" /\ j.op = job[t].op /\ j.todo = job[t].todo
    BY JobFacts DEF Job, Pcs
  <2>3. JobOK(t, j)
    BY <1>2, <2>2, JobFacts DEF JobOK, TakeLock
  <2> HIDE DEF j
  <2> QED BY <1>2, <2>1, <2>2, <2>3, JobFacts, OneJobKeeps DEF TakeLock, directory
<1>3. CASE ApplyNext(t)
  <2>1. PICK k \in job[t].todo :
          IF job[t].op = "remove" /\ entry[k] = Absent
          THEN /\ job' = [job EXCEPT ![t].pc = "unlock"]
               /\ UNCHANGED directory
          ELSE /\ entry' = [entry EXCEPT ![k] = job[t].val]
               /\ stable' = [stable EXCEPT ![k] = @ \cup {job[t].val}]
               /\ job' = [job EXCEPT ![t].todo = @ \ {k},
                                     ![t].pc = IF job[t].todo = {k} THEN "sync" ELSE @]
    BY <1>3 DEF ApplyNext
  <2>2. lock = t /\ job[t].pc = "apply" /\ UNCHANGED <<lock, queue, open, calls, failures, history>>
    BY <1>3, JobFacts DEF ApplyNext
  <2>3. CASE job[t].op = "remove" /\ entry[k] = Absent
    <3> DEFINE j == [job[t] EXCEPT !.pc = "unlock"]
    <3>1. job' = [job EXCEPT ![t] = j] /\ UNCHANGED directory
      BY <2>1, <2>3
    <3>2. j \in Job /\ j.pc = "unlock" /\ j.op = "remove" /\ j.todo = job[t].todo
      BY <2>3, JobFacts DEF Job, Pcs
    <3>3. JobOK(t, j)
      BY <2>2, <2>3, <3>2, JobFacts DEF JobOK
    <3> HIDE DEF j
    <3> QED BY <2>2, <3>1, <3>2, <3>3, JobFacts, OneJobKeeps DEF directory
  <2>4. CASE ~(job[t].op = "remove" /\ entry[k] = Absent)
    <3> DEFINE pc == IF job[t].todo = {k} THEN "sync" ELSE "apply"
               j == [job[t] EXCEPT !.todo = @ \ {k}, !.pc = pc]
    <3>1. job' = [job EXCEPT ![t] = j]
      BY <2>1, <2>2, <2>4
    <3>2. j \in Job /\ j.pc = pc /\ j.op = job[t].op /\ j.todo = job[t].todo \ {k}
      BY JobFacts DEF Job, Pcs
    <3>3. JobOK(t, j)
      BY <2>2, <3>2, JobFacts DEF JobOK
    <3>4. k \in Keys /\ job[t].val \in Values \cup {Absent}
      BY JobFacts DEF Job
    <3>5. /\ entry' \in [Keys -> Values \cup {Absent}]
          /\ stable' \in [Keys -> SUBSET (Values \cup {Absent})]
          /\ \A q \in Keys : entry'[q] \in stable'[q]
      BY <2>1, <2>4, <3>4, JobFacts
    <3>6. j.pc \in {"apply", "sync", "unlock"}
      BY <3>2
    <3> HIDE DEF j
    <3> QED BY <2>2, <3>1, <3>2, <3>3, <3>5, <3>6, JobFacts, OneJobKeeps
  <2> QED BY <2>3, <2>4
<1>4. CASE FsyncDir(t)
  <2> DEFINE j == [job[t] EXCEPT !.pc = "unlock"]
  <2>1. job' = [job EXCEPT ![t] = j]
    BY <1>4 DEF FsyncDir
  <2>2. j \in Job /\ j.pc = "unlock" /\ j.op = job[t].op /\ j.todo = job[t].todo
    BY JobFacts DEF Job, Pcs
  <2>3. JobOK(t, j)
    <3>1. job[t].pc = "sync" /\ job[t].todo = {}
      BY <1>4, JobFacts DEF FsyncDir, JobOK
    <3>2. job[t].op \in {"clear", "put", "remove"}
      BY <1>4, JobFacts DEF FsyncDir, JobOK
    <3> QED BY <2>2, <3>1, <3>2, ParamsAssumption DEF JobOK
  <2>4. /\ stable' \in [Keys -> SUBSET (Values \cup {Absent})]
        /\ \A k \in Keys : entry'[k] \in stable'[k] /\ entry' = entry
    BY <1>4, JobFacts DEF FsyncDir
  <2> HIDE DEF j
  <2> QED BY <1>4, <2>1, <2>2, <2>3, <2>4, JobFacts, OneJobKeeps DEF FsyncDir
<1>5. CASE Unlock(t)
  <2>1. lock = t /\ lock' = NoThread
    BY <1>5, JobFacts DEF Unlock
  <2> QED BY <1>5, <2>1, JobFacts, RestIsJob, RestOK, OneJobKeeps DEF Unlock, directory
<1> QED BY <1>1, <1>2, <1>3, <1>4, <1>5

\* A resting job may stand for any thread that does not hold the lock.
LEMMA AtOK ==
  ASSUME NEW t \in Threads, NEW pc \in {"idle", "pop", "exit", "pushed"}
  PROVE  At(pc) \in Job /\ At(pc).pc = pc /\ JobOK(t, At(pc))
BY AtIsJob DEF Pcs, JobOK

LEMMA WorkerKeeps ==
  ASSUME StoreInv, NEW c \in Clients, StartWorker(c) \/ Destroy(c) \/ Pop(c) \/ Exit(c)
  PROVE  StoreInv'
<1> /\ main(c) \in Threads /\ worker(c) \in Threads /\ main(c) # worker(c)
  BY ThreadsOf
<1>1. CASE StartWorker(c)
  <2>1. /\ job[main(c)].pc = "pushed" /\ lock # main(c)
        /\ UNCHANGED <<directory, lock, queue, open, calls, failures, history>>
    BY <1>1, JobFacts DEF StartWorker
  <2> DEFINE first == [job EXCEPT ![main(c)] = At("idle")]
  <2>2. CASE job[worker(c)].pc = "idle"
    <3>1. /\ DOMAIN job = Threads
          /\ job' = [job EXCEPT ![main(c)] = At("idle"), ![worker(c)] = At("pop")]
      BY <1>1, <2>2 DEF StartWorker, StoreInv, TypeOK
    <3>2. /\ job'[main(c)] = At("idle") /\ job'[worker(c)] = At("pop")
          /\ \A u \in Threads \ {main(c), worker(c)} : job'[u] = job[u]
          /\ job' = [u \in Threads |-> job'[u]]
      BY <3>1
    <3>3. /\ \A u \in Threads : job'[u] \in Job
          /\ \A u \in Threads : job'[u].pc \in {"apply", "sync", "unlock"} <=> lock' = u
          /\ JobInv'
      BY <2>1, <2>2, <3>2, AtOK, JobFacts DEF JobInv
    <3>4. job' \in [Threads -> Job]
      BY <3>2, <3>3
    <3>5. TypeOK'
      BY <2>1, <3>3, <3>4 DEF StoreInv, TypeOK, directory, history
    <3> QED BY <2>1, <3>3, <3>5 DEF StoreInv, AsyncInOrder, history
  <2>3. CASE job[worker(c)].pc # "idle"
    <3>1. job' = [job EXCEPT ![main(c)] = At("idle")]
      <4>1. /\ DOMAIN job = Threads
            /\ job' = [job EXCEPT ![main(c)] = At("idle"), ![worker(c)] = job[worker(c)]]
        BY <1>1, <2>3 DEF StartWorker, StoreInv, TypeOK
      <4> QED BY <4>1
    <3> QED BY <2>1, <3>1, AtOK, JobFacts, OneJobKeeps DEF directory
  <2> QED BY <2>2, <2>3
<1>2. CASE Destroy(c)
  <2>1. TypeOK'
    BY <1>2 DEF Destroy, StoreInv, TypeOK, directory, history
  <2> QED BY <1>2, <2>1 DEF Destroy, StoreInv, JobInv, AsyncInOrder, history
<1>3. CASE Pop(c)
  <2>1. /\ job[worker(c)].pc = "pop" /\ lock # worker(c)
        /\ UNCHANGED <<directory, lock, open, calls, failures, pushed>>
    BY <1>3, JobFacts DEF Pop
  <2>2. CASE queue[c] = <<>>
    BY <1>3, <2>1, <2>2, AtOK, JobFacts, OneJobKeeps DEF Pop, directory, history
  <2>3. CASE queue[c] # <<>>
    <3>1. /\ job' = [job EXCEPT ![worker(c)] = Put(Head(queue[c]).key, Head(queue[c]).val)]
          /\ queue' = [queue EXCEPT ![c] = Tail(@)]
          /\ taken' = [taken EXCEPT ![c] = Head(queue[c]).n]
      BY <1>3, <2>3 DEF Pop
    <3>2. /\ AsyncInOrder' /\ queue' \in [Clients -> Seq(Write)]
          /\ taken' \in [Clients -> 0..MaxCalls]
          /\ Head(queue[c]) \in Write
      BY <2>1, <2>3, <3>1, PopKeepsOrder DEF StoreInv
    <3> DEFINE j == Put(Head(queue[c]).key, Head(queue[c]).val)
    <3>3. j \in Job /\ j.pc = "write" /\ JobOK(worker(c), j)
      <4>1. Head(queue[c]).key \in Keys /\ Head(queue[c]).val \in Values
        BY <3>2 DEF Write
      <4> DEFINE k == Head(queue[c]).key
      <4>2. /\ j \in Job /\ j.pc = "write" /\ j.op = "put" /\ j.todo = {k}
        BY <4>1, CallsAreJobs
      <4> HIDE DEF j, k
      <4>3. k \in Keys
        BY <4>1 DEF k
      <4> QED BY <4>2, <4>3 DEF JobOK, Begun
    <3> HIDE DEF j
    <3>4. /\ job' \in [Threads -> Job]
          /\ \A u \in Threads : job'[u].pc \in {"apply", "sync", "unlock"} <=> lock' = u
          /\ JobInv'
      BY <2>1, <3>1, <3>3, JobFacts, JobChanges DEF StoreInv, j
    <3>5. TypeOK'
      BY <2>1, <3>2, <3>4 DEF StoreInv, TypeOK, directory
    <3> QED BY <2>1, <3>2, <3>4, <3>5 DEF StoreInv
  <2> QED BY <2>2, <2>3
<1>4. CASE Exit(c)
  <2>1. lock # worker(c)
    BY <1>4, JobFacts DEF Exit
  <2> QED BY <1>4, <2>1, AtOK, JobFacts, OneJobKeeps DEF Exit, directory
<1> QED BY <1>1, <1>2, <1>3, <1>4

\* Killed, or without power: threads rest, and their queues are gone.
LEMMA FailureKeeps ==
  ASSUME StoreInv, PowerLoss \/ \E c \in Clients : KillClient(c)
  PROVE  StoreInv'
<1>1. CASE PowerLoss
  <2>1. /\ job' \in [Threads -> Job] /\ JobInv'
        /\ \A u \in Threads : job'[u].pc \in {"apply", "sync", "unlock"} <=> lock' = u
    BY <1>1, AtOK, ThreadsOf DEF PowerLoss, JobInv
  <2>2. /\ entry' \in [Keys -> Values \cup {Absent}]
        /\ stable' \in [Keys -> SUBSET (Values \cup {Absent})]
        /\ \A k \in Keys : entry'[k] \in stable'[k]
    <3>1. \A k \in Keys : entry'[k] \in Values \cup {Absent}
      BY <1>1 DEF PowerLoss, StoreInv, TypeOK
    <3>2. DOMAIN entry' = Keys /\ entry' = [k \in Keys |-> entry'[k]]
      BY <1>1 DEF PowerLoss
    <3> QED BY <1>1, <3>1, <3>2 DEF PowerLoss
  <2>3. failures' \in 0..MaxFailures /\ calls' = calls /\ calls \in 0..MaxCalls
    BY <1>1, ParamsAssumption DEF PowerLoss, StoreInv, TypeOK
  <2>4. /\ queue' = [c \in Clients |-> <<>>] /\ open' = [c \in Clients |-> TRUE]
        /\ pushed' = [c \in Clients |-> 0] /\ taken' = [c \in Clients |-> 0]
        /\ lock' = NoThread
    BY <1>1 DEF PowerLoss
  <2>5. TypeOK'
    BY <2>1, <2>2, <2>3, <2>4, ParamsAssumption DEF TypeOK
  <2>6. AsyncInOrder' /\ \A c \in Clients : pushed'[c] <= calls'
    BY <2>3, <2>4, ParamsAssumption DEF AsyncInOrder
  <2> QED BY <2>1, <2>5, <2>6 DEF StoreInv
<1>2. ASSUME NEW c \in Clients, KillClient(c) PROVE StoreInv'
  <2>1. /\ main(c) \in Threads /\ worker(c) \in Threads
        /\ \A u \in Threads : u[1] = c <=> u \in {main(c), worker(c)}
    BY DEF Threads, main, worker
  <2>2. /\ job' = [t \in Threads |-> IF t[1] = c THEN At("idle") ELSE job[t]]
        /\ lock' = IF lock # NoThread /\ lock \in {main(c), worker(c)} THEN NoThread ELSE lock
        /\ queue' = [queue EXCEPT ![c] = <<>>] /\ open' = [open EXCEPT ![c] = TRUE]
        /\ pushed' = [pushed EXCEPT ![c] = 0] /\ taken' = [taken EXCEPT ![c] = 0]
        /\ UNCHANGED <<directory, calls>>
    BY <1>2 DEF KillClient
  <2>3. /\ job' \in [Threads -> Job] /\ JobInv'
        /\ \A u \in Threads : job'[u].pc \in {"apply", "sync", "unlock"} <=> lock' = u
        /\ lock' \in Threads \cup {NoThread}
    <3>1. \A u \in Threads : job'[u] = IF u \in {main(c), worker(c)} THEN At("idle") ELSE job[u]
      BY <2>1, <2>2
    <3>2. \A u \in Threads : job'[u] \in Job /\ JobOK(u, job'[u])
      BY <3>1, AtOK, JobFacts
    <3>3. \A u \in Threads : job'[u].pc \in {"apply", "sync", "unlock"} <=> lock' = u
      BY <2>1, <2>2, <3>1, AtOK, JobFacts, ThreadsOf
    <3>4. job' \in [Threads -> Job]
      <4>1. DOMAIN job' = Threads /\ job' = [u \in Threads |-> job'[u]]
        BY <2>2
      <4> QED BY <3>2, <4>1
    <3>5. JobInv'
      BY <3>2 DEF JobInv
    <3>6. lock' \in Threads \cup {NoThread}
      <4>1. lock \in Threads \cup {NoThread}
        BY DEF StoreInv, TypeOK
      <4> QED BY <2>2, <4>1
    <3> QED BY <3>3, <3>4, <3>5, <3>6
  <2>4. failures' \in 0..MaxFailures
    BY <1>2, ParamsAssumption DEF KillClient, StoreInv, TypeOK
  <2>5. /\ queue' \in [Clients -> Seq(Write)] /\ open' \in [Clients -> BOOLEAN]
        /\ {pushed', taken'} \subseteq [Clients -> 0..MaxCalls]
    BY <2>2, ParamsAssumption DEF StoreInv, TypeOK
  <2>6. TypeOK'
    BY <2>2, <2>3, <2>4, <2>5 DEF StoreInv, TypeOK, directory
  <2>7. AsyncInOrder' /\ \A d \in Clients : pushed'[d] <= calls'
    <3>1. DOMAIN queue = Clients /\ DOMAIN pushed = Clients /\ DOMAIN taken = Clients
      BY DEF StoreInv, TypeOK
    <3>2. /\ queue'[c] = <<>> /\ pushed'[c] = 0 /\ taken'[c] = 0 /\ 0 <= calls
          /\ \A d \in Clients \ {c} :
               queue'[d] = queue[d] /\ pushed'[d] = pushed[d] /\ taken'[d] = taken[d]
      BY <2>2, <3>1, ParamsAssumption DEF StoreInv, TypeOK
    <3> QED BY <2>2, <3>2 DEF StoreInv, AsyncInOrder
  <2> QED BY <2>3, <2>6, <2>7 DEF StoreInv
<1> QED BY <1>1, <1>2

LEMMA StutterKeeps ==
  ASSUME StoreInv, UNCHANGED vars
  PROVE  StoreInv'
<1>1. TypeOK'
  BY DEF StoreInv, TypeOK, vars
<1>2. JobInv'
  BY DEF StoreInv, JobInv, vars
<1>3. AsyncInOrder' /\ \A c \in Clients : pushed'[c] <= calls'
  BY DEF StoreInv, AsyncInOrder, vars
<1> QED BY <1>1, <1>2, <1>3 DEF StoreInv

\* The store's inductive invariant.
THEOREM StoreInvariant == Spec => []StoreInv
<1>1. Init => StoreInv
  BY InitStore
<1>2. StoreInv /\ [Next]_vars => StoreInv'
  BY CallBlockingKeeps, PutNonBlockingKeeps, WorkerKeeps, OperationKeeps, FailureKeeps,
     StutterKeeps DEF Next
<1> QED BY <1>1, <1>2, PTL DEF Spec

\* Type correctness, with the lock held by the one thread between TakeLock and Unlock.
THEOREM TypeCorrect == Spec => []TypeOK
<1>1. StoreInv => TypeOK
  BY DEF StoreInv
<1> QED BY <1>1, StoreInvariant, PTL

\* Asynchronous writes leave the queue in the order of the calls, each once, through kills
\* and losses of power, for any number of clients.
THEOREM WritesInOrder == Spec => []AsyncInOrder
<1>1. StoreInv => AsyncInOrder
  BY DEF StoreInv
<1> QED BY <1>1, StoreInvariant, PTL

-----------------------------------------------------------------------------
\* ParamsStore implements DurableStore.

\* A change of one job is a change of one call.
LEMMA CallChanges ==
  ASSUME StoreInv, NEW t \in Threads, NEW j, job' = [job EXCEPT ![t] = j]
  PROVE  /\ AbstractCall' = [AbstractCall EXCEPT ![t] = CallOf(j)]
         /\ AbstractCall[t] = CallOf(job[t])
         /\ CallOf(j) = CallOf(job[t]) => AbstractCall' = AbstractCall
<1>1. DOMAIN job = Threads
  BY DEF StoreInv, TypeOK
<1>2. \A u \in Threads : job'[u] = IF u = t THEN j ELSE job[u]
  BY <1>1
<1>3. AbstractCall' = [u \in Threads |-> CallOf(job'[u])]
  BY DEF AbstractCall, CallOf, StageOf, Begun
<1>4. /\ AbstractCall = [u \in Threads |-> CallOf(job[u])]
      /\ \A u \in Threads : AbstractCall[u] = CallOf(job[u])
  BY DEF AbstractCall
<1>5. [AbstractCall EXCEPT ![t] = CallOf(j)]
        = [u \in Threads |-> IF u = t THEN CallOf(j) ELSE CallOf(job[u])]
  BY <1>4
<1>6. \A u \in Threads : CallOf(job'[u]) = IF u = t THEN CallOf(j) ELSE CallOf(job[u])
  BY <1>2
<1>7. AbstractCall' = [AbstractCall EXCEPT ![t] = CallOf(j)]
  BY <1>3, <1>5, <1>6
<1>8. CallOf(j) = CallOf(job[t]) => AbstractCall' = AbstractCall
  BY <1>3, <1>4, <1>6
<1> QED BY <1>4, <1>7, <1>8

\* A resting thread has no call.
LEMMA RestingCalls ==
  ASSUME NEW pc \in {"idle", "pop", "exit", "pushed"}
  PROVE  CallOf(At(pc)) = Store!NoCall
BY AtIsJob DEF Pcs, CallOf, StageOf, Store!NoCall

LEMMA RestCalls ==
  ASSUME NEW t \in Threads
  PROVE  CallOf(Rest(t)) = Store!NoCall
BY RestIsJob, RestingCalls

LEMMA InitImplements == Init => Store!Init
<1> SUFFICES ASSUME Init PROVE Store!Init
  OBVIOUS
<1>1. \A t \in Threads : job[t] = At("idle") /\ CallOf(job[t]) = Store!NoCall
  BY RestingCalls DEF Init
<1>2. AbstractCall = [t \in Threads |-> Store!NoCall]
  BY <1>1 DEF AbstractCall
<1> QED BY <1>2 DEF Init, Store!Init

\* Calls begin, and a worker's with the write it takes from the queue.
LEMMA BeginImplements ==
  ASSUME StoreInv, NEW c \in Clients, CallBlocking(c) \/ PutNonBlocking(c) \/ StartWorker(c)
                                    \/ Destroy(c) \/ Pop(c) \/ Exit(c)
  PROVE  [Store!Next]_(Store!vars)
<1> /\ main(c) \in Threads /\ worker(c) \in Threads /\ main(c) # worker(c)
  BY ThreadsOf
<1>1. ASSUME NEW t \in Threads, NEW j \in Job, job' = [job EXCEPT ![t] = j],
             job[t].pc \in {"idle", "pop"}, j.pc \in {"write", "lock"}, UNCHANGED directory
      PROVE  Store!Begin(t)
  <2>1. CallOf(j) = [stage |-> "pending", keys |-> j.todo, val |-> j.val]
    BY <1>1 DEF CallOf, StageOf
  <2>2. /\ AbstractCall' = [AbstractCall EXCEPT ![t] = CallOf(j)]
        /\ AbstractCall[t] = CallOf(job[t])
    BY <1>1, CallChanges
  <2>3. AbstractCall[t] = Store!NoCall
    <3>1. job[t] = At(job[t].pc)
      BY <1>1, JobFacts DEF JobOK
    <3> QED BY <1>1, <2>2, <3>1, RestingCalls
  <2>4. j.todo \in SUBSET Keys /\ j.val \in Values \cup {Absent}
    BY <1>1 DEF Job
  <2>5. AbstractCall' = [AbstractCall EXCEPT ![t] =
                          [stage |-> "pending", keys |-> j.todo, val |-> j.val]]
    BY <2>1, <2>2
  <2> QED BY <1>1, <2>3, <2>4, <2>5 DEF Store!Begin, directory
<1>2. ASSUME NEW t \in Threads, NEW pc \in {"idle", "pop", "exit", "pushed"},
             job[t].pc \in {"idle", "pop", "exit", "pushed"},
             job' = [job EXCEPT ![t] = At(pc)], UNCHANGED directory
      PROVE  UNCHANGED Store!vars
  <2>1. CallOf(job[t]) = Store!NoCall
    <3>1. job[t] = At(job[t].pc)
      BY <1>2, JobFacts DEF JobOK
    <3> QED BY <1>2, <3>1, RestingCalls
  <2>2. CallOf(At(pc)) = Store!NoCall
    BY RestingCalls
  <2>3. AbstractCall' = AbstractCall
    BY <1>2, <2>1, <2>2, CallChanges
  <2> QED BY <1>2, <2>3 DEF Store!vars, directory
<1>3. CASE CallBlocking(c)
  <2>1. \E j \in Job : job' = [job EXCEPT ![main(c)] = j] /\ j.pc \in {"write", "lock"}
    <3>1. CASE \E k \in Keys, v \in Values : job' = [job EXCEPT ![main(c)] = Put(k, v)]
      <4>1. \A k \in Keys, v \in Values : Put(k, v) \in Job /\ Put(k, v).pc = "write"
        BY CallsAreJobs
      <4> QED BY <3>1, <4>1
    <3>2. CASE \E k \in Keys : job' = [job EXCEPT ![main(c)] = Removal("remove", {k})]
      <4>1. \A k \in Keys : /\ Removal("remove", {k}) \in Job
                            /\ Removal("remove", {k}).pc = "lock"
        BY CallsAreJobs DEF Operations
      <4> QED BY <3>2, <4>1
    <3>3. CASE job' = [job EXCEPT ![main(c)] = Removal("clear", ClearedKeys)]
      <4>1. Removal("clear", ClearedKeys) \in Job /\ Removal("clear", ClearedKeys).pc = "lock"
        BY CallsAreJobs, ParamsAssumption DEF Operations
      <4> QED BY <3>3, <4>1
    <3> QED BY <1>3, <3>1, <3>2, <3>3 DEF CallBlocking
  <2>2. Store!Begin(main(c))
    BY <1>1, <1>3, <2>1 DEF CallBlocking, MayCall
  <2> QED BY <2>2 DEF Store!Next
<1>4. CASE PutNonBlocking(c)
  BY <1>2, <1>4 DEF PutNonBlocking, MayCall
<1>5. CASE StartWorker(c)
  <2>1. CASE job[worker(c)].pc # "idle"
    <3>1. job' = [job EXCEPT ![main(c)] = At("idle")]
      <4>1. /\ DOMAIN job = Threads
            /\ job' = [job EXCEPT ![main(c)] = At("idle"), ![worker(c)] = job[worker(c)]]
        BY <1>5, <2>1 DEF StartWorker, StoreInv, TypeOK
      <4> QED BY <4>1
    <3> QED BY <1>2, <1>5, <3>1 DEF StartWorker
  <2>2. CASE job[worker(c)].pc = "idle"
    <3>1. \A u \in Threads : CallOf(job'[u]) = CallOf(job[u])
      <4>1. /\ DOMAIN job = Threads
            /\ job' = [job EXCEPT ![main(c)] = At("idle"), ![worker(c)] = At("pop")]
        BY <1>5, <2>2 DEF StartWorker, StoreInv, TypeOK
      <4>2. /\ job'[main(c)] = At("idle") /\ job'[worker(c)] = At("pop")
            /\ \A u \in Threads \ {main(c), worker(c)} : job'[u] = job[u]
        BY <4>1
      <4>3. job[main(c)] = At("pushed") /\ job[worker(c)] = At("idle")
        BY <1>5, <2>2, JobFacts DEF StartWorker, JobOK
      <4> QED BY <4>2, <4>3, RestingCalls
    <3>2. AbstractCall' = [u \in Threads |-> CallOf(job'[u])]
      BY DEF AbstractCall, CallOf, StageOf, Begun
    <3>3. AbstractCall' = AbstractCall
      BY <3>1, <3>2 DEF AbstractCall
    <3> QED BY <1>5, <3>3 DEF StartWorker, Store!vars, directory
  <2> QED BY <2>1, <2>2
<1>6. CASE Destroy(c)
  BY <1>6 DEF Destroy, Store!vars, directory, AbstractCall, CallOf, StageOf, Begun
<1>7. CASE Pop(c)
  <2>1. CASE queue[c] = <<>>
    BY <1>2, <1>7, <2>1 DEF Pop
  <2>2. CASE queue[c] # <<>>
    <3> DEFINE w == Head(queue[c])
    <3>1. w \in Write
      BY <2>2 DEF StoreInv, TypeOK
    <3>2. w.key \in Keys /\ w.val \in Values
      BY <3>1 DEF Write
    <3>3. Put(w.key, w.val) \in Job /\ Put(w.key, w.val).pc = "write"
      BY <3>2, CallsAreJobs
    <3>4. job' = [job EXCEPT ![worker(c)] = Put(w.key, w.val)]
      BY <1>7, <2>2 DEF Pop
    <3>5. Store!Begin(worker(c))
      BY <1>1, <1>7, <3>3, <3>4 DEF Pop
    <3> QED BY <3>5 DEF Store!Next
  <2> QED BY <2>1, <2>2
<1>8. CASE Exit(c)
  BY <1>2, <1>8 DEF Exit
<1> QED BY <1>3, <1>4, <1>5, <1>6, <1>7, <1>8

\* The steps of an operation: silent until the rename or the unlink, which is the moment
\* it takes effect; the directory sync is the moment it becomes durable.
LEMMA OperationImplements ==
  ASSUME StoreInv, NEW t \in Threads,
         WriteTemp(t) \/ TakeLock(t) \/ ApplyNext(t) \/ FsyncDir(t) \/ Unlock(t)
  PROVE  [Store!Next]_(Store!vars)
<1> DEFINE old == job[t]
<1>1. /\ old \in Job /\ JobOK(t, old)
      /\ old.val \in Values \cup {Absent} /\ old.todo \in SUBSET Keys
  BY JobFacts DEF Job
<1>2. ASSUME NEW j, job' = [job EXCEPT ![t] = j], CallOf(j) = CallOf(old), UNCHANGED directory
      PROVE  UNCHANGED Store!vars
  BY <1>2, CallChanges DEF Store!vars, directory
<1>3. ASSUME job' = [job EXCEPT ![t] = Rest(t)], UNCHANGED directory,
             CallOf(old).stage \in {"pending", "durable"}
      PROVE  Store!Return(t)
  <2>1. /\ AbstractCall' = [AbstractCall EXCEPT ![t] = CallOf(Rest(t))]
        /\ AbstractCall[t] = CallOf(old)
    BY <1>3, CallChanges
  <2> QED BY <1>3, <2>1, RestCalls DEF Store!Return, directory
<1>4. CASE WriteTemp(t)
  <2>1. CASE job' = [job EXCEPT ![t].pc = "lock"]
    <3> DEFINE j == [old EXCEPT !.pc = "lock"]
    <3>1. job' = [job EXCEPT ![t] = j]
      BY <2>1
    <3>2. j.pc = "lock" /\ j.op = old.op /\ j.todo = old.todo /\ j.val = old.val
      BY <1>1 DEF Job
    <3>3. CallOf(j) = CallOf(old)
      BY <1>4, <3>2 DEF WriteTemp, CallOf, StageOf
    <3> HIDE DEF j
    <3> QED BY <1>2, <1>4, <3>1, <3>3 DEF WriteTemp
  <2>2. CASE job' = [job EXCEPT ![t] = Rest(t)]
    <3>1. CallOf(old).stage = "pending"
      BY <1>4 DEF WriteTemp, CallOf, StageOf
    <3>2. Store!Return(t)
      BY <1>3, <1>4, <2>2, <3>1 DEF WriteTemp
    <3> QED BY <3>2 DEF Store!Next
  <2> QED BY <1>4, <2>1, <2>2 DEF WriteTemp
<1>5. CASE TakeLock(t)
  <2> DEFINE j == [old EXCEPT !.pc = "apply"]
  <2>1. job' = [job EXCEPT ![t] = j]
    BY <1>5 DEF TakeLock
  <2>2. j.pc = "apply" /\ j.op = old.op /\ j.todo = old.todo /\ j.val = old.val
    BY <1>1 DEF Job
  <2>3. ~Begun(old) /\ ~Begun(j)
    BY <1>1, <1>5, <2>2 DEF TakeLock, JobOK, Begun
  <2>4. CallOf(j) = CallOf(old)
    BY <1>5, <2>2, <2>3 DEF TakeLock, CallOf, StageOf
  <2> HIDE DEF j
  <2> QED BY <1>2, <1>5, <2>1, <2>4 DEF TakeLock
<1>6. CASE ApplyNext(t)
  <2>1. PICK k \in old.todo :
          IF old.op = "remove" /\ entry[k] = Absent
          THEN /\ job' = [job EXCEPT ![t].pc = "unlock"]
               /\ UNCHANGED directory
          ELSE /\ entry' = [entry EXCEPT ![k] = old.val]
               /\ stable' = [stable EXCEPT ![k] = @ \cup {old.val}]
               /\ job' = [job EXCEPT ![t].todo = @ \ {k},
                                     ![t].pc = IF old.todo = {k} THEN "sync" ELSE @]
    BY <1>6 DEF ApplyNext
  <2>2. old.pc = "apply"
    BY <1>6 DEF ApplyNext
  <2>3. CASE old.op = "remove" /\ entry[k] = Absent
    <3> DEFINE j == [old EXCEPT !.pc = "unlock"]
    <3>1. job' = [job EXCEPT ![t] = j] /\ UNCHANGED directory
      BY <2>1, <2>3
    <3>2. j.pc = "unlock" /\ j.op = old.op /\ j.todo = old.todo /\ j.val = old.val
      BY <1>1 DEF Job
    <3>3. ~Begun(old) /\ ~Begun(j)
      BY <2>1, <2>3, <3>2 DEF Begun
    <3>4. CallOf(j) = CallOf(old)
      BY <2>2, <3>2, <3>3 DEF CallOf, StageOf
    <3> HIDE DEF j
    <3> QED BY <1>2, <3>1, <3>4
  <2>4. CASE ~(old.op = "remove" /\ entry[k] = Absent)
    <3> DEFINE pc == IF old.todo = {k} THEN "sync" ELSE "apply"
               j == [old EXCEPT !.todo = @ \ {k}, !.pc = pc]
    <3>1. job' = [job EXCEPT ![t] = j]
      BY <2>1, <2>2, <2>4
    <3>2. j.pc = pc /\ j.op = old.op /\ j.todo = old.todo \ {k} /\ j.val = old.val
      BY <1>1 DEF Job
    <3>3. j.pc = "sync" \/ Begun(j)
      <4>1. CASE old.op = "clear"
        BY <1>1, <2>1, <2>2, <3>2, <4>1 DEF JobOK, Begun
      <4>2. CASE old.op # "clear"
        <5>1. old.todo = {k}
          BY <1>1, <2>1, <2>2, <4>2 DEF JobOK
        <5> QED BY <3>2, <5>1
      <4> QED BY <4>1, <4>2
    <3>4. CallOf(j) = [stage |-> "applied", keys |-> old.todo \ {k}, val |-> old.val]
      BY <3>2, <3>3 DEF CallOf, StageOf
    <3>5. /\ CallOf(old).stage \in {"pending", "applied"}
          /\ CallOf(old) = [stage |-> CallOf(old).stage, keys |-> old.todo, val |-> old.val]
          /\ CallOf(old).keys = old.todo /\ CallOf(old).val = old.val
      BY <2>2 DEF CallOf, StageOf
    <3> HIDE DEF j, pc
    <3>6. /\ AbstractCall' = [AbstractCall EXCEPT ![t] = CallOf(j)]
          /\ AbstractCall[t] = CallOf(old)
      BY <3>1, CallChanges
    <3>7. AbstractCall' = [AbstractCall EXCEPT ![t] =
                             [stage |-> "applied", keys |-> @.keys \ {k}, val |-> @.val]]
      BY <3>4, <3>5, <3>6
    <3>8. Store!Apply(t)
      BY <2>1, <2>4, <3>5, <3>6, <3>7 DEF Store!Apply
    <3> QED BY <3>8 DEF Store!Next
  <2> QED BY <2>3, <2>4
<1>7. CASE FsyncDir(t)
  <2> DEFINE j == [old EXCEPT !.pc = "unlock"]
  <2>1. job' = [job EXCEPT ![t] = j]
    BY <1>7 DEF FsyncDir
  <2>2. j.pc = "unlock" /\ j.op = old.op /\ j.todo = old.todo /\ j.val = old.val /\ old.todo = {}
    BY <1>1, <1>7 DEF Job, FsyncDir, JobOK
  <2>3. Begun(j)
    BY <2>2, ParamsAssumption DEF Begun
  <2>4. CallOf(old) = [stage |-> "applied", keys |-> {}, val |-> old.val]
    BY <1>7, <2>2 DEF FsyncDir, CallOf, StageOf
  <2>5. CallOf(j) = [stage |-> "durable", keys |-> {}, val |-> old.val]
    BY <2>2, <2>3 DEF CallOf, StageOf
  <2> HIDE DEF j
  <2>6. /\ AbstractCall' = [AbstractCall EXCEPT ![t] = CallOf(j)]
        /\ AbstractCall[t] = CallOf(old)
    BY <2>1, CallChanges
  <2>7. AbstractCall' = [AbstractCall EXCEPT ![t].stage = "durable"]
    <3>1. \A stage, keys, val :
            [[stage |-> stage, keys |-> keys, val |-> val] EXCEPT !.stage = "durable"]
              = [stage |-> "durable", keys |-> keys, val |-> val]
      OBVIOUS
    <3>2. [AbstractCall[t] EXCEPT !.stage = "durable"] = CallOf(j)
      BY <2>4, <2>5, <2>6, <3>1
    <3> QED BY <2>6, <3>2
  <2>8. AbstractCall[t].stage = "applied" /\ AbstractCall[t].keys = {}
    BY <2>4, <2>6
  <2>9. stable' = [k \in Keys |-> {entry[k]}] /\ entry' = entry
    BY <1>7 DEF FsyncDir
  <2>10. Store!Commit(t)
    BY <2>7, <2>8, <2>9 DEF Store!Commit
  <2> QED BY <2>10 DEF Store!Next
<1>8. CASE Unlock(t)
  <2>1. CallOf(old).stage \in {"pending", "durable"}
    BY <1>8 DEF Unlock, CallOf, StageOf
  <2>2. Store!Return(t)
    BY <1>3, <1>8, <2>1 DEF Unlock
  <2> QED BY <2>2 DEF Store!Next
<1> QED BY <1>4, <1>5, <1>6, <1>7, <1>8

LEMMA FailureImplements ==
  ASSUME StoreInv, PowerLoss \/ \E c \in Clients : KillClient(c)
  PROVE  [Store!Next]_(Store!vars)
<1> AbstractCall' = [u \in Threads |-> CallOf(job'[u])]
  BY DEF AbstractCall, CallOf, StageOf, Begun
<1>1. CASE PowerLoss
  <2>1. \A u \in Threads : CallOf(job'[u]) = Store!NoCall
    BY <1>1, RestingCalls DEF PowerLoss
  <2>2. AbstractCall' = [u \in Threads |-> Store!NoCall]
    BY <2>1
  <2>3. Store!PowerLoss
    BY <1>1, <2>2 DEF PowerLoss, Store!PowerLoss
  <2> QED BY <2>3 DEF Store!Next
<1>2. ASSUME NEW c \in Clients, KillClient(c) PROVE Store!Next
  <2> DEFINE T == {u \in Threads : u[1] = c}
  <2>1. \A u \in Threads : CallOf(job'[u]) = IF u \in T THEN Store!NoCall ELSE AbstractCall[u]
    BY <1>2, RestingCalls DEF KillClient, AbstractCall
  <2>2. AbstractCall' = [u \in Threads |-> IF u \in T THEN Store!NoCall ELSE AbstractCall[u]]
    BY <2>1
  <2> HIDE DEF T
  <2>3. Store!Kill(T)
    BY <1>2, <2>2 DEF KillClient, directory, Store!Kill
  <2>4. T \in SUBSET Threads
    BY DEF T
  <2> QED BY <2>3, <2>4 DEF Store!Next
<1> QED BY <1>1, <1>2

\* The store keeps its promise, for any clients, keys and values: every step of the files,
\* the lock and the queues is a step of DurableStore or none of its business.
THEOREM StoreImplements == Spec => KeepsPromise
<1>1. Init => Store!Init
  BY InitImplements
<1>2. StoreInv /\ [Next]_vars => [Store!Next]_(Store!vars)
  <2> SUFFICES ASSUME StoreInv, [Next]_vars PROVE [Store!Next]_(Store!vars)
    OBVIOUS
  <2>1. CASE UNCHANGED vars
    BY <2>1 DEF vars, Store!vars, AbstractCall, CallOf, StageOf, Begun
  <2> QED BY <2>1, BeginImplements, OperationImplements, FailureImplements DEF Next
<1> QED BY <1>1, <1>2, StoreInvariant, PTL DEF Spec, KeepsPromise, Store!Spec

-----------------------------------------------------------------------------
\* Writes left in the queue

\* No push comes between a worker's last look at the queue and its return: the timing that the
\* run of QueueEmptyAtDestruction takes away.
NoPushMissed == \A c \in Clients : job[worker(c)].pc = "exit" => queue[c] = <<>>

\* A write that waits has a worker, or the main thread is about to look for one; a Params that
\* was destroyed has neither writes nor threads.
ServedInv ==
  \A c \in Clients :
    /\ queue[c] # <<>> => job[main(c)].pc = "pushed" \/ job[worker(c)].pc # "idle"
    /\ ~open[c] => queue[c] = <<>> /\ job[main(c)].pc = "idle"
    /\ job[worker(c)].pc # "pushed"

LEMMA InitServed == Init => ServedInv
BY ThreadsOf DEF Init, ServedInv, At

\* A step of an operation leaves no thread idle that was a worker, and none pushed.
LEMMA OperationServes ==
  ASSUME StoreInv, ServedInv, NEW t \in Threads, Operation(t)
  PROVE  ServedInv'
<1>1. /\ job \in [Threads -> Job] /\ UNCHANGED <<queue, open>>
      /\ job[t].pc \in {"write", "lock", "apply", "sync", "unlock"}
  BY DEF Operation, WriteTemp, TakeLock, ApplyNext, FsyncDir, Unlock, StoreInv, TypeOK
<1>2. \A u \in Threads \ {t} : job'[u] = job[u]
  BY <1>1 DEF Operation, WriteTemp, TakeLock, ApplyNext, FsyncDir, Unlock
<1>3. /\ job'[t].pc # "pushed"
      /\ job'[t].pc = "idle" => t[2] # "worker"
  <2>1. Rest(t).pc # "pushed" /\ (Rest(t).pc = "idle" => t[2] # "worker")
    BY DEF Rest, At
  <2>2. \/ job'[t] = Rest(t)
        \/ job'[t].pc \in {"lock", "apply", "sync", "unlock"}
    <3>1. job[t] \in Job
      BY <1>1
    <3>2. CASE WriteTemp(t) \/ Unlock(t)
      BY <1>1, <3>1, <3>2 DEF WriteTemp, Unlock, Job
    <3>3. CASE TakeLock(t) \/ FsyncDir(t)
      BY <1>1, <3>1, <3>3 DEF TakeLock, FsyncDir, Job
    <3>4. CASE ApplyNext(t)
      BY <1>1, <3>1, <3>4 DEF ApplyNext, Job
    <3> QED BY <3>2, <3>3, <3>4 DEF Operation
  <2> QED BY <2>1, <2>2
<1>4. ASSUME NEW c \in Clients
      PROVE  /\ queue'[c] # <<>> => job'[main(c)].pc = "pushed" \/ job'[worker(c)].pc # "idle"
             /\ ~open'[c] => queue'[c] = <<>> /\ job'[main(c)].pc = "idle"
             /\ job'[worker(c)].pc # "pushed"
  <2>1. main(c) \in Threads /\ worker(c) \in Threads /\ worker(c)[2] = "worker"
    BY ThreadsOf
  <2>2. job[main(c)].pc \in {"pushed", "idle"} => job'[main(c)] = job[main(c)]
    BY <1>1, <1>2, <2>1
  <2>3. /\ job[worker(c)].pc # "idle" => job'[worker(c)].pc # "idle"
        /\ job'[worker(c)].pc # "pushed"
    BY <1>2, <1>3, <2>1 DEF ServedInv
  <2> QED BY <1>1, <2>2, <2>3 DEF ServedInv
<1> QED BY <1>4 DEF ServedInv, main, worker

LEMMA ClientServes ==
  ASSUME StoreInv, ServedInv, NoPushMissed, NEW c \in Clients,
         \/ CallBlocking(c) \/ PutNonBlocking(c) \/ StartWorker(c) \/ Destroy(c) \/ Pop(c) \/ Exit(c)
         \/ KillClient(c)
  PROVE  ServedInv'
<1> DEFINE Fine(d, j, q, o) ==
             /\ q[d] # <<>> => j[main(d)].pc = "pushed" \/ j[worker(d)].pc # "idle"
             /\ ~o[d] => q[d] = <<>> /\ j[main(d)].pc = "idle"
             /\ j[worker(d)].pc # "pushed"
<1>1. /\ job \in [Threads -> Job] /\ queue \in [Clients -> Seq(Write)] /\ open \in [Clients -> BOOLEAN]
      /\ main(c) \in Threads /\ worker(c) \in Threads /\ main(c) # worker(c)
      /\ \A d \in Clients \ {c} : /\ main(d) \in Threads /\ worker(d) \in Threads
                                  /\ main(d) \notin {main(c), worker(c)}
                                  /\ worker(d) \notin {main(c), worker(c)}
  <2>1. \A d \in Clients \ {c} : /\ main(d)[1] # main(c)[1] /\ main(d)[1] # worker(c)[1]
                                 /\ worker(d)[1] # main(c)[1] /\ worker(d)[1] # worker(c)[1]
    BY ThreadsOf
  <2>2. \A d \in Clients \ {c} : /\ main(d) # main(c) /\ main(d) # worker(c)
                                 /\ worker(d) # main(c) /\ worker(d) # worker(c)
    BY <2>1
  <2> QED BY <2>2, ThreadsOf DEF StoreInv, TypeOK
<1>2. \A d \in Clients \ {c} : /\ queue'[d] = queue[d] /\ open'[d] = open[d]
                               /\ job'[main(d)] = job[main(d)] /\ job'[worker(d)] = job[worker(d)]
  <2>1. ASSUME NEW d \in Clients \ {c}
        PROVE  queue'[d] = queue[d] /\ open'[d] = open[d]
    BY <1>1 DEF CallBlocking, PutNonBlocking, StartWorker, Destroy, Pop, Exit, KillClient
  <2>2. ASSUME NEW t \in Threads, t \notin {main(c), worker(c)}, t[1] # c
        PROVE  job'[t] = job[t]
    BY <1>1, <2>2 DEF CallBlocking, PutNonBlocking, StartWorker, Destroy, Pop, Exit, KillClient
  <2>3. \A d \in Clients \ {c} : main(d)[1] # c /\ worker(d)[1] # c
    BY ThreadsOf
  <2> QED BY <1>1, <2>1, <2>2, <2>3
<1>3. Fine(c, job', queue', open')
  <2>1. CASE CallBlocking(c)
    BY <1>1, <2>1 DEF CallBlocking, MayCall, ServedInv, Put, Removal
  <2>2. CASE PutNonBlocking(c)
    BY <1>1, <2>2 DEF PutNonBlocking, MayCall, ServedInv, At
  <2>3. CASE StartWorker(c)
    BY <1>1, <2>3 DEF StartWorker, ServedInv, At
  <2>4. CASE Destroy(c)
    BY <1>1, <2>4 DEF Destroy, ServedInv
  <2>5. CASE Pop(c)
    BY <1>1, <2>5 DEF Pop, ServedInv, At, Put
  <2>6. CASE Exit(c)
    BY <1>1, <2>6 DEF Exit, ServedInv, NoPushMissed, At
  <2>7. CASE KillClient(c)
    BY <1>1, <2>7, ThreadsOf DEF KillClient, At
  <2> QED BY <2>1, <2>2, <2>3, <2>4, <2>5, <2>6, <2>7
<1> QED BY <1>2, <1>3 DEF ServedInv, main, worker

LEMMA ServedInductive == StoreInv /\ ServedInv /\ NoPushMissed /\ [Next]_vars => ServedInv'
<1> SUFFICES ASSUME StoreInv, ServedInv, NoPushMissed, [Next]_vars PROVE ServedInv'
  OBVIOUS
<1>1. CASE PowerLoss
  BY <1>1, ThreadsOf DEF PowerLoss, ServedInv, At, main, worker
<1>2. CASE UNCHANGED vars
  BY <1>2 DEF vars, ServedInv, main, worker
<1> QED BY <1>1, <1>2, ClientServes, OperationServes DEF Next, Operation

\* params.cc:103 asserts that the queue is empty when a Params is destroyed.  It is, through
\* write errors, kills and losses of power, whenever no push was missed: that one window is all
\* that strands a write.
THEOREM QueueIsDrained == Spec /\ []NoPushMissed => []QueueEmptyAtDestruction
<1>1. ServedInv => QueueEmptyAtDestruction
  BY DEF ServedInv, QueueEmptyAtDestruction
<1> QED BY <1>1, StoreInvariant, InitServed, ServedInductive, PTL DEF Spec
=============================================================================
