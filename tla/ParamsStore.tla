---------------------------- MODULE ParamsStore ----------------------------
(***************************************************************************)
(* The parameter store of common/params.cc, through which the processes    *)
(* of the program share their settings: one file per key, replaced by a    *)
(* rename under a lock file, and one Params object per client with a queue *)
(* of writes that a thread of its own carries out, started on demand.      *)
(*                                                                         *)
(* A thread is <<client, "main">> or <<client, "worker">>; its job is the  *)
(* call it is in.  The data of a new file are on the disk before it is     *)
(* renamed, so a file is always whole; what a loss of power may undo is    *)
(* the rename, until the directory is synced.                              *)
(***************************************************************************)
EXTENDS Integers, Sequences, FiniteSets

CONSTANTS
  Clients, Keys, Values,
  ClearedKeys,         \* the keys clearAll removes: those with the flag it is given
  Absent, NoThread,
  MaxCalls,            \* bound: calls of all the main threads
  MaxFailures          \* bound: writes that fail, clients killed, losses of power

Threads == Clients \X {"main", "worker"}

ASSUME ParamsAssumption ==
  /\ ClearedKeys \subseteq Keys /\ ClearedKeys # {}
  /\ Absent \notin Values
  /\ NoThread \notin Threads
  /\ MaxCalls \in Nat /\ MaxFailures \in Nat

VARIABLES
  \* the directory: what a file reads as, and what it may read as after a loss of power
  entry, stable,
  lock,                \* the thread that holds the lock file
  job,                 \* what each thread is doing
  queue, open,         \* of each client: the writes waiting, and whether Params still exists
  calls, failures,
  \* history, of each client: asynchronous writes pushed, and taken from the queue
  pushed, taken

vars == <<entry, stable, lock, job, queue, open, calls, failures, pushed, taken>>

main(c) == <<c, "main">>
worker(c) == <<c, "worker">>

Operations == {"none", "put", "remove", "clear"}
\* pc: "idle"; "write" the temporary file, wait for the "lock", "apply", "sync" the
\* directory, "unlock"; of a worker also "pop" and, after an empty queue, "exit"; of a
\* main thread also "pushed", between the push and the check for a worker.
Pcs == {"idle", "write", "lock", "apply", "sync", "unlock", "pop", "exit", "pushed"}
Job == [pc: Pcs, op: Operations, todo: SUBSET Keys, val: Values \cup {Absent}]
At(pc) == [pc |-> pc, op |-> "none", todo |-> {}, val |-> Absent]
Put(k, v) == [pc |-> "write", op |-> "put", todo |-> {k}, val |-> v]
Removal(op, keys) == [pc |-> "lock", op |-> op, todo |-> keys, val |-> Absent]

\* What a thread does after a call: the worker goes back to its queue.
MutRest(t) == At(IF t[2] = "worker" THEN "exit" ELSE "idle")
Rest(t) == At(IF t[2] = "worker" THEN "pop" ELSE "idle")

Write == [key: Keys, val: Values, n: Nat]

Init ==
  /\ entry = [k \in Keys |-> Absent] /\ stable = [k \in Keys |-> {Absent}]
  /\ lock = NoThread
  /\ job = [t \in Threads |-> At("idle")]
  /\ queue = [c \in Clients |-> <<>>] /\ open = [c \in Clients |-> TRUE]
  /\ calls = 0 /\ failures = 0
  /\ pushed = [c \in Clients |-> 0] /\ taken = [c \in Clients |-> 0]

directory == <<entry, stable>>
history == <<pushed, taken>>

-----------------------------------------------------------------------------
\* The calls of a main thread

MayCall(c) == job[main(c)].pc = "idle" /\ open[c] /\ calls < MaxCalls

\* put, remove and clearAll.
CallBlocking(c) ==
  /\ MayCall(c)
  /\ \/ \E k \in Keys, v \in Values : job' = [job EXCEPT ![main(c)] = Put(k, v)]
     \/ \E k \in Keys : job' = [job EXCEPT ![main(c)] = Removal("remove", {k})]
     \/ job' = [job EXCEPT ![main(c)] = Removal("clear", ClearedKeys)]
  /\ calls' = calls + 1
  /\ UNCHANGED <<directory, lock, queue, open, failures, history>>

\* putNonBlocking pushes the write, and then looks for a worker.
PutNonBlocking(c) ==
  /\ MayCall(c)
  /\ \E k \in Keys, v \in Values :
       queue' = [queue EXCEPT ![c] = Append(@, [key |-> k, val |-> v, n |-> pushed[c] + 1])]
  /\ pushed' = [pushed EXCEPT ![c] = @ + 1]
  /\ job' = [job EXCEPT ![main(c)] = At("pushed")]
  /\ calls' = calls + 1
  /\ UNCHANGED <<directory, lock, open, failures, taken>>

\* A worker that has returned, or was never started, leaves no future to wait for.
StartWorker(c) ==
  /\ job[main(c)].pc = "pushed"
  /\ job' = [job EXCEPT ![main(c)] = At("idle"),
                        ![worker(c)] = IF @.pc = "idle" THEN At("pop") ELSE @]
  /\ UNCHANGED <<directory, lock, queue, open, calls, failures, history>>

\* ~Params waits for the worker's return; the assertion on the queue follows.
Destroy(c) ==
  /\ job[main(c)].pc = "idle" /\ open[c] /\ job[worker(c)].pc = "idle"
  /\ open' = [open EXCEPT ![c] = FALSE]
  /\ UNCHANGED <<directory, lock, job, queue, calls, failures, history>>

-----------------------------------------------------------------------------
\* asyncWriteThread

\* try_pop: the next write, or the way out when there is none.
MutPop(c) ==
  /\ job[worker(c)].pc = "pop"
  /\ IF queue[c] = <<>>
     THEN job' = [job EXCEPT ![worker(c)] = At("exit")] /\ UNCHANGED <<queue, taken>>
     ELSE LET last == queue[c][Len(queue[c])]
          IN /\ job' = [job EXCEPT ![worker(c)] = Put(last.key, last.val)]
             /\ queue' = [queue EXCEPT ![c] = SubSeq(@, 1, Len(@) - 1)]
             /\ taken' = [taken EXCEPT ![c] = last.n]
  /\ UNCHANGED <<directory, lock, open, calls, failures, pushed>>
Pop(c) ==
  /\ job[worker(c)].pc = "pop"
  /\ IF queue[c] = <<>>
     THEN job' = [job EXCEPT ![worker(c)] = At("exit")] /\ UNCHANGED <<queue, taken>>
     ELSE /\ job' = [job EXCEPT ![worker(c)] = Put(Head(queue[c]).key, Head(queue[c]).val)]
          /\ queue' = [queue EXCEPT ![c] = Tail(@)]
          /\ taken' = [taken EXCEPT ![c] = Head(queue[c]).n]
  /\ UNCHANGED <<directory, lock, open, calls, failures, pushed>>

\* The thread returns, some time after it found the queue empty.
Exit(c) ==
  /\ job[worker(c)].pc = "exit"
  /\ job' = [job EXCEPT ![worker(c)] = At("idle")]
  /\ UNCHANGED <<directory, lock, queue, open, calls, failures, history>>

-----------------------------------------------------------------------------
\* The steps of an operation, by whichever thread

\* put's temporary file: made, written and synced, or given up and removed.
WriteTemp(t) ==
  /\ job[t].pc = "write"
  /\ \/ job' = [job EXCEPT ![t].pc = "lock"] /\ UNCHANGED failures
     \/ /\ failures < MaxFailures /\ failures' = failures + 1
        /\ job' = [job EXCEPT ![t] = Rest(t)]
  /\ UNCHANGED <<directory, lock, queue, open, calls, history>>

TakeLock(t) ==
  /\ job[t].pc = "lock" /\ lock = NoThread
  /\ lock' = t
  /\ job' = [job EXCEPT ![t].pc = "apply"]
  /\ UNCHANGED <<directory, queue, open, calls, failures, history>>

\* rename, or unlink of a key; remove of a key without a value ends here.
MutApplyNext(t) ==
  /\ job[t].pc = "apply"
  /\ \E k \in job[t].todo :
       IF job[t].op = "remove" /\ entry[k] = Absent
       THEN /\ job' = [job EXCEPT ![t] = Rest(t)]
            /\ UNCHANGED <<directory, lock>>
       ELSE /\ entry' = [entry EXCEPT ![k] = job[t].val]
            /\ stable' = [stable EXCEPT ![k] = @ \cup {job[t].val}]
            /\ job' = [job EXCEPT ![t].todo = @ \ {k},
                                  ![t].pc = IF job[t].todo = {k} THEN "sync" ELSE @]
            /\ UNCHANGED lock
  /\ UNCHANGED <<queue, open, calls, failures, history>>
ApplyNext(t) ==
  /\ job[t].pc = "apply"
  /\ \E k \in job[t].todo :
       IF job[t].op = "remove" /\ entry[k] = Absent
       THEN /\ job' = [job EXCEPT ![t].pc = "unlock"]
            /\ UNCHANGED directory
       ELSE /\ entry' = [entry EXCEPT ![k] = job[t].val]
            /\ stable' = [stable EXCEPT ![k] = @ \cup {job[t].val}]
            /\ job' = [job EXCEPT ![t].todo = @ \ {k},
                                  ![t].pc = IF job[t].todo = {k} THEN "sync" ELSE @]
  /\ UNCHANGED <<lock, queue, open, calls, failures, history>>

\* fsync_dir: of the whole directory, so every rename made so far is kept.
MutFsyncDir(t) ==
  /\ job[t].pc = "sync"
  /\ job' = [job EXCEPT ![t].pc = "unlock"]
  /\ UNCHANGED <<directory, lock, queue, open, calls, failures, history>>
FsyncDir(t) ==
  /\ job[t].pc = "sync"
  /\ stable' = [k \in Keys |-> {entry[k]}]
  /\ job' = [job EXCEPT ![t].pc = "unlock"]
  /\ UNCHANGED <<entry, lock, queue, open, calls, failures, history>>

\* The lock file is closed, and the call returns.
Unlock(t) ==
  /\ job[t].pc = "unlock"
  /\ lock' = NoThread
  /\ job' = [job EXCEPT ![t] = Rest(t)]
  /\ UNCHANGED <<directory, queue, open, calls, failures, history>>

-----------------------------------------------------------------------------
\* Failures

\* A process is killed; the kernel closes its lock file.  It may be started again.
KillClient(c) ==
  /\ failures < MaxFailures /\ failures' = failures + 1
  /\ job' = [t \in Threads |-> IF t[1] = c THEN At("idle") ELSE job[t]]
  /\ lock' = IF lock # NoThread /\ lock \in {main(c), worker(c)} THEN NoThread ELSE lock
  /\ queue' = [queue EXCEPT ![c] = <<>>] /\ open' = [open EXCEPT ![c] = TRUE]
  /\ pushed' = [pushed EXCEPT ![c] = 0] /\ taken' = [taken EXCEPT ![c] = 0]
  /\ UNCHANGED <<directory, calls>>

PowerLoss ==
  /\ failures < MaxFailures /\ failures' = failures + 1
  /\ entry' \in [Keys -> UNION {stable[k] : k \in Keys}]
  /\ \A k \in Keys : entry'[k] \in stable[k]
  /\ stable' = [k \in Keys |-> {entry'[k]}]
  /\ lock' = NoThread
  /\ job' = [t \in Threads |-> At("idle")]
  /\ queue' = [c \in Clients |-> <<>>] /\ open' = [c \in Clients |-> TRUE]
  /\ pushed' = [c \in Clients |-> 0] /\ taken' = [c \in Clients |-> 0]
  /\ UNCHANGED calls

-----------------------------------------------------------------------------

\* A step of an operation that has begun.
Operation(t) == WriteTemp(t) \/ TakeLock(t) \/ ApplyNext(t) \/ FsyncDir(t) \/ Unlock(t)

Next ==
  \/ \E c \in Clients : \/ CallBlocking(c) \/ PutNonBlocking(c) \/ StartWorker(c)
                        \/ Destroy(c) \/ Pop(c) \/ Exit(c) \/ KillClient(c)
  \/ \E t \in Threads : WriteTemp(t) \/ TakeLock(t) \/ ApplyNext(t) \/ FsyncDir(t) \/ Unlock(t)
  \/ PowerLoss

Spec == Init /\ [][Next]_vars

\* Threads run.  A thread that keeps waiting is served because the calls are bounded; the
\* code relies on flock for it.
Fairness ==
  /\ \A t \in Threads : WF_vars(Operation(t))
  /\ \A c \in Clients : WF_vars(StartWorker(c)) /\ WF_vars(Pop(c)) /\ WF_vars(Exit(c))

FairSpec == Spec /\ Fairness

-----------------------------------------------------------------------------
\* Properties

\* The values each variable takes, and that the lock's holder is the one thread between
\* TakeLock and Unlock.
TypeOK ==
  /\ entry \in [Keys -> Values \cup {Absent}]
  /\ stable \in [Keys -> SUBSET (Values \cup {Absent})]
  /\ \A k \in Keys : entry[k] \in stable[k]
  /\ lock \in Threads \cup {NoThread}
  /\ job \in [Threads -> Job]
  /\ \A t \in Threads : job[t].pc \in {"apply", "sync", "unlock"} <=> lock = t
  /\ queue \in [Clients -> Seq(Write)]
  /\ open \in [Clients -> BOOLEAN]
  /\ calls \in 0..MaxCalls /\ failures \in 0..MaxFailures
  /\ {pushed, taken} \subseteq [Clients -> 0..MaxCalls]

\* A client's asynchronous writes are carried out in the order of its calls, each one
\* once: between the last one taken and the last one pushed lies exactly the queue,
\* whatever worker is running and however the pushes met its return.
AsyncInOrder ==
  \A c \in Clients :
    /\ Len(queue[c]) = pushed[c] - taken[c]
    /\ \A i \in 1..Len(queue[c]) : queue[c][i].n = taken[c] + i

\* The operation has taken effect on some key.
Begun(j) == IF j.op = "clear" THEN j.todo # ClearedKeys ELSE j.todo = {}

\* How a thread's job looks to a user of the store: the operation of an absent key's
\* removal ends at "unlock" without having taken effect.
StageOf(j) ==
  IF j.pc \in {"write", "lock"} \/ (j.pc \in {"apply", "unlock"} /\ ~Begun(j)) THEN "pending"
  ELSE IF j.pc \in {"apply", "sync"} THEN "applied"
  ELSE IF j.pc = "unlock" THEN "durable" ELSE "none"
CallOf(j) == [stage |-> StageOf(j), keys |-> j.todo, val |-> j.val]
AbstractCall == [t \in Threads |-> CallOf(job[t])]

Store == INSTANCE DurableStore WITH value <- entry, call <- AbstractCall

\* params.py: "block=True waits until it is persisted to disk".  The files, the lock and
\* the directory sync together keep the promise of DurableStore, through write errors, kills
\* and losses of power.
KeepsPromise == Store!Spec

\* No call blocks for ever, whoever holds the lock, fails or is killed.
CallsReturn == \A c \in Clients : job[main(c)].pc # "idle" ~> job[main(c)].pc = "idle"

\* A write may be left in the queue when it was pushed while the worker was returning; the
\* next push that finds no worker brings it out.
NextPushDrains ==
  \A c \in Clients :
    job[main(c)].pc = "pushed" /\ job[worker(c)].pc = "idle" ~> queue[c] = <<>>

\* params.cc:103: assert(queue.empty()) in the destructor, after the wait for the worker.
QueueEmptyAtDestruction == \A c \in Clients : ~open[c] => queue[c] = <<>>
=============================================================================
