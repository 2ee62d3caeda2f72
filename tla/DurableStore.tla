---------------------------- MODULE DurableStore ----------------------------
(***************************************************************************)
(* What the params of common/params.cc promise their callers, whatever     *)
(* the number of processes: a key always reads as one whole value; an      *)
(* operation takes effect between its call and its return, or not at all   *)
(* when it fails; once it returns, no loss of power undoes it.             *)
(***************************************************************************)
CONSTANTS
  Keys, Values,
  Absent,              \* what is read of a key that has no value
  Threads              \* the threads that call operations, of any process

VARIABLES
  value,               \* what a reader sees of each key
  stable,              \* what each key may read as after a loss of power
  call                 \* the call of each thread: the keys left, the value, and how far it is

vars == <<value, stable, call>>

Stages == {"none", "pending", "applied", "durable"}
Call == [stage: Stages, keys: SUBSET Keys, val: Values \cup {Absent}]
NoCall == [stage |-> "none", keys |-> {}, val |-> Absent]

Init ==
  /\ value = [k \in Keys |-> Absent]
  /\ stable = [k \in Keys |-> {Absent}]
  /\ call = [t \in Threads |-> NoCall]

\* A put of one key, or a removal of some.
Begin(t) ==
  /\ call[t] = NoCall
  /\ \E keys \in SUBSET Keys, val \in Values \cup {Absent} :
       call' = [call EXCEPT ![t] = [stage |-> "pending", keys |-> keys, val |-> val]]
  /\ UNCHANGED <<value, stable>>

\* The operation takes effect on one of the keys left to it.  A loss of power may still
\* bring back what was there.
Apply(t) ==
  /\ call[t].stage \in {"pending", "applied"}
  /\ \E k \in call[t].keys :
       /\ value' = [value EXCEPT ![k] = call[t].val]
       /\ stable' = [stable EXCEPT ![k] = @ \cup {call[t].val}]
       /\ call' = [call EXCEPT ![t] = [stage |-> "applied", keys |-> @.keys \ {k}, val |-> @.val]]

\* With no key left, what readers see is made to last.
Commit(t) ==
  /\ call[t].stage = "applied" /\ call[t].keys = {}
  /\ stable' = [k \in Keys |-> {value[k]}]
  /\ call' = [call EXCEPT ![t].stage = "durable"]
  /\ UNCHANGED value

\* An operation returns once it is durable, or fails without an effect.
Return(t) ==
  /\ call[t].stage \in {"pending", "durable"}
  /\ call' = [call EXCEPT ![t] = NoCall]
  /\ UNCHANGED <<value, stable>>

\* A process is killed: its threads' calls stop where they are.
Kill(T) ==
  /\ call' = [t \in Threads |-> IF t \in T THEN NoCall ELSE call[t]]
  /\ UNCHANGED <<value, stable>>

\* Power is lost: every key reads as something it may have kept.
PowerLoss ==
  /\ value' \in [Keys -> UNION {stable[k] : k \in Keys}]
  /\ \A k \in Keys : value'[k] \in stable[k]
  /\ stable' = [k \in Keys |-> {value'[k]}]
  /\ call' = [t \in Threads |-> NoCall]

Next ==
  \/ \E t \in Threads : Begin(t) \/ Apply(t) \/ Commit(t) \/ Return(t)
  \/ \E T \in SUBSET Threads : Kill(T)
  \/ PowerLoss

Spec == Init /\ [][Next]_vars
=============================================================================
