------------------------------- MODULE JobQueue -------------------------------
(***************************************************************************)
(* What the job system promises to workers, whatever happens to them: a    *)
(* queue that numbers the times it hands a job out.  A job may come back   *)
(* to the queue while an earlier holder still works on it (resume), but    *)
(* no number is ever handed out twice, and a job that has left for good    *)
(* never comes back.                                                       *)
(***************************************************************************)
EXTENDS Naturals

CONSTANTS JobId, Worker, None

VARIABLES
  place,  \* place[j]: where job j is
  given,  \* given[j]: how many times j has been handed out
  holder  \* holder[w]: the job w has been handed and its number, or None

vars == <<place, given, holder>>

Place == {"unborn", "waiting", "out", "gone"}

TypeOK ==
  /\ place \in [JobId -> Place]
  /\ given \in [JobId -> Nat]
  /\ holder \in [Worker -> [id : JobId, attempt : Nat] \cup {None}]

Init ==
  /\ place = [j \in JobId |-> "unborn"]
  /\ given = [j \in JobId |-> 0]
  /\ holder = [w \in Worker |-> None]

\* j enters the queue.
Enqueue(j) ==
  /\ place[j] = "unborn"
  /\ place' = [place EXCEPT ![j] = "waiting"]
  /\ UNCHANGED <<given, holder>>

\* w is handed the waiting job j under the next number.
Take(w, j) ==
  /\ holder[w] = None
  /\ place[j] = "waiting"
  /\ place' = [place EXCEPT ![j] = "out"]
  /\ given' = [given EXCEPT ![j] = @ + 1]
  /\ holder' = [holder EXCEPT ![w] = [id |-> j, attempt |-> given[j] + 1]]

\* w is done with its job, or dies.
LetGo(w) ==
  /\ holder[w] # None
  /\ holder' = [holder EXCEPT ![w] = None]
  /\ UNCHANGED <<place, given>>

\* w is done with its job, and takes it off the queue if it had come back.
Settle(w) ==
  /\ holder[w] # None
  /\ place' = [place EXCEPT ![holder[w].id] = IF @ = "waiting" THEN "out" ELSE @]
  /\ holder' = [holder EXCEPT ![w] = None]
  /\ UNCHANGED given

\* A waiting job is taken off the queue by hand, or one that is not waiting
\* is put back.
Withdraw(j) ==
  /\ place[j] = "waiting"
  /\ place' = [place EXCEPT ![j] = "out"]
  /\ UNCHANGED <<given, holder>>

Return(j) ==
  /\ place[j] = "out"
  /\ place' = [place EXCEPT ![j] = "waiting"]
  /\ UNCHANGED <<given, holder>>

\* j leaves for good, with its count.
Discard(j) ==
  /\ place[j] # "gone"
  /\ place' = [place EXCEPT ![j] = "gone"]
  /\ given' = [given EXCEPT ![j] = 0]
  /\ UNCHANGED holder

Next ==
  \/ \E j \in JobId : Enqueue(j) \/ Withdraw(j) \/ Return(j) \/ Discard(j)
  \/ \E w \in Worker : LetGo(w) \/ Settle(w) \/ \E j \in JobId : Take(w, j)

Spec == Init /\ [][Next]_vars
=============================================================================
