---------------------------- MODULE RebalanceProofs ----------------------------
(***************************************************************************)
(* What rebalancing and claiming achieve, for every table, policy and      *)
(* order of the scan.  The scan finds the best submitted job because       *)
(* better_candidate is a strict total order on records with distinct ids:  *)
(* the candidate in hand, compared with one record after another, never    *)
(* needs a second look.  Rebalancing does what the policy says because a   *)
(* policy with finitely many rules has a first one and a last one, and a   *)
(* sane one asks for more the less time is left, so that what was asked    *)
(* for earlier never exceeds what is asked for now.                        *)
(***************************************************************************)
EXTENDS Rebalance, JobRecordProofs, FiniteSetTheorems, WellFoundedInduction

-----------------------------------------------------------------------------
(* The invariant.                                                          *)

\* The table holds records under their own ids, and the scan's state is made
\* of ids of the table, the candidate being one it has passed.
TableOK ==
  /\ policy \in SchedulingPolicies
  /\ jobs \in [JobId -> JobRecord]
  /\ \A j \in JobId : jobs[j].id = j
  /\ now \in Nat
  /\ seen \subseteq JobId
  /\ candidate \in Submitted(seen) \cup {None}

RInv == TableOK /\ ScanFindsBest

LEMMA InitRInv == Init => RInv
<1>. SUFFICES ASSUME Init PROVE RInv
  OBVIOUS
<1>1. TableOK
  BY RebalanceAssumption DEF Init, TableOK, Submitted
<1>2. ScanFindsBest
  BY DEF Init, ScanFindsBest, Submitted
<1>. QED
  BY <1>1, <1>2 DEF RInv

\* Every priority a policy asks for is one of Priorities.
LEMMA TargetPriorities ==
  ASSUME NEW q \in SchedulingPolicies, NEW due, NEW t
  PROVE  TargetPriority(q, due, t) \subseteq Priorities
<1>. DEFINE left == Remaining(due, t)
            rules == IF left > 0 THEN FirstRule(q, left)
                     ELSE IF q.escalateOverdue THEN LastRule(q) ELSE {}
<1>1. q.escalations \subseteq Escalation /\ q.overdue \in Priorities \cup {None}
  BY DEF SchedulingPolicies
<1>2. \A e \in q.escalations : e.priority \in Priorities
  BY <1>1 DEF Escalation
<1>3. FirstRule(q, left) \subseteq q.escalations /\ LastRule(q) \subseteq q.escalations
  BY DEF FirstRule, LastRule
<1>4. rules \subseteq q.escalations
  BY <1>3
<1>5. {e.priority : e \in rules} \subseteq Priorities
  BY <1>4, <1>2
<1>6. q.overdue # None => q.overdue \in Priorities
  BY <1>1
<1>7. TargetPriority(q, due, t) =
        IF left <= 0 /\ q.overdue # None THEN {q.overdue} ELSE {e.priority : e \in rules}
  BY DEF TargetPriority
<1>. HIDE DEF left, rules
<1>. QED
  BY <1>5, <1>6, <1>7

LEMMA AskedPriorities ==
  ASSUME NEW q \in SchedulingPolicies, NEW r, NEW t
  PROVE  EscalatedPriority(q, r, t) \subseteq Priorities
  BY TargetPriorities DEF EscalatedPriority

\* Rebalancing keeps the ids and writes records.
LEMMA RebalancedOK ==
  ASSUME TableOK
  PROVE  /\ Rebalanced \in [JobId -> JobRecord]
         /\ \A j \in JobId : Rebalanced[j].id = j
<1>. SUFFICES ASSUME NEW j \in JobId
              PROVE  Rebalanced[j] \in JobRecord /\ Rebalanced[j].id = j
  BY DEF Rebalanced
<1>. DEFINE asked == EscalatedPriority(policy, jobs[j], now)
<1>1. jobs[j] \in JobRecord /\ jobs[j].id = j
  BY DEF TableOK
<1>2. Rebalanced[j] = IF asked = {} THEN jobs[j]
                      ELSE [jobs[j] EXCEPT !.priority = CHOOSE p \in asked : TRUE, !.updated = now]
  BY DEF Rebalanced
<1>3. asked # {} => (CHOOSE p \in asked : TRUE) \in Priorities
  BY AskedPriorities DEF TableOK
<1>. HIDE DEF asked
<1>4. CASE asked = {}
  BY <1>1, <1>2, <1>4
<1>5. ASSUME NEW p \in Priorities
      PROVE  LET r == [jobs[j] EXCEPT !.priority = p, !.updated = now]
             IN  r \in JobRecord /\ r.id = j
  BY <1>1 DEF TableOK, JobRecord
<1>6. CASE asked # {}
  BY <1>2, <1>3, <1>5, <1>6
<1>. QED
  BY <1>4, <1>6

-----------------------------------------------------------------------------
(* The steps.                                                              *)

\* Between scans nothing has been passed, and there is no candidate.
LEMMA BetweenScans ==
  ASSUME RInv, Wait \/ Apply
  PROVE  RInv'
<1>1. seen = {} /\ seen' = {} /\ candidate = None /\ candidate' = None
  BY DEF RInv, ScanFindsBest, Submitted, Wait, Apply
<1>2. ScanFindsBest'
  BY <1>1 DEF ScanFindsBest, Submitted
<1>3. TableOK'
  <2>1. CASE Wait
    BY <2>1, <1>1 DEF RInv, TableOK, Wait, Submitted
  <2>2. CASE Apply
    <3>1. jobs' \in [JobId -> JobRecord] /\ (\A j \in JobId : jobs[j].id = j)'
      BY <2>2, RebalancedOK DEF RInv, Apply
    <3>. QED
      BY <2>2, <3>1, <1>1 DEF RInv, TableOK, Apply, Submitted
  <2>. QED
    BY <2>1, <2>2
<1>. QED
  BY <1>2, <1>3 DEF RInv

\* A record that is not submitted changes nothing of what the scan is about.
LEMMA SkipOK ==
  ASSUME RInv, NEW j \in JobId, Skip(j)
  PROVE  RInv'
<1>1. UNCHANGED <<policy, jobs, now, candidate>> /\ seen' = seen \cup {j}
  BY DEF Skip
<1>2. Submitted(seen)' = Submitted(seen)
  BY <1>1 DEF Skip, Submitted
<1>3. ScanFindsBest'
  BY <1>1, <1>2 DEF RInv, ScanFindsBest, IsBest
<1>4. TableOK'
  BY <1>1, <1>2 DEF RInv, TableOK
<1>. QED
  BY <1>3, <1>4 DEF RInv

\* The better of the best so far and the next record is the best of all.
LEMMA ConsiderOK ==
  ASSUME RInv, NEW j \in JobId, Consider(j)
  PROVE  RInv'
<1>1. UNCHANGED <<policy, jobs, now>> /\ seen' = seen \cup {j} /\ j \notin seen
  BY DEF Consider
<1>2. Submitted(seen)' = Submitted(seen) \cup {j} /\ j \notin Submitted(seen)
  BY <1>1 DEF Consider, Submitted
<1>3. candidate' \in Submitted(seen)'
  BY <1>1, <1>2 DEF Consider, RInv, TableOK
<1>4. candidate' # None
  BY <1>3, RebalanceAssumption, <1>1 DEF Submitted, RInv, TableOK
<1>5. ASSUME NEW k \in Submitted(seen)', k # candidate'
      PROVE  better_candidate(jobs[candidate'], jobs[k])
  <2>0. /\ k \in JobId /\ candidate' \in JobId
        /\ jobs[j] \in JobRecord /\ jobs[k] \in JobRecord
        /\ jobs[j].id = j /\ jobs[k].id = k
    BY <1>1, <1>2, <1>3, <1>5 DEF RInv, TableOK, Submitted
  <2>1. CASE candidate = None
    BY <2>1, <1>2, <1>3, <1>5 DEF RInv, ScanFindsBest, Consider
  <2>2. CASE candidate # None
    <3>0. /\ candidate \in JobId /\ candidate # j
          /\ jobs[candidate] \in JobRecord /\ jobs[candidate].id = candidate
      BY <2>2, <1>1 DEF RInv, TableOK, Submitted
    <3>1. \A i \in Submitted(seen) \ {candidate} : better_candidate(jobs[candidate], jobs[i])
      <4>1. IsBest(jobs[candidate], {jobs[i] : i \in Submitted(seen)})
        BY <2>2 DEF RInv, TableOK, ScanFindsBest
      <4>2. \A i \in Submitted(seen) \ {candidate} : jobs[i] # jobs[candidate]
        BY <3>0 DEF RInv, TableOK, Submitted
      <4>. QED
        BY <4>1, <4>2 DEF IsBest
    <3>2. CASE better_candidate(jobs[j], jobs[candidate])
      <4>1. candidate' = j
        BY <2>2, <3>2 DEF Consider
      <4>2. k \in Submitted(seen)
        BY <4>1, <1>2, <1>5
      <4>. QED
        BY <4>1, <4>2, <3>0, <3>1, <3>2, <2>0, BetterTransitive
    <3>3. CASE ~better_candidate(jobs[j], jobs[candidate])
      <4>1. candidate' = candidate
        BY <2>2, <3>3 DEF Consider
      <4>2. CASE k = j
        BY <4>1, <4>2, <3>0, <3>3, <2>0, BetterTotal
      <4>3. CASE k # j
        BY <4>1, <4>3, <3>1, <1>2, <1>5
      <4>. QED
        BY <4>2, <4>3
    <3>. QED
      BY <3>2, <3>3
  <2>. QED
    BY <2>1, <2>2
<1>6. ScanFindsBest'
  <2>1. IsBest(jobs[candidate'], {jobs[k] : k \in Submitted(seen)'})
    BY <1>3, <1>5 DEF IsBest
  <2>. QED
    BY <2>1, <1>1, <1>3, <1>4 DEF ScanFindsBest, IsBest
<1>7. TableOK'
  BY <1>1, <1>3 DEF RInv, TableOK
<1>. QED
  BY <1>6, <1>7 DEF RInv

LEMMA NextRInv == RInv /\ [Next]_vars => RInv'
<1>. SUFFICES ASSUME RInv, [Next]_vars PROVE RInv'
  OBVIOUS
<1>1. CASE Wait \/ Apply
  BY <1>1, BetweenScans
<1>2. ASSUME NEW j \in JobId, Skip(j) PROVE RInv'
  BY <1>2, SkipOK
<1>3. ASSUME NEW j \in JobId, Consider(j) PROVE RInv'
  BY <1>3, ConsiderOK
<1>4. CASE UNCHANGED vars
  BY <1>4 DEF vars, RInv, TableOK, ScanFindsBest, Submitted, IsBest
<1>. QED
  BY <1>1, <1>2, <1>3, <1>4 DEF Next

\* Whatever the order of the table, claim_next_submitted has in hand the best
\* of the submitted records it has passed, also after any rebalancing.
THEOREM ScanCorrect == Spec => []ScanFindsBest
<1>1. RInv => ScanFindsBest
  BY DEF RInv
<1>. QED
  BY InitRInv, NextRInv, <1>1, PTL DEF Spec

-----------------------------------------------------------------------------
(* The rules of a policy.                                                  *)

\* A finite set that is not empty has a first element in every strict total
\* order R.
LEMMA FiniteHasFirst ==
  ASSUME NEW S, IsFiniteSet(S), S # {}, NEW R,
         \A x, y \in S : x = y \/ <<x, y>> \in R \/ <<y, x>> \in R,
         \A x, y, z \in S : <<x, y>> \in R /\ <<y, z>> \in R => <<x, z>> \in R
  PROVE  \E m \in S : \A x \in S \ {m} : <<m, x>> \in R
<1> DEFINE First(U) == \E m \in U : \A x \in U \ {m} : <<m, x>> \in R
           Bad == {U \in FiniteSubsetsOf(S) : U # {} /\ ~First(U)}
<1>1. SUFFICES ASSUME Bad # {} PROVE FALSE
  <2>1. S \in FiniteSubsetsOf(S)
    BY DEF FiniteSubsetsOf
  <2>. QED BY <2>1
<1>2. PICK U \in Bad : \A V \in Bad : <<V, U>> \notin StrictSubsetOrdering(S)
  <2>1. IsWellFoundedOn(StrictSubsetOrdering(S), FiniteSubsetsOf(S))
    BY FS_StrictSubsetOrderingWellFounded
  <2>2. Bad \subseteq FiniteSubsetsOf(S)
    OBVIOUS
  <2>. HIDE DEF Bad
  <2>. QED BY <1>1, <2>1, <2>2, WFMin
<1>3. U \subseteq S /\ IsFiniteSet(U) /\ U # {} /\ ~First(U)
  BY DEF FiniteSubsetsOf
<1>4. PICK x \in U : TRUE
  BY <1>3
<1> DEFINE V == U \ {x}
<1>5. V \in FiniteSubsetsOf(S)
  BY <1>3, FS_Subset DEF FiniteSubsetsOf
<1>6. <<V, U>> \in StrictSubsetOrdering(S)
  BY <1>3, <1>4 DEF StrictSubsetOrdering
<1>7. V = {} \/ First(V)
  BY <1>2, <1>5, <1>6
<1>8. CASE V = {}
  BY <1>3, <1>4, <1>8
<1>9. CASE First(V)
  <2>1. PICK m \in V : \A y \in V \ {m} : <<m, y>> \in R
    BY <1>9
  <2>2. CASE <<m, x>> \in R
    BY <1>3, <1>4, <2>1, <2>2
  <2>3. CASE <<x, m>> \in R
    <3>1. \A y \in U \ {x} : <<x, y>> \in R
      BY <1>3, <1>4, <2>1, <2>3
    <3>. QED BY <1>3, <1>4, <3>1
  <2>. QED BY <1>3, <1>4, <2>1, <2>2, <2>3
<1>. QED BY <1>7, <1>8, <1>9

\* Precedes is a strict total order on rules.
LEMMA PrecedesOrders ==
  ASSUME NEW e \in Escalation, NEW f \in Escalation
  PROVE  /\ e = f \/ Precedes(e, f) \/ Precedes(f, e)
         /\ ~(Precedes(e, f) /\ Precedes(f, e))
         /\ \A g \in Escalation : Precedes(e, f) /\ Precedes(f, g) => Precedes(e, g)
<1>1. \A g \in Escalation : g.within \in Int /\ g.priority \in Int
  BY RecordAssumption DEF Escalation
<1>2. e.within = f.within /\ e.priority = f.priority => e = f
  BY DEF Escalation
<1>. QED BY <1>1, <1>2 DEF Precedes

\* Some rule whose window holds the job is the first to do so.
LEMMA FirstRuleFound ==
  ASSUME NEW q \in SchedulingPolicies, IsFiniteSet(q.escalations), NEW left \in Int,
         NEW e \in q.escalations, left <= e.within
  PROVE  \E f \in FirstRule(q, left) : f = e \/ Precedes(f, e)
<1> DEFINE S == {f \in q.escalations : left <= f.within}
           R == {p \in S \X S : Precedes(p[1], p[2])}
<1>1. S \subseteq Escalation /\ IsFiniteSet(S) /\ e \in S
  BY FS_Subset DEF SchedulingPolicies
<1>2. \A x, y \in S : <<x, y>> \in R <=> Precedes(x, y)
  OBVIOUS
<1>3. \E m \in S : \A x \in S \ {m} : <<m, x>> \in R
  <2>1. \A x, y \in S : x = y \/ <<x, y>> \in R \/ <<y, x>> \in R
    BY <1>1, <1>2, PrecedesOrders
  <2>2. \A x, y, z \in S : <<x, y>> \in R /\ <<y, z>> \in R => <<x, z>> \in R
    BY <1>1, <1>2, PrecedesOrders
  <2>. HIDE DEF S, R
  <2>. QED BY <1>1, <2>1, <2>2, FiniteHasFirst
<1>4. PICK m \in S : \A x \in S \ {m} : Precedes(m, x)
  BY <1>2, <1>3
<1>. QED BY <1>1, <1>4 DEF FirstRule

\* A policy with rules has a last one.
LEMMA LastRuleFound ==
  ASSUME NEW q \in SchedulingPolicies, IsFiniteSet(q.escalations), q.escalations # {}
  PROVE  LastRule(q) # {}
<1> DEFINE S == q.escalations
           R == {p \in S \X S : Precedes(p[2], p[1])}
<1>1. S \subseteq Escalation
  BY DEF SchedulingPolicies
<1>2. \A x, y \in S : <<x, y>> \in R <=> Precedes(y, x)
  OBVIOUS
<1>3. \E m \in S : \A x \in S \ {m} : <<m, x>> \in R
  <2>1. \A x, y \in S : x = y \/ <<x, y>> \in R \/ <<y, x>> \in R
    BY <1>1, <1>2, PrecedesOrders
  <2>2. \A x, y, z \in S : <<x, y>> \in R /\ <<y, z>> \in R => <<x, z>> \in R
    BY <1>1, <1>2, PrecedesOrders
  <2>. HIDE DEF S, R
  <2>. QED BY <2>1, <2>2, FiniteHasFirst DEF S
<1>. QED BY <1>2, <1>3 DEF LastRule

\* A policy asks for one priority at most.
LEMMA TargetUnique ==
  ASSUME NEW q \in SchedulingPolicies, NEW due, NEW t,
         NEW v \in TargetPriority(q, due, t), NEW w \in TargetPriority(q, due, t)
  PROVE  v = w
<1>1. q.escalations \subseteq Escalation
  BY DEF SchedulingPolicies
<1>2. \A left : \A e, f \in FirstRule(q, left) : e = f
  BY <1>1, PrecedesOrders DEF FirstRule
<1>3. \A e, f \in LastRule(q) : e = f
  BY <1>1, PrecedesOrders DEF LastRule
<1>. QED BY <1>2, <1>3 DEF TargetPriority

-----------------------------------------------------------------------------
(* The time a job has left, in whole seconds.                              *)

\* Division by a positive number is monotonic.
LEMMA DivMonotonic ==
  ASSUME NEW d \in Nat \ {0}, NEW a \in Nat, NEW b \in Nat, a <= b
  PROVE  a \div d \in Nat /\ a \div d <= b \div d
<1> DEFINE m == a \div d
           n == b \div d
<1>1. /\ m \in Int /\ n \in Int
      /\ d * m <= a /\ a < d * m + d
      /\ d * n <= b /\ b < d * n + d
  OBVIOUS
<1>. HIDE DEF m, n
<1>2. m >= 0
  <2>. SUFFICES ASSUME m <= -1 PROVE FALSE
    BY <1>1
  <2>1. d * m <= d * (-1)
    BY <1>1
  <2>. QED BY <1>1, <2>1
<1>3. m <= n
  <2>. SUFFICES ASSUME n + 1 <= m PROVE FALSE
    BY <1>1
  <2>1. d * (n + 1) <= d * m
    BY <1>1
  <2>2. d * (n + 1) = d * n + d
    BY <1>1
  <2>. QED BY <1>1, <2>1, <2>2
<1>. QED BY <1>1, <1>2, <1>3 DEF m, n

\* The less time, the less is left; and nothing is left once it is due.
LEMMA RemainingFalls ==
  ASSUME NEW due \in Nat, NEW t \in Nat, NEW later \in Nat, NEW u \in Nat,
         due - t <= later - u
  PROVE  /\ Remaining(due, t) \in Int /\ Remaining(later, u) \in Int
         /\ Remaining(due, t) <= Remaining(later, u)
         /\ due <= t => Remaining(due, t) <= 0
<1> DEFINE T == TicksPerSecond
<1>1. T \in Nat \ {0}
  BY TicksAssumption
<1>2. \A a, b \in Nat : a <= b => a \div T \in Nat /\ a \div T <= b \div T
  BY <1>1, DivMonotonic
<1>3. ASSUME NEW d \in Nat, NEW r \in Nat
      PROVE  /\ d >= r => d - r \in Nat /\ Remaining(d, r) = (d - r) \div T
                          /\ Remaining(d, r) \in Nat
             /\ d < r => r - d \in Nat /\ Remaining(d, r) = -((r - d) \div T)
                         /\ (r - d) \div T \in Nat
  <2>1. CASE d >= r
    <3>1. d - r \in Nat
      BY <2>1
    <3>2. (d - r) \div T \in Nat
      BY <1>2, <3>1
    <3>. QED BY <2>1, <3>1, <3>2 DEF Remaining
  <2>2. CASE d < r
    <3>1. r - d \in Nat
      BY <2>2
    <3>2. (r - d) \div T \in Nat
      BY <1>2, <3>1
    <3>. QED BY <2>2, <3>1, <3>2 DEF Remaining
  <2>. QED BY <2>1, <2>2
<1>4. 0 \div T = 0
  BY <1>1
<1>5. due <= t => Remaining(due, t) <= 0
  <2>1. CASE due = t
    <3>1. Remaining(due, t) = (due - t) \div T /\ due - t = 0
      BY <1>3, <2>1
    <3>. QED BY <1>4, <3>1
  <2>2. CASE due < t
    BY <1>3, <2>2
  <2>. QED BY <2>1, <2>2
<1>6. Remaining(due, t) <= Remaining(later, u)
  <2>1. CASE due >= t
    <3>1. later >= u /\ due - t <= later - u
      BY <2>1
    <3>2. (due - t) \div T <= (later - u) \div T
      BY <1>2, <1>3, <2>1, <3>1
    <3>. QED BY <1>3, <2>1, <3>1, <3>2
  <2>2. CASE due < t /\ later >= u
    BY <1>3, <2>2
  <2>3. CASE due < t /\ later < u
    <3>1. u - later <= t - due
      OBVIOUS
    <3>2. (u - later) \div T <= (t - due) \div T
      BY <1>2, <1>3, <2>3, <3>1
    <3>. QED BY <1>3, <2>3, <3>2
  <2>. QED BY <2>1, <2>2, <2>3
<1>. QED BY <1>3, <1>5, <1>6

\* A job that is due within a window, to the tick, is in it to the second.
LEMMA RemainingInWindow ==
  ASSUME NEW due \in Nat, NEW t \in Nat, NEW w \in Int,
         due - t <= w * TicksPerSecond, Remaining(due, t) > 0
  PROVE  Remaining(due, t) <= w
<1> DEFINE T == TicksPerSecond
           m == (due - t) \div T
<1>1. T \in Nat \ {0}
  BY TicksAssumption
<1>2. due >= t
  BY RemainingFalls
<1>3. Remaining(due, t) = m /\ due - t \in Nat
  BY <1>2 DEF Remaining
<1>4. m \in Int /\ T * m <= due - t
  BY <1>1, <1>3
<1>. HIDE DEF m, T
<1>5. SUFFICES ASSUME w + 1 <= m PROVE FALSE
  BY <1>3, <1>4
<1>6. T * (w + 1) <= T * m
  BY <1>1, <1>4, <1>5
<1>7. T * (w + 1) = w * T + T
  BY <1>1
<1>. QED BY <1>1, <1>3, <1>4, <1>6, <1>7 DEF T

-----------------------------------------------------------------------------
(* What a sane policy asks for.                                            *)

\* A policy in force is one of Policies, with finitely many rules.
PolicyOK == policy \in SchedulingPolicies /\ IsFiniteSet(policy.escalations)

\* To a job in a window, or overdue, it gives at least the window's priority.
LEMMA SaneAsks ==
  ASSUME PolicyOK, Sane, NEW due \in Nat, NEW t \in Nat, NEW e \in policy.escalations,
         Remaining(due, t) <= e.within \/ Remaining(due, t) <= 0
  PROVE  \E v \in TargetPriority(policy, due, t) : v \in Int /\ v >= e.priority
<1> DEFINE left == Remaining(due, t)
<1>1. left \in Int
  BY RemainingFalls
<1>2. /\ \A f \in policy.escalations : f.within \in Int /\ f.priority \in Int
      /\ policy.overdue \in Int
  BY RecordAssumption DEF PolicyOK, SchedulingPolicies, Escalation, Sane
<1>3. CASE left <= 0
  <2>1. TargetPriority(policy, due, t) = {policy.overdue}
    BY <1>3 DEF TargetPriority, Sane
  <2>. QED BY <1>2, <2>1 DEF Sane
<1>4. CASE left > 0
  <2>1. left <= e.within
    BY <1>1, <1>4
  <2>2. PICK f \in FirstRule(policy, left) : f = e \/ Precedes(f, e)
    BY <1>1, <2>1, FirstRuleFound DEF PolicyOK
  <2>3. f \in policy.escalations
    BY DEF FirstRule
  <2>4. f.priority >= e.priority
    BY <1>2, <2>2, <2>3 DEF Precedes, Sane, SaneWindows
  <2>5. f.priority \in TargetPriority(policy, due, t)
    BY <1>1, <1>4, <2>2 DEF TargetPriority
  <2>. QED BY <1>2, <2>3, <2>4, <2>5
<1>. QED BY <1>1, <1>3, <1>4

\* The less time is left, the more it asks.
LEMMA SaneAsksMore ==
  ASSUME PolicyOK, Sane, NEW due \in Nat, NEW t \in Nat, NEW later \in Nat, NEW u \in Nat,
         due - t <= later - u, NEW v \in TargetPriority(policy, later, u)
  PROVE  v \in Int /\ \E w \in TargetPriority(policy, due, t) : w \in Int /\ w >= v
<1>1. /\ Remaining(due, t) \in Int /\ Remaining(later, u) \in Int
      /\ Remaining(due, t) <= Remaining(later, u)
  BY RemainingFalls
<1>2. /\ \A f \in policy.escalations : f.within \in Int /\ f.priority \in Int
      /\ policy.overdue \in Int
  BY RecordAssumption DEF PolicyOK, SchedulingPolicies, Escalation, Sane
<1>3. CASE Remaining(later, u) <= 0
  <2>1. TargetPriority(policy, due, t) = {policy.overdue} /\ v = policy.overdue
    BY <1>1, <1>3 DEF TargetPriority, Sane
  <2>. QED BY <1>2, <2>1
<1>4. CASE Remaining(later, u) > 0
  <2>1. PICK e \in FirstRule(policy, Remaining(later, u)) : v = e.priority
    BY <1>1, <1>4 DEF TargetPriority
  <2>2. e \in policy.escalations /\ Remaining(later, u) <= e.within
    BY DEF FirstRule
  <2>3. Remaining(due, t) <= e.within
    BY <1>1, <1>2, <2>2
  <2>4. \E w \in TargetPriority(policy, due, t) : w \in Int /\ w >= e.priority
    BY <2>2, <2>3, SaneAsks
  <2>. QED BY <1>2, <2>1, <2>2, <2>4
<1>. QED BY <1>1, <1>3, <1>4

-----------------------------------------------------------------------------
(* What rebalancing does to the priorities.                                *)

Asked(j, t) == TargetPriority(policy, jobs[j].due, t)

\* Only priorities have been raised, to what was asked for at some time; and
\* to what is asked for now, if the policy has just been applied.
RaisedOnly(j) ==
  /\ jobs[j].state = base[j].state /\ jobs[j].due = base[j].due
  /\ jobs[j].priority >= base[j].priority
  /\ \/ jobs[j].priority = base[j].priority
     \/ Outstanding(j) /\ \E t \in 0 .. now : jobs[j].priority \in Asked(j, t)
  /\ JustApplied /\ Outstanding(j) => \A v \in Asked(j, now) : jobs[j].priority >= v

HInv ==
  /\ RInv
  /\ PolicyOK
  /\ base \in [JobId -> JobRecord]
  /\ applied \in 0 .. now \cup {None}
  /\ \A j \in JobId : RaisedOnly(j)

LEMMA InitHInv == Init => HInv
<1>. SUFFICES ASSUME Init PROVE HInv
  OBVIOUS
<1>1. RInv
  BY InitRInv
<1>2. PolicyOK
  BY RebalanceAssumption DEF Init, PolicyOK
<1>3. base \in [JobId -> JobRecord] /\ jobs = base
  BY RebalanceAssumption DEF Init
<1>4. ~JustApplied
  BY RecordAssumption DEF Init, JustApplied
<1>5. ASSUME NEW j \in JobId PROVE RaisedOnly(j)
  <2>1. base[j].priority \in Int
    BY <1>3, RecordAssumption DEF JobRecord
  <2>2. jobs[j] = base[j] /\ base[j].priority >= base[j].priority
    BY <1>3, <2>1
  <2>. QED BY <1>4, <2>2 DEF RaisedOnly
<1>. QED BY <1>1, <1>2, <1>3, <1>5 DEF Init, HInv

\* Time passing makes what was asked for a thing of the past.
LEMMA WaitRaises ==
  ASSUME HInv, Wait
  PROVE  HInv'
<1>1. RInv'
  BY NextRInv DEF HInv, Next
<1>2. now \in Nat /\ now' = now + 1 /\ UNCHANGED <<policy, base, jobs, applied>>
  BY DEF Wait, HInv, RInv, TableOK
<1>3. ~JustApplied' /\ (applied \in 0 .. now \cup {None})'
  BY <1>2, RecordAssumption DEF HInv, JustApplied
<1>4. ASSUME NEW j \in JobId PROVE RaisedOnly(j)'
  <2>1. RaisedOnly(j)
    BY DEF HInv
  <2>2. 0 .. now \subseteq 0 .. now'
    BY <1>2
  <2>. QED BY <1>2, <1>3, <2>1, <2>2 DEF RaisedOnly, Outstanding, Asked
<1>. QED BY <1>1, <1>2, <1>3, <1>4 DEF HInv, PolicyOK

\* A rebalancing raises the priorities to what is asked for now.
LEMMA ApplyRaises ==
  ASSUME HInv, Apply
  PROVE  HInv'
<1>1. RInv'
  BY NextRInv DEF HInv, Next
<1>2. /\ now \in Nat /\ UNCHANGED <<now, policy, base>>
      /\ jobs' = Rebalanced /\ applied' = now
  BY DEF Apply, HInv, RInv, TableOK
<1>3. ASSUME NEW j \in JobId PROVE RaisedOnly(j)'
  <2> DEFINE asked == EscalatedPriority(policy, jobs[j], now)
  <2>1. RaisedOnly(j) /\ jobs[j] \in JobRecord /\ base[j] \in JobRecord
    BY DEF HInv, RInv, TableOK
  <2>2. jobs'[j] = IF asked = {} THEN jobs[j]
                   ELSE [jobs[j] EXCEPT !.priority = CHOOSE p \in asked : TRUE, !.updated = now]
    BY <1>2 DEF Rebalanced
  <2>3. jobs[j].priority \in Int /\ base[j].priority \in Int
    BY <2>1, RecordAssumption DEF JobRecord
  <2>4. \A v \in Asked(j, now) : v \in Int /\ \A w \in Asked(j, now) : v = w
    <3>1. \A v, w \in Asked(j, now) : v = w
      BY TargetUnique DEF Asked, HInv, PolicyOK
    <3>2. Asked(j, now) \subseteq Int
      BY RecordAssumption, TargetPriorities DEF Asked, HInv, RInv, TableOK
    <3>. QED BY <3>1, <3>2
  <2>5. CASE asked = {}
    <3>1. jobs'[j] = jobs[j]
      BY <2>2, <2>5
    <3>2. Outstanding(j) => \A v \in Asked(j, now) : jobs[j].priority >= v
      BY <2>3, <2>4, <2>5 DEF EscalatedPriority, Outstanding, Asked
    <3>. QED
      BY <1>2, <2>1, <3>1, <3>2 DEF RaisedOnly, Outstanding, Asked
  <2>6. CASE asked # {}
    <3>1. PICK v \in asked : jobs'[j] = [jobs[j] EXCEPT !.priority = v, !.updated = now]
      BY <2>2, <2>6
    <3>2. Outstanding(j) /\ v \in Asked(j, now) /\ v > jobs[j].priority
      BY DEF EscalatedPriority, Outstanding, Asked
    <3>3. /\ jobs'[j].priority = v
          /\ jobs'[j].state = jobs[j].state /\ jobs'[j].due = jobs[j].due
      BY <2>1, <3>1 DEF JobRecord
    <3>4. Asked(j, now)' = Asked(j, now) /\ Outstanding(j)' /\ now \in 0 .. now
      BY <1>2, <3>2, <3>3 DEF Asked, Outstanding
    <3>5. \E t \in 0 .. now' : jobs'[j].priority \in Asked(j, t)'
      BY <1>2, <3>2, <3>3, <3>4 DEF Asked
    <3>. HIDE DEF asked
    <3>. QED
      BY <1>2, <2>1, <2>3, <2>4, <3>2, <3>3, <3>4, <3>5 DEF RaisedOnly
  <2>. QED BY <2>5, <2>6
<1>. QED BY <1>1, <1>2, <1>3 DEF HInv, PolicyOK

LEMMA NextHInv == HInv /\ [Next]_vars => HInv'
<1>. SUFFICES ASSUME HInv, [Next]_vars PROVE HInv'
  OBVIOUS
<1>1. ASSUME UNCHANGED <<policy, base, jobs, now, applied>>
      PROVE  HInv'
  <2>1. RInv'
    BY NextRInv DEF HInv
  <2>. QED
    BY <1>1, <2>1 DEF HInv, PolicyOK, RaisedOnly, JustApplied, Outstanding, Asked
<1>2. ASSUME NEW j \in JobId, Skip(j) \/ Consider(j) PROVE HInv'
  BY <1>1, <1>2 DEF Skip, Consider
<1>3. CASE UNCHANGED vars
  BY <1>1, <1>3 DEF vars
<1>. QED BY <1>2, <1>3, WaitRaises, ApplyRaises DEF Next

\* The due time of an outstanding job is a time.
LEMMA OutstandingDue ==
  ASSUME HInv, NEW j \in JobId, jobs[j].due # None
  PROVE  jobs[j].due \in Nat /\ now \in Nat /\ jobs[j].priority \in Int
BY DueTimesNat, RecordAssumption DEF HInv, RInv, TableOK, JobRecord

\* Rebalancing under a sane policy honours every window, to the tick, although
\* the code rounds the time left to whole seconds.
THEOREM RebalancingHonoursWindows == Spec => []WindowsHonoured
<1>1. ASSUME HInv, JustApplied, Sane, NEW j \in JobId, NEW e \in policy.escalations,
             Outstanding(j), Left(j) <= e.within * TicksPerSecond
      PROVE  jobs[j].priority >= e.priority
  <2>1. jobs[j].due \in Nat /\ now \in Nat /\ jobs[j].priority \in Int
    BY <1>1, OutstandingDue DEF Outstanding
  <2>2. e.within \in Int /\ e.priority \in Int
    BY <1>1, RecordAssumption DEF HInv, PolicyOK, SchedulingPolicies, Escalation
  <2>3. Remaining(jobs[j].due, now) \in Int
    BY <2>1, RemainingFalls
  <2>4. Remaining(jobs[j].due, now) > 0 => Remaining(jobs[j].due, now) <= e.within
    BY <1>1, <2>1, <2>2, RemainingInWindow DEF Left
  <2>5. PICK v \in Asked(j, now) : v \in Int /\ v >= e.priority
    BY <1>1, <2>1, <2>3, <2>4, SaneAsks DEF HInv, Asked
  <2>6. jobs[j].priority >= v
    BY <1>1 DEF HInv, RaisedOnly
  <2>. QED BY <2>1, <2>2, <2>5, <2>6
<1>2. HInv => WindowsHonoured
  BY <1>1 DEF WindowsHonoured
<1>. QED BY InitHInv, NextHInv, <1>2, PTL DEF Spec

\* A policy with no overdue priority falls back to its last rule, so an overdue
\* job is not forgotten.
THEOREM RebalancingBoostsOverdue == Spec => []OverdueBoosted
<1>1. ASSUME HInv, JustApplied, policy.overdue = None, policy.escalateOverdue,
             NEW j \in JobId, Outstanding(j), Left(j) <= 0, policy.escalations # {}
      PROVE  \E e \in policy.escalations : jobs[j].priority >= e.priority
  <2>1. jobs[j].due \in Nat /\ now \in Nat /\ jobs[j].due <= now
    BY <1>1, OutstandingDue DEF Outstanding, Left
  <2>2. Remaining(jobs[j].due, now) \in Int /\ Remaining(jobs[j].due, now) <= 0
    BY <2>1, RemainingFalls
  <2>3. PICK e \in LastRule(policy) : TRUE
    BY <1>1, LastRuleFound DEF HInv, PolicyOK
  <2>4. e \in policy.escalations /\ e.priority \in Asked(j, now)
    BY <1>1, <2>2 DEF LastRule, Asked, TargetPriority
  <2>. QED BY <1>1, <2>4 DEF HInv, RaisedOnly
<1>2. HInv => OverdueBoosted
  BY <1>1 DEF OverdueBoosted
<1>. QED BY InitHInv, NextHInv, <1>2, PTL DEF Spec

\* Under a sane policy, applying it more than once comes to the same as applying
\* it now.
THEOREM RebalancingForgetsHistory == Spec => []HistoryForgotten
<1>1. ASSUME HInv, JustApplied, Sane, NEW j \in JobId, Outstanding(j)
      PROVE  /\ jobs[j].priority \in Asked(j, now) \cup {base[j].priority}
             /\ \A p \in Asked(j, now) \cup {base[j].priority} : jobs[j].priority >= p
  <2>1. jobs[j].due \in Nat /\ now \in Nat /\ jobs[j].priority \in Int
    BY <1>1, OutstandingDue DEF Outstanding
  <2>2. /\ \A v \in Asked(j, now) : jobs[j].priority >= v
        /\ jobs[j].priority >= base[j].priority
    BY <1>1 DEF HInv, RaisedOnly
  <2>3. CASE jobs[j].priority = base[j].priority
    BY <2>2, <2>3
  <2>4. CASE jobs[j].priority # base[j].priority
    <3>1. PICK t \in 0 .. now : jobs[j].priority \in Asked(j, t)
      BY <1>1, <2>4 DEF HInv, RaisedOnly
    <3>2. t \in Nat /\ jobs[j].due - now <= jobs[j].due - t
      BY <2>1
    <3>3. PICK w \in Asked(j, now) : w \in Int /\ w >= jobs[j].priority
      BY <1>1, <2>1, <3>1, <3>2, SaneAsksMore DEF HInv, Asked
    <3>4. w = jobs[j].priority
      BY <2>1, <2>2, <3>3
    <3>. QED BY <2>2, <3>4
  <2>. QED BY <2>3, <2>4
<1>2. HInv => HistoryForgotten
  BY <1>1 DEF HistoryForgotten, Asked
<1>. QED BY InitHInv, NextHInv, <1>2, PTL DEF Spec

\* Among jobs submitted with equal priorities a sane policy makes claiming
\* earliest-due-first.
THEOREM RebalancingOrdersByDue == Spec => []EarliestDueFirst
<1>1. ASSUME HInv, JustApplied, Sane, EqualBases, seen = JobId, candidate # None,
             NEW j \in Submitted(JobId), jobs[j].due # None,
             ~(jobs[candidate].due # None /\ jobs[candidate].due <= jobs[j].due)
      PROVE  FALSE
  <2> DEFINE c == candidate
  <2>1. /\ j \in JobId /\ c \in JobId /\ c # j
        /\ jobs[j].state = "Submitted" /\ jobs[c].state = "Submitted"
        /\ jobs[j].due \in Nat /\ now \in Nat
        /\ jobs[j].priority \in Int /\ jobs[c].priority \in Int
    <3>1. j \in JobId /\ c \in Submitted(JobId) /\ jobs[j].due \in Nat /\ now \in Nat
      BY <1>1, OutstandingDue DEF Submitted, HInv, RInv, TableOK
    <3>2. c # j
      BY <1>1, <3>1, RecordAssumption
    <3>. QED
      BY <3>1, <3>2, <1>1, RecordAssumption DEF Submitted, HInv, RInv, TableOK, JobRecord
  <2>2. better_candidate(jobs[c], jobs[j])
    <3>1. jobs[j] # jobs[c]
      <4>1. \A k \in JobId : jobs[k].id = k
        BY <1>1 DEF HInv, RInv, TableOK
      <4>. QED BY <2>1, <4>1
    <3>2. IsBest(jobs[c], {jobs[k] : k \in Submitted(JobId)})
      BY <1>1 DEF HInv, RInv, ScanFindsBest
    <3>. QED BY <1>1, <3>1, <3>2 DEF IsBest
  <2>3. jobs[c].due = None \/ jobs[c].due \in Nat
    <3>1. jobs[c] \in JobRecord
      BY <1>1, <2>1 DEF HInv, RInv, TableOK
    <3>. QED BY <3>1, DueTimesNat
  <2>4. jobs[c].priority > jobs[j].priority
    BY <1>1, <2>1, <2>2, <2>3, RecordAssumption DEF better_candidate, due_precedes
  <2>5. /\ base[c].priority = base[j].priority /\ base[j].priority \in Int
        /\ jobs[j].priority >= base[j].priority
    BY <1>1, <2>1, RecordAssumption DEF EqualBases, HInv, RaisedOnly, JobRecord
  <2>6. jobs[c].priority # base[c].priority
    BY <2>1, <2>4, <2>5
  <2>7. PICK t \in 0 .. now : jobs[c].priority \in Asked(c, t)
    BY <1>1, <2>1, <2>6 DEF HInv, RaisedOnly
  <2>8. Outstanding(c) /\ jobs[c].due \in Nat /\ jobs[c].due > jobs[j].due
    BY <1>1, <2>1, <2>3, <2>6 DEF HInv, RaisedOnly, Outstanding
  <2>9. t \in Nat /\ jobs[j].due - now <= jobs[c].due - t
    BY <2>1, <2>8
  <2>10. PICK w \in Asked(j, now) : w \in Int /\ w >= jobs[c].priority
    BY <1>1, <2>1, <2>7, <2>8, <2>9, SaneAsksMore DEF HInv, Asked
  <2>11. jobs[j].priority >= w
    BY <1>1, <2>1 DEF HInv, RaisedOnly, Outstanding
  <2>. QED BY <2>1, <2>4, <2>10, <2>11
<1>2. HInv => EarliestDueFirst
  BY <1>1 DEF EarliestDueFirst
<1>. QED BY InitHInv, NextHInv, <1>2, PTL DEF Spec
=============================================================================
