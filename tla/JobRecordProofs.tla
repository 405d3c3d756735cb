---------------------------- MODULE JobRecordProofs ----------------------------
(***************************************************************************)
(* The order in which jobs are handed out is a strict total order on       *)
(* records with distinct ids, so that a scan that keeps the better of two  *)
(* records, one after another, ends with the best of all of them.          *)
(***************************************************************************)
EXTENDS JobRecord, TLAPS

\* What due_precedes compares.
LEMMA DueTimesNat ==
  ASSUME NEW r \in JobRecord
  PROVE  r.due = None \/ r.due \in Nat
BY RecordAssumption DEF JobRecord

\* better_candidate is transitive.
LEMMA BetterTransitive ==
  ASSUME NEW r \in JobRecord, NEW s \in JobRecord, NEW t \in JobRecord,
         better_candidate(r, s), better_candidate(s, t)
  PROVE  better_candidate(r, t)
<1>1. /\ r.priority \in Int /\ s.priority \in Int /\ t.priority \in Int
      /\ r.created \in Nat /\ s.created \in Nat /\ t.created \in Nat
      /\ r.id \in Nat /\ s.id \in Nat /\ t.id \in Nat
  BY RecordAssumption DEF JobRecord
<1>2. None \notin Nat
  BY RecordAssumption
<1>. QED
  BY <1>1, <1>2, DueTimesNat DEF better_candidate, due_precedes

\* Of two records with different ids one is better.
LEMMA BetterTotal ==
  ASSUME NEW r \in JobRecord, NEW s \in JobRecord, r.id # s.id
  PROVE  better_candidate(r, s) \/ better_candidate(s, r)
<1>1. /\ r.priority \in Int /\ s.priority \in Int
      /\ r.created \in Nat /\ s.created \in Nat
      /\ r.id \in Nat /\ s.id \in Nat
  BY RecordAssumption DEF JobRecord
<1>2. None \notin Nat
  BY RecordAssumption
<1>. QED
  BY <1>1, <1>2, DueTimesNat DEF better_candidate, due_precedes

\* The best of some records stays the best when one comes that it beats, and
\* gives way to one that beats it.
LEMMA BestOfMore ==
  ASSUME NEW S \in SUBSET JobRecord, NEW r, IsBest(r, S), NEW s \in JobRecord,
         \A t \in S : t.id # s.id
  PROVE  IsBest(IF better_candidate(s, r) THEN s ELSE r, S \cup {s})
<1>1. r \in S /\ r \in JobRecord /\ \A t \in S \ {r} : better_candidate(r, t)
  BY DEF IsBest
<1>2. CASE better_candidate(s, r)
  <2>1. \A t \in S : better_candidate(s, t)
    BY <1>1, <1>2, BetterTransitive
  <2>2. QED BY <1>2, <2>1 DEF IsBest
<1>3. CASE ~better_candidate(s, r)
  <2>1. better_candidate(r, s)
    BY <1>1, <1>3, BetterTotal
  <2>2. QED BY <1>1, <1>3, <2>1 DEF IsBest
<1>4. QED BY <1>2, <1>3
=============================================================================
