----------------------------- MODULE SnapsProofs ------------------------------
(* The queue of snaps keeps what has not expired, and a connection that    *)
(* asked is sent every snap of its user, once and in order: the four       *)
(* invariants of Snaps, for any connections, users, times and bounds.      *)
EXTENDS Snaps, FiniteSetTheorems, SequenceTheorems, WellFoundedInduction, TLAPS

-----------------------------------------------------------------------------
(* The inductive invariant.                                                *)

(* Of the queue q: its snaps were made and have a text, the older ones     *)
(* first; a snap that has time left is in it; a snap that is no longer in  *)
(* it has no text, unless it left in front of all that are.                *)
Queue(q, text, unused, expires, time) ==
    /\ \A k \in 1 .. Len(q) : q[k] # NoSnap => q[k] < unused /\ text[q[k]]
    /\ \A j, k \in 1 .. Len(q) : j < k /\ q[j] # NoSnap /\ q[k] # NoSnap => q[j] < q[k]
    /\ \A id \in SnapIds : id >= unused => expires[id] = 0 /\ ~text[id]
    /\ \A id \in SnapIds : expires[id] > time => \E k \in 1 .. Len(q) : q[k] = id
    /\ \A id \in SnapIds : text[id] =>
          \/ \E k \in 1 .. Len(q) : q[k] = id
          \/ \A k \in 1 .. Len(q) : q[k] # NoSnap => q[k] > id

(* What a connection was sent is in order, and below the number that says  *)
(* which snaps it has.                                                     *)
Below(latest, got) ==
    /\ \A i \in 1 .. Len(got) : got[i] < latest
    /\ \A i, j \in 1 .. Len(got) : i < j => got[i] < got[j]

Numbered ==
    \A c \in Clients : latest_snapid[c] <= next_snapid /\ Below(latest_snapid[c], sent[c])

(* A connection that asked is registered, counts snaps and has them.       *)
Asked ==
    \A c \in Clients : asked[c] =>
        /\ c \in chatclients
        /\ latest_snapid[c] >= 0
        /\ \A k \in 1 .. Len(snaps) : snaps[k] # NoSnap /\ to_userid[snaps[k]] = logged_in_user[c] =>
              Contains(sent[c], snaps[k])

(* A snap has a sender and a receiver.                                     *)
Known ==
    \A id \in SnapIds : id < next_snapid => to_userid[id] \in Users /\ from_userid[id] \in Users

IndInv ==
    /\ TypeOK
    /\ Queue(snaps, has_text, next_snapid, dateexpired, now)
    /\ Numbered
    /\ Asked
    /\ Known

-----------------------------------------------------------------------------
(* Selected returns the elements that are in the set, all of them, in the  *)
(* order of the sequence: the rank of a place is a bijection.              *)
Picks(p, s, S) ==
    /\ \A k \in 1 .. Len(s) : s[k] \in S => \E i \in 1 .. Len(p) : p[i] = s[k]
    /\ \A i \in 1 .. Len(p) : \E k \in 1 .. Len(s) : p[i] = s[k] /\ s[k] \in S
    /\ \A i, j \in 1 .. Len(p) : i < j =>
          \E k, l \in 1 .. Len(s) :
             k < l /\ p[i] = s[k] /\ p[j] = s[l] /\ s[k] \in S /\ s[l] \in S

LEMMA SelectedFacts ==
    ASSUME NEW T, NEW s \in Seq(T), NEW S, NEW p, p = Selected(s, S)
    PROVE  p \in Seq(T) /\ Picks(p, s, S)
<1>. DEFINE places == {k \in 1 .. Len(s) : s[k] \in S}
            n == Cardinality(places)
            Before(k) == {j \in places : j <= k}
            rank == [k \in places |-> Cardinality(Before(k))]
<1>1. IsFiniteSet(places) /\ n \in Nat
  <2>1. Len(s) \in Nat
    OBVIOUS
  <2>2. IsFiniteSet(1 .. Len(s))
    BY <2>1, FS_Interval
  <2>3. places \in SUBSET (1 .. Len(s))
    OBVIOUS
  <2>. QED
    BY <2>2, <2>3, FS_Subset, FS_CardinalityType
<1>2. \A k \in places : /\ IsFiniteSet(Before(k))
                        /\ Cardinality(Before(k)) \in 1 .. n
  <2>. SUFFICES ASSUME NEW k \in places
                PROVE  IsFiniteSet(Before(k)) /\ Cardinality(Before(k)) \in 1 .. n
    OBVIOUS
  <2>1. Before(k) \in SUBSET places
    OBVIOUS
  <2>2. IsFiniteSet(Before(k)) /\ Cardinality(Before(k)) <= n
    BY <1>1, <2>1, FS_Subset
  <2>3. Cardinality(Before(k)) \in Nat
    BY <2>2, FS_CardinalityType
  <2>4. k \in Before(k)
    OBVIOUS
  <2>5. Cardinality(Before(k)) # 0
    BY <2>2, <2>4, FS_EmptySet
  <2>. HIDE DEF Before, places, n
  <2>. QED
    BY <1>1, <2>2, <2>3, <2>5
<1>3. \A j, k \in places : j < k => rank[j] < rank[k]
  <2>. SUFFICES ASSUME NEW j \in places, NEW k \in places, j < k
                PROVE  Cardinality(Before(j)) < Cardinality(Before(k))
    OBVIOUS
  <2>1. Before(j) \in SUBSET Before(k) /\ Before(j) # Before(k)
    <3>1. k \in Before(k) /\ k \notin Before(j)
      OBVIOUS
    <3>. QED
      BY <3>1
  <2>2. Cardinality(Before(j)) <= Cardinality(Before(k)) /\ Cardinality(Before(j)) # Cardinality(Before(k))
    <3>. HIDE DEF Before
    <3>. QED
      BY <1>2, <2>1, FS_Subset
  <2>3. Cardinality(Before(j)) \in Int /\ Cardinality(Before(k)) \in Int
    <3>. HIDE DEF Before, n
    <3>. QED
      BY <1>2
  <2>. HIDE DEF Before
  <2>. QED
    BY <2>2, <2>3
<1>4. \A i \in 1 .. n : \E k \in places : rank[k] = i
  <2>1. rank \in [places -> 1 .. n]
    BY <1>2
  <2>2. \A j, k \in places : rank[j] = rank[k] => j = k
    <3>1. \A k \in places : rank[k] \in Int
      <4>. HIDE DEF places, rank, n
      <4>. QED
        BY <1>1, <2>1
    <3>2. \A k \in places : k \in Int
      OBVIOUS
    <3>. HIDE DEF places, rank
    <3>. QED
      BY <1>3, <3>1, <3>2
  <2>3. rank \in Injection(places, 1 .. n)
    <3>. HIDE DEF places, rank, n
    <3>. QED
      BY <2>1, <2>2 DEF Injection, IsInjective
  <2>4. IsFiniteSet(1 .. n) /\ Cardinality(1 .. n) = n
    <3>. HIDE DEF places, n
    <3>. QED
      BY <1>1, FS_Interval
  <2>5. rank \in Surjection(places, 1 .. n)
    <3>. HIDE DEF rank
    <3>. QED
      BY <2>3, <2>4, FS_Injection
  <2>. HIDE DEF places, rank, n
  <2>. QED
    BY <2>5 DEF Surjection
<1>. DEFINE at == [i \in 1 .. n |-> CHOOSE k \in places : Cardinality(Before(k)) = i]
<1>5. \A i \in 1 .. n : at[i] \in places /\ rank[at[i]] = i
  <2>1. \A k \in places : rank[k] = Cardinality(Before(k))
    OBVIOUS
  <2>. HIDE DEF places, rank, n, Before
  <2>. QED
    BY <1>4, <2>1
<1>6. Selected(s, S) = [i \in 1 .. n |-> s[at[i]]]
  BY DEF Selected
<1>7. \A k \in places : k \in 1 .. Len(s) /\ s[k] \in S /\ s[k] \in T
  OBVIOUS
<1>8. \A k \in places : rank[k] \in 1 .. n
  BY <1>2
<1>9. \A j, k \in places : j \in Int /\ (rank[j] < rank[k] => j < k)
  <2>1. \A k \in places : k \in Int
    OBVIOUS
  <2>. HIDE DEF places, rank, n
  <2>. QED
    BY <1>1, <1>3, <1>8, <2>1
<1>. HIDE DEF places, rank, n, at
<1>10. Selected(s, S) \in Seq(T) /\ Len(Selected(s, S)) = n
  <2>1. \A i \in 1 .. n : s[at[i]] \in T
    BY <1>5, <1>7
  <2>. QED
    BY <1>1, <1>6, <2>1
<1>11. \A k \in 1 .. Len(s) : s[k] \in S => \E i \in 1 .. n : s[at[i]] = s[k]
  <2>. SUFFICES ASSUME NEW k \in 1 .. Len(s), s[k] \in S
                PROVE  \E i \in 1 .. n : s[at[i]] = s[k]
    OBVIOUS
  <2>1. k \in places
    BY DEF places
  <2>2. rank[k] \in 1 .. n /\ at[rank[k]] \in places /\ rank[at[rank[k]]] = rank[k]
    BY <1>5, <1>8, <2>1
  <2>3. at[rank[k]] = k
    <3>1. ~(at[rank[k]] < k) /\ ~(k < at[rank[k]])
      <4>1. rank[k] \in Int /\ ~(rank[k] < rank[k])
        <5>1. rank[k] \in Int
          BY <1>1, <2>2
        <5>. QED
          BY <5>1
      <4>2. ~(rank[at[rank[k]]] < rank[k]) /\ ~(rank[k] < rank[at[rank[k]]])
        BY <2>2, <4>1
      <4>. QED
        BY <1>3, <2>1, <2>2, <4>2
    <3>2. k \in Int /\ at[rank[k]] \in Int
      BY <1>9, <2>1, <2>2
    <3>. QED
      BY <3>1, <3>2
  <2>. QED
    BY <2>2, <2>3
<1>12. \A i, j \in 1 .. n : i < j => at[i] < at[j]
  <2>. SUFFICES ASSUME NEW i \in 1 .. n, NEW j \in 1 .. n, i < j
                PROVE  at[i] < at[j]
    OBVIOUS
  <2>. QED
    BY <1>5, <1>9
<1>13. \A i \in 1 .. n : Selected(s, S)[i] = s[at[i]]
  BY <1>6
<1>14. \A i \in 1 .. Len(p) : \E k \in 1 .. Len(s) : p[i] = s[k] /\ s[k] \in S
  BY <1>5, <1>7, <1>10, <1>13
<1>15. \A i, j \in 1 .. Len(p) : i < j =>
          \E k, l \in 1 .. Len(s) :
             k < l /\ p[i] = s[k] /\ p[j] = s[l] /\ s[k] \in S /\ s[l] \in S
  BY <1>5, <1>7, <1>10, <1>12, <1>13
<1>16. \A k \in 1 .. Len(s) : s[k] \in S => \E i \in 1 .. Len(p) : p[i] = s[k]
  BY <1>10, <1>11, <1>13
<1>. QED
  BY <1>10, <1>14, <1>15, <1>16 DEF Picks

-----------------------------------------------------------------------------
(* snap::delete_old_snaps.                                                 *)

LEMMA Least ==
    ASSUME NEW T, T \subseteq Nat, T # {}
    PROVE  \E m \in T : \A k \in T : m <= k
<1>1. PICK x \in T : \A y \in T : ~ (<<y, x>> \in OpToRel(<, Nat))
  BY NatLessThanWellFounded, WFMin
<1>2. ASSUME NEW y \in T PROVE ~(y < x)
  <2>1. ~ (<<y, x>> \in OpToRel(<, Nat))
    BY <1>1
  <2>2. y < x => <<y, x>> \in OpToRel(<, Nat)
    BY DEF OpToRel
  <2>. QED
    BY <2>1, <2>2
<1>. QED
  BY <1>2

(* What the first loop leaves is an end of the queue, and nothing it       *)
(* removes has time left.                                                  *)
LEMMA PoppedFacts ==
    ASSUME TypeOK
    PROVE  /\ PopExpired \in Seq(Ids)
           /\ \E gone \in 0 .. Len(snaps) :
                 /\ Len(PopExpired) = Len(snaps) - gone
                 /\ \A k \in 1 .. Len(PopExpired) : PopExpired[k] = snaps[gone + k]
                 /\ \A k \in 1 .. gone : snaps[k] # NoSnap => ~(dateexpired[snaps[k]] > now)
<1>. DEFINE I == {i \in 1 .. Len(snaps) : snaps[i] # NoSnap /\ dateexpired[snaps[i]] > now}
            first == Min(I)
<1>0. snaps \in Seq(Ids)
  BY DEF TypeOK
<1>1. PopExpired = LET f == IF I # {} THEN first ELSE 0
                   IN  IF f = 0 THEN << >> ELSE SubSeq(snaps, f, Len(snaps))
  BY DEF PopExpired, SelectInSeq
<1>2. CASE I = {}
  <2>1. PopExpired = << >>
    BY <1>1, <1>2
  <2>2. \A k \in 1 .. Len(snaps) : snaps[k] # NoSnap => ~(dateexpired[snaps[k]] > now)
    BY <1>2
  <2>3. Len(snaps) \in 0 .. Len(snaps) /\ Len(PopExpired) = Len(snaps) - Len(snaps)
    BY <1>0, <2>1
  <2>4. PopExpired \in Seq(Ids) /\ \A k \in 1 .. Len(PopExpired) : PopExpired[k] = snaps[Len(snaps) + k]
    BY <2>1
  <2>. QED
    BY <2>2, <2>3, <2>4
<1>3. CASE I # {}
  <2>1. I \in SUBSET Nat
    BY <1>0
  <2>2. \E i \in I : \A j \in I : i <= j
    <3>. HIDE DEF I
    <3>. QED
      BY <1>3, <2>1, Least
  <2>3. first \in I /\ \A i \in I : first <= i
    <3>. HIDE DEF I
    <3>. QED
      BY <2>2 DEF Min
  <2>4. first \in 1 .. Len(snaps)
    BY <2>3
  <2>5. PopExpired = SubSeq(snaps, first, Len(snaps))
    <3>. HIDE DEF I, first
    <3>. QED
      BY <1>0, <1>1, <1>3, <2>4
  <2>6. \A k \in 1 .. first - 1 : snaps[k] # NoSnap => ~(dateexpired[snaps[k]] > now)
    <3>. SUFFICES ASSUME NEW k \in 1 .. first - 1, snaps[k] # NoSnap, dateexpired[snaps[k]] > now
                  PROVE  FALSE
      OBVIOUS
    <3>1. k \in 1 .. Len(snaps) /\ k < first
      <4>. HIDE DEF first
      <4>. QED
        BY <1>0, <2>4
    <3>2. k \in I
      BY <3>1
    <3>3. first <= k
      BY <2>3, <3>2
    <3>. HIDE DEF first
    <3>. QED
      BY <1>0, <2>4, <3>1, <3>3
  <2>. HIDE DEF first
  <2>7. first - 1 \in 0 .. Len(snaps)
    BY <1>0, <2>4
  <2>8. /\ PopExpired \in Seq(Ids) /\ Len(PopExpired) = Len(snaps) - (first - 1)
        /\ \A k \in 1 .. Len(PopExpired) : PopExpired[k] = snaps[(first - 1) + k]
    BY <1>0, <2>4, <2>5
  <2>. QED
    BY <2>6, <2>7, <2>8
<1>. QED
  BY <1>2, <1>3

(* What has time left is kept, what the second loop deletes loses its      *)
(* text, and what the first one removes was in front of the rest.          *)
LEMMA DeletedFacts ==
    ASSUME TypeOK, Queue(snaps, has_text, next_snapid, dateexpired, now)
    PROVE  /\ SnapsAfterDelete \in Seq(Ids)
           /\ TextAfterDelete \in [SnapIds -> BOOLEAN]
           /\ Queue(SnapsAfterDelete, TextAfterDelete, next_snapid, dateexpired, now)
           /\ \A k \in 1 .. Len(SnapsAfterDelete) :
                 SnapsAfterDelete[k] # NoSnap => \E j \in 1 .. Len(snaps) : snaps[j] = SnapsAfterDelete[k]
<1>. DEFINE q == SnapsAfterDelete
            t == TextAfterDelete
<1>1. PICK gone \in 0 .. Len(snaps) :
         /\ Len(PopExpired) = Len(snaps) - gone
         /\ \A k \in 1 .. Len(PopExpired) : PopExpired[k] = snaps[gone + k]
         /\ \A k \in 1 .. gone : snaps[k] # NoSnap => ~(dateexpired[snaps[k]] > now)
  BY PoppedFacts
<1>2. /\ snaps \in Seq(Ids) /\ Len(snaps) \in Nat /\ PopExpired \in Seq(Ids) /\ Len(PopExpired) \in Nat
      /\ has_text \in [SnapIds -> BOOLEAN]
  BY PoppedFacts DEF TypeOK
<1>3. /\ q \in Seq(Ids) /\ Len(q) = Len(PopExpired)
      /\ \A k \in 1 .. Len(q) : q[k] = IF PopExpired[k] \in Expired THEN NoSnap ELSE PopExpired[k]
  <2>1. \A k \in 1 .. Len(PopExpired) :
           (IF PopExpired[k] \in Expired THEN NoSnap ELSE PopExpired[k]) \in Ids
    BY <1>2 DEF Ids
  <2>. QED
    BY <1>2, <2>1 DEF SnapsAfterDelete
<1>4. /\ t \in [SnapIds -> BOOLEAN]
      /\ \A id \in SnapIds :
            t[id] <=> has_text[id] /\ ~(id \in Expired /\ \E k \in 1 .. Len(PopExpired) : PopExpired[k] = id)
  <2>1. t \in [SnapIds -> BOOLEAN]
    BY <1>2 DEF TextAfterDelete, Contains
  <2>. QED
    BY <2>1 DEF TextAfterDelete, Contains
<1>5. \A k \in 1 .. Len(q) :
         /\ gone + k \in 1 .. Len(snaps)
         /\ PopExpired[k] = snaps[gone + k]
         /\ q[k] # NoSnap => q[k] = snaps[gone + k] /\ q[k] \notin Expired
  BY <1>1, <1>2, <1>3
<1>6. \A p \in 1 .. Len(snaps) : p > gone =>
         /\ p - gone \in 1 .. Len(q)
         /\ PopExpired[p - gone] = snaps[p]
  BY <1>1, <1>2, <1>3
<1>7. \A id \in SnapIds : id # NoSnap
  BY DEF SnapIds, NoSnap
<1>. HIDE DEF q, t
<1>8. \A k \in 1 .. Len(q) : q[k] # NoSnap => q[k] < next_snapid /\ t[q[k]]
  <2>. SUFFICES ASSUME NEW k \in 1 .. Len(q), q[k] # NoSnap
                PROVE  q[k] < next_snapid /\ t[q[k]]
    OBVIOUS
  <2>1. q[k] = snaps[gone + k] /\ q[k] \notin Expired /\ gone + k \in 1 .. Len(snaps)
    BY <1>5
  <2>2. q[k] < next_snapid /\ has_text[q[k]]
    BY <2>1 DEF Queue
  <2>3. q[k] \in SnapIds
    BY <1>3 DEF Ids
  <2>. QED
    BY <1>4, <2>1, <2>2, <2>3
<1>9. \A j, k \in 1 .. Len(q) : j < k /\ q[j] # NoSnap /\ q[k] # NoSnap => q[j] < q[k]
  <2>. SUFFICES ASSUME NEW j \in 1 .. Len(q), NEW k \in 1 .. Len(q), j < k, q[j] # NoSnap, q[k] # NoSnap
                PROVE  q[j] < q[k]
    OBVIOUS
  <2>1. /\ q[j] = snaps[gone + j] /\ gone + j \in 1 .. Len(snaps)
        /\ q[k] = snaps[gone + k] /\ gone + k \in 1 .. Len(snaps)
    BY <1>5
  <2>2. gone + j < gone + k
    BY <1>2
  <2>. QED
    BY <2>1, <2>2 DEF Queue
<1>10. \A id \in SnapIds : id >= next_snapid => dateexpired[id] = 0 /\ ~t[id]
  BY <1>4 DEF Queue
<1>11. \A id \in SnapIds : dateexpired[id] > now => \E k \in 1 .. Len(q) : q[k] = id
  <2>. SUFFICES ASSUME NEW id \in SnapIds, dateexpired[id] > now
                PROVE  \E k \in 1 .. Len(q) : q[k] = id
    OBVIOUS
  <2>1. PICK p \in 1 .. Len(snaps) : snaps[p] = id
    BY DEF Queue
  <2>2. p > gone
    BY <1>1, <1>2, <1>7, <2>1
  <2>3. id \notin Expired
    <3>1. dateexpired[id] \in Int /\ now \in Int
      <4>1. StartTime \in Int /\ MaxTime \in Int /\ MaxLength \in Int
        BY SnapsAssumption
      <4>2. dateexpired[id] \in {0} \cup StartTime .. StartTime + MaxTime + MaxLength /\ now \in StartTime .. StartTime + MaxTime
        BY DEF TypeOK, Times
      <4>. QED
        BY <4>1, <4>2
    <3>2. ~(dateexpired[id] <= now)
      BY <3>1
    <3>. QED
      BY <3>2 DEF Expired
  <2>. QED
    BY <1>3, <1>6, <2>1, <2>2, <2>3
<1>12. \A id \in SnapIds : t[id] =>
          \/ \E k \in 1 .. Len(q) : q[k] = id
          \/ \A k \in 1 .. Len(q) : q[k] # NoSnap => q[k] > id
  <2>. SUFFICES ASSUME NEW id \in SnapIds, t[id]
                PROVE  \/ \E k \in 1 .. Len(q) : q[k] = id
                       \/ \A k \in 1 .. Len(q) : q[k] # NoSnap => q[k] > id
    OBVIOUS
  <2>1. has_text[id]
    BY <1>4
  <2>2. CASE \A p \in 1 .. Len(snaps) : snaps[p] # id
    <3>1. \A p \in 1 .. Len(snaps) : snaps[p] # NoSnap => snaps[p] > id
      BY <2>1, <2>2 DEF Queue
    <3>. QED
      BY <1>5, <3>1
  <2>3. ASSUME NEW p \in 1 .. Len(snaps), snaps[p] = id, p > gone
        PROVE  \E k \in 1 .. Len(q) : q[k] = id
    <3>1. p - gone \in 1 .. Len(q) /\ PopExpired[p - gone] = id
      BY <1>6, <2>3
    <3>2. id \notin Expired
      BY <1>3, <1>4, <3>1
    <3>. QED
      BY <1>3, <3>1, <3>2
  <2>4. ASSUME NEW p \in 1 .. Len(snaps), snaps[p] = id, ~(p > gone)
        PROVE  \A k \in 1 .. Len(q) : q[k] # NoSnap => q[k] > id
    <3>. SUFFICES ASSUME NEW k \in 1 .. Len(q), q[k] # NoSnap PROVE q[k] > id
      OBVIOUS
    <3>1. q[k] = snaps[gone + k] /\ gone + k \in 1 .. Len(snaps)
      BY <1>5
    <3>2. p < gone + k
      BY <1>2, <2>4
    <3>3. snaps[p] < snaps[gone + k]
      BY <1>7, <2>4, <3>1, <3>2 DEF Queue
    <3>4. snaps[gone + k] \in Int /\ id \in Int
      BY <1>2, <3>1 DEF Ids, SnapIds, NoSnap
    <3>. QED
      BY <2>4, <3>1, <3>3, <3>4
  <2>. QED
    BY <2>2, <2>3, <2>4
<1>13. \A k \in 1 .. Len(q) : q[k] # NoSnap => \E j \in 1 .. Len(snaps) : snaps[j] = q[k]
  BY <1>5
<1>14. Queue(q, t, next_snapid, dateexpired, now)
  BY <1>8, <1>9, <1>10, <1>11, <1>12 DEF Queue
<1>. QED
  BY <1>3, <1>4, <1>13, <1>14 DEF q, t

-----------------------------------------------------------------------------
(* chatcommand_sendsnap.                                                   *)

(* The new snap is the last, and the newest. *)
LEMMA AppendedFacts ==
    ASSUME NEW q \in Seq(Ids), NEW text \in [SnapIds -> BOOLEAN], NEW unused \in SnapIds,
           NEW expires \in [SnapIds -> Int], NEW time, NEW date,
           Queue(q, text, unused, expires, time)
    PROVE  Queue(Append(q, unused), [text EXCEPT ![unused] = TRUE], unused + 1,
                 [expires EXCEPT ![unused] = date], time)
<1>. DEFINE r == Append(q, unused)
            t == [text EXCEPT ![unused] = TRUE]
            e == [expires EXCEPT ![unused] = date]
<1>1. /\ Len(q) \in Nat /\ Len(r) = Len(q) + 1 /\ r[Len(q) + 1] = unused
      /\ \A k \in 1 .. Len(q) : r[k] = q[k] /\ q[k] \in Ids
  BY DEF Ids
<1>2. \A id \in SnapIds : /\ t[id] <=> id = unused \/ text[id]
                          /\ e[id] = IF id = unused THEN date ELSE expires[id]
                          /\ id \in Int /\ id # NoSnap
  BY DEF SnapIds, NoSnap
<1>3. \A k \in 1 .. Len(r) : k = Len(q) + 1 \/ k \in 1 .. Len(q)
  BY <1>1
<1>4. \A k \in 1 .. Len(q) : q[k] # NoSnap => q[k] \in SnapIds /\ q[k] < unused /\ text[q[k]]
  BY <1>1 DEF Queue, Ids
<1>5. unused \in Int /\ SnapIds \subseteq Int
  BY DEF SnapIds
<1>6. \A k \in 1 .. Len(q) : k \in 1 .. Len(r)
  BY <1>1
<1>7. Len(q) + 1 \in 1 .. Len(r)
  BY <1>1
<1>. HIDE DEF r, t, e
<1>8. \A k \in 1 .. Len(r) : r[k] # NoSnap => r[k] < unused + 1 /\ t[r[k]]
  <2>. SUFFICES ASSUME NEW k \in 1 .. Len(r), r[k] # NoSnap
                PROVE  r[k] < unused + 1 /\ t[r[k]]
    OBVIOUS
  <2>1. CASE k = Len(q) + 1
    <3>1. r[k] = unused /\ t[unused]
      BY <1>1, <1>2, <2>1
    <3>. QED
      BY <1>5, <3>1
  <2>2. CASE k \in 1 .. Len(q)
    <3>1. r[k] \in SnapIds /\ r[k] < unused /\ text[r[k]]
      BY <1>1, <1>4, <2>2
    <3>2. t[r[k]]
      BY <1>2, <3>1
    <3>3. r[k] \in Int
      BY <1>5, <3>1
    <3>. QED
      BY <1>5, <3>1, <3>2, <3>3
  <2>. QED
    BY <1>3, <2>1, <2>2
<1>9. \A j, k \in 1 .. Len(r) : j < k /\ r[j] # NoSnap /\ r[k] # NoSnap => r[j] < r[k]
  <2>. SUFFICES ASSUME NEW j \in 1 .. Len(r), NEW k \in 1 .. Len(r), j < k, r[j] # NoSnap, r[k] # NoSnap
                PROVE  r[j] < r[k]
    OBVIOUS
  <2>1. j \in 1 .. Len(q)
    BY <1>1, <1>3
  <2>2. r[j] = q[j] /\ q[j] < unused
    BY <1>1, <1>4, <2>1
  <2>3. CASE k = Len(q) + 1
    BY <1>1, <2>2, <2>3
  <2>4. CASE k \in 1 .. Len(q)
    BY <1>1, <2>1, <2>2, <2>4 DEF Queue
  <2>. QED
    BY <1>3, <2>3, <2>4
<1>10. \A id \in SnapIds : id >= unused + 1 => e[id] = 0 /\ ~t[id]
  <2>. SUFFICES ASSUME NEW id \in SnapIds, id >= unused + 1
                PROVE  e[id] = 0 /\ ~t[id]
    OBVIOUS
  <2>1. id >= unused /\ id # unused
    BY <1>2, <1>5
  <2>. QED
    BY <1>2, <2>1 DEF Queue
<1>11. \A id \in SnapIds : e[id] > time => \E k \in 1 .. Len(r) : r[k] = id
  <2>. SUFFICES ASSUME NEW id \in SnapIds, e[id] > time
                PROVE  \E k \in 1 .. Len(r) : r[k] = id
    OBVIOUS
  <2>1. CASE id = unused
    BY <1>1, <1>7, <2>1
  <2>2. CASE id # unused
    <3>1. PICK k \in 1 .. Len(q) : q[k] = id
      BY <1>2, <2>2 DEF Queue
    <3>. QED
      BY <1>1, <1>6, <3>1
  <2>. QED
    BY <2>1, <2>2
<1>12. \A id \in SnapIds : t[id] =>
          \/ \E k \in 1 .. Len(r) : r[k] = id
          \/ \A k \in 1 .. Len(r) : r[k] # NoSnap => r[k] > id
  <2>. SUFFICES ASSUME NEW id \in SnapIds, t[id]
                PROVE  \/ \E k \in 1 .. Len(r) : r[k] = id
                       \/ \A k \in 1 .. Len(r) : r[k] # NoSnap => r[k] > id
    OBVIOUS
  <2>1. CASE id = unused
    BY <1>1, <1>7, <2>1
  <2>2. CASE id # unused
    <3>1. text[id]
      BY <1>2, <2>2
    <3>2. id < unused
      <4>1. ~(id >= unused)
        BY <3>1 DEF Queue
      <4>. QED
        BY <1>2, <1>5, <4>1
    <3>3. CASE \E k \in 1 .. Len(q) : q[k] = id
      BY <1>1, <1>6, <3>3
    <3>4. CASE \A k \in 1 .. Len(q) : q[k] # NoSnap => q[k] > id
      <4>1. ASSUME NEW k \in 1 .. Len(r), r[k] # NoSnap PROVE r[k] > id
        <5>1. CASE k = Len(q) + 1
          BY <1>1, <1>2, <1>5, <3>2, <5>1
        <5>2. CASE k \in 1 .. Len(q)
          BY <1>1, <3>4, <4>1, <5>2
        <5>. QED
          BY <1>3, <5>1, <5>2
      <4>. QED
        BY <4>1
    <3>. QED
      BY <3>1, <3>3, <3>4 DEF Queue
  <2>. QED
    BY <2>1, <2>2
<1>. QED
  BY <1>8, <1>9, <1>10, <1>11, <1>12 DEF Queue, r, t, e

(* A user's snaps of the new queue that are pending are in p. *)
Has(p, u, latest) ==
    \A k \in 1 .. Len(snaps') :
        /\ snaps'[k] # NoSnap
        /\ u \in {to_userid'[snaps'[k]], from_userid'[snaps'[k]]}
        /\ snaps'[k] >= latest
        => Contains(p, snaps'[k])

(* A connection that is sent pending snaps has them afterwards, in order   *)
(* behind those it had.                                                    *)
LEMMA PendingFacts ==
    ASSUME NEW u, NEW latest \in -1 .. MaxSnaps + 1, NEW got \in Seq(SnapIds), Below(latest, got),
           snaps' \in Seq(Ids),
           Queue(snaps', has_text', next_snapid', dateexpired', now'),
           next_snapid' \in 1 .. MaxSnaps + 1, latest <= next_snapid',
           NEW p, p = Pending(u, latest),
           NEW l, l = IF p = << >> THEN latest ELSE Last(p) + 1
    PROVE  /\ p \in Seq(SnapIds)
           /\ l \in -1 .. MaxSnaps + 1
           /\ latest <= l /\ l <= next_snapid'
           /\ Below(l, got \o p)
           /\ Has(p, u, latest)
<1>. DEFINE W == {id \in SnapsOf(u) : id >= latest}
<1>0. MaxSnaps \in Nat /\ latest \in Int /\ next_snapid' \in Int
  BY SnapsAssumption
<1>1. p = Selected(snaps', W)
  BY DEF Pending
<1>2. W \subseteq SnapIds /\ \A id \in W : id >= latest
  BY DEF SnapsOf
<1>3. /\ p \in Seq(Ids)
      /\ \A k \in 1 .. Len(snaps') : snaps'[k] \in W => \E i \in 1 .. Len(p) : p[i] = snaps'[k]
      /\ \A i \in 1 .. Len(p) : \E k \in 1 .. Len(snaps') : p[i] = snaps'[k] /\ snaps'[k] \in W
      /\ \A i, j \in 1 .. Len(p) : i < j =>
            \E k, m \in 1 .. Len(snaps') :
               k < m /\ p[i] = snaps'[k] /\ p[j] = snaps'[m] /\ snaps'[k] \in W /\ snaps'[m] \in W
  <2>. HIDE DEF W
  <2>1. p \in Seq(Ids) /\ Picks(p, snaps', W)
    BY <1>1, SelectedFacts
  <2>. QED
    BY <2>1 DEF Picks
<1>4. \A id \in SnapIds : id # NoSnap /\ id \in Int
  BY DEF SnapIds, NoSnap
<1>5. \A i \in 1 .. Len(p) : p[i] \in SnapIds /\ p[i] >= latest /\ p[i] < next_snapid'
  <2>. HIDE DEF W
  <2>. SUFFICES ASSUME NEW i \in 1 .. Len(p)
                PROVE  p[i] \in SnapIds /\ p[i] >= latest /\ p[i] < next_snapid'
    OBVIOUS
  <2>1. PICK k \in 1 .. Len(snaps') : p[i] = snaps'[k] /\ snaps'[k] \in W
    BY <1>3
  <2>2. p[i] \in SnapIds /\ p[i] >= latest /\ p[i] # NoSnap
    BY <1>2, <1>4, <2>1
  <2>3. p[i] < next_snapid'
    BY <2>1, <2>2 DEF Queue
  <2>. QED
    BY <2>2, <2>3
<1>6. p \in Seq(SnapIds) /\ Len(p) \in Nat
  <2>1. Len(p) \in Nat /\ p = [i \in 1 .. Len(p) |-> p[i]]
    BY <1>3
  <2>. QED
    BY <1>5, <2>1, IsASeq
<1>7. \A i, j \in 1 .. Len(p) : i < j => p[i] < p[j]
  <2>. HIDE DEF W
  <2>. SUFFICES ASSUME NEW i \in 1 .. Len(p), NEW j \in 1 .. Len(p), i < j
                PROVE  p[i] < p[j]
    OBVIOUS
  <2>1. PICK k \in 1 .. Len(snaps'), m \in 1 .. Len(snaps') :
           k < m /\ p[i] = snaps'[k] /\ p[j] = snaps'[m] /\ snaps'[k] \in W /\ snaps'[m] \in W
    BY <1>3
  <2>. QED
    BY <1>2, <1>4, <2>1 DEF Queue
<1>8. /\ l \in Int /\ latest <= l /\ l <= next_snapid'
      /\ \A i \in 1 .. Len(p) : p[i] < l
  <2>1. CASE p = << >>
    BY <1>0, <2>1
  <2>2. CASE p # << >>
    <3>1. Len(p) \in 1 .. Len(p)
      BY <1>6, <2>2
    <3>2. l = p[Len(p)] + 1
      BY <2>2 DEF Last
    <3>3. p[Len(p)] \in Int /\ p[Len(p)] >= latest /\ p[Len(p)] < next_snapid'
      BY <1>4, <1>5, <3>1
    <3>4. \A i \in 1 .. Len(p) : p[i] \in Int /\ (i = Len(p) \/ p[i] < p[Len(p)])
      BY <1>4, <1>5, <1>6, <1>7, <3>1
    <3>. QED
      BY <1>0, <3>2, <3>3, <3>4
  <2>. QED
    BY <2>1, <2>2
<1>9. Below(l, got \o p)
  <2>. DEFINE both == got \o p
  <2>1. /\ Len(got) \in Nat /\ Len(both) = Len(got) + Len(p)
        /\ \A i \in 1 .. Len(got) : both[i] = got[i] /\ got[i] \in SnapIds
        /\ \A i \in 1 .. Len(p) : both[Len(got) + i] = p[i]
    BY <1>6
  <2>2. \A i \in 1 .. Len(both) : i \in 1 .. Len(got) \/ (i > Len(got) /\ i - Len(got) \in 1 .. Len(p))
    BY <1>6, <2>1
  <2>3. \A i \in 1 .. Len(both) : i > Len(got) => both[i] = p[i - Len(got)]
    <3>. SUFFICES ASSUME NEW i \in 1 .. Len(both), i > Len(got)
                  PROVE  both[i] = p[i - Len(got)]
      OBVIOUS
    <3>1. i - Len(got) \in 1 .. Len(p) /\ Len(got) + (i - Len(got)) = i
      BY <2>1, <2>2
    <3>. QED
      BY <2>1, <3>1
  <2>. HIDE DEF both
  <2>4. \A i \in 1 .. Len(got) : both[i] < latest /\ both[i] \in Int
    BY <1>4, <2>1 DEF Below
  <2>5. \A i \in 1 .. Len(both) : i > Len(got) => both[i] >= latest /\ both[i] < l /\ both[i] \in Int
    <3>. SUFFICES ASSUME NEW i \in 1 .. Len(both), i > Len(got)
                  PROVE  both[i] >= latest /\ both[i] < l /\ both[i] \in Int
      OBVIOUS
    <3>1. i - Len(got) \in 1 .. Len(p)
      BY <2>1, <2>2
    <3>. QED
      BY <1>4, <1>5, <1>8, <2>3, <3>1
  <2>6. \A i \in 1 .. Len(both) : both[i] < l
    BY <1>0, <1>8, <2>2, <2>4, <2>5
  <2>7. \A i, j \in 1 .. Len(both) : i < j => both[i] < both[j]
    <3>. SUFFICES ASSUME NEW i \in 1 .. Len(both), NEW j \in 1 .. Len(both), i < j
                  PROVE  both[i] < both[j]
      OBVIOUS
    <3>1. CASE j \in 1 .. Len(got)
      <4>1. i \in 1 .. Len(got)
        BY <2>1, <3>1
      <4>. QED
        BY <2>1, <3>1, <4>1 DEF Below
    <3>2. CASE i \in 1 .. Len(got) /\ j > Len(got)
      BY <1>0, <2>4, <2>5, <3>2
    <3>3. CASE i > Len(got) /\ j > Len(got)
      <4>1. i - Len(got) \in 1 .. Len(p) /\ j - Len(got) \in 1 .. Len(p) /\ i - Len(got) < j - Len(got)
        BY <2>1, <2>2, <3>3
      <4>. QED
        BY <1>7, <2>3, <3>3, <4>1
    <3>. QED
      BY <2>2, <3>1, <3>2, <3>3
  <2>. QED
    BY <2>6, <2>7 DEF Below, both
<1>10. \A k \in 1 .. Len(snaps') :
          snaps'[k] # NoSnap /\ u \in {to_userid'[snaps'[k]], from_userid'[snaps'[k]]} /\ snaps'[k] >= latest
             => snaps'[k] \in W
  <2>. SUFFICES ASSUME NEW k \in 1 .. Len(snaps'), snaps'[k] # NoSnap,
                       u \in {to_userid'[snaps'[k]], from_userid'[snaps'[k]]}, snaps'[k] >= latest
                PROVE  snaps'[k] \in W
    OBVIOUS
  <2>1. snaps'[k] \in SnapIds
    BY DEF Ids
  <2>2. has_text'[snaps'[k]]
    BY DEF Queue
  <2>. QED
    BY <2>1, <2>2 DEF SnapsOf
<1>11. l \in -1 .. MaxSnaps + 1
  BY <1>0, <1>8
<1>. HIDE DEF W
<1>12. Has(p, u, latest)
  BY <1>3, <1>10 DEF Has, Contains
<1>. QED
  BY <1>6, <1>8, <1>9, <1>11, <1>12

(* All connections, those that are sent something and the others. *)
LEMMA SentFacts ==
    ASSUME TypeOK, snaps' \in Seq(Ids), next_snapid' \in 1 .. MaxSnaps + 1,
           Queue(snaps', has_text', next_snapid', dateexpired', now'),
           NEW R, NEW latest \in [Clients -> -1 .. MaxSnaps + 1], NEW before \in [Clients -> Seq(SnapIds)],
           \A c \in Clients : latest[c] <= next_snapid' /\ Below(latest[c], before[c]),
           SendSnapsToUser(R, latest, before)
    PROVE  /\ latest_snapid' \in [Clients -> -1 .. MaxSnaps + 1]
           /\ messages_to_send' \in [Clients -> Seq(SnapIds)]
           /\ sent' \in [Clients -> Seq(SnapIds)]
           /\ \A c \in Clients :
                 /\ latest[c] <= latest_snapid'[c] /\ latest_snapid'[c] <= next_snapid'
                 /\ Below(latest_snapid'[c], sent'[c])
                 /\ \A id : Contains(before[c], id) => Contains(sent'[c], id)
                 /\ c \in R => Has(sent'[c], logged_in_user[c], latest[c])
<1>. DEFINE pending == [c \in Clients |-> IF c \in R THEN Pending(logged_in_user[c], latest[c]) ELSE << >>]
<1>1. /\ latest_snapid' = [c \in Clients |-> IF pending[c] = << >> THEN latest[c] ELSE Last(pending[c]) + 1]
      /\ messages_to_send' = [c \in Clients |-> messages_to_send[c] \o pending[c]]
      /\ sent' = [c \in Clients |-> before[c] \o pending[c]]
  BY DEF SendSnapsToUser
<1>2. \A c \in Clients : pending[c] = IF c \in R THEN Pending(logged_in_user[c], latest[c]) ELSE << >>
  OBVIOUS
<1>. HIDE DEF pending
<1>3. messages_to_send \in [Clients -> Seq(SnapIds)]
  BY DEF TypeOK
<1>4. ASSUME NEW c \in Clients
      PROVE  /\ pending[c] \in Seq(SnapIds)
             /\ latest_snapid'[c] \in -1 .. MaxSnaps + 1
             /\ latest[c] <= latest_snapid'[c] /\ latest_snapid'[c] <= next_snapid'
             /\ Below(latest_snapid'[c], before[c] \o pending[c])
             /\ c \in R => Has(pending[c], logged_in_user[c], latest[c])
  <2>1. latest_snapid'[c] = IF pending[c] = << >> THEN latest[c] ELSE Last(pending[c]) + 1
    BY <1>1
  <2>2. CASE c \in R
    <3>1. pending[c] = Pending(logged_in_user[c], latest[c])
      BY <1>2, <2>2
    <3>2. latest[c] \in -1 .. MaxSnaps + 1 /\ before[c] \in Seq(SnapIds)
      OBVIOUS
    <3>. QED
      BY <2>1, <3>1, <3>2, PendingFacts
  <2>3. CASE c \notin R
    <3>1. pending[c] = << >> /\ latest_snapid'[c] = latest[c]
      BY <1>2, <2>1, <2>3
    <3>2. before[c] \o pending[c] = before[c]
      BY <3>1, ConcatEmptySeq
    <3>3. latest[c] \in -1 .. MaxSnaps + 1 /\ MaxSnaps \in Nat
      BY SnapsAssumption
    <3>4. latest[c] <= latest[c]
      BY <3>3
    <3>. QED
      BY <2>3, <3>1, <3>2, <3>3, <3>4
  <2>. QED
    BY <2>2, <2>3
<1>5. latest_snapid' \in [Clients -> -1 .. MaxSnaps + 1]
  BY <1>1, <1>4
<1>6. \A c \in Clients : messages_to_send[c] \o pending[c] \in Seq(SnapIds) /\ before[c] \o pending[c] \in Seq(SnapIds)
  BY <1>3, <1>4, ConcatProperties
<1>7. messages_to_send' \in [Clients -> Seq(SnapIds)] /\ sent' \in [Clients -> Seq(SnapIds)]
  BY <1>1, <1>6
<1>8. ASSUME NEW c \in Clients
      PROVE  /\ \A id : Contains(before[c], id) => Contains(sent'[c], id)
             /\ \A id : Contains(pending[c], id) => Contains(sent'[c], id)
  <2>1. sent'[c] = before[c] \o pending[c]
    BY <1>1
  <2>2. /\ Len(before[c]) \in Nat /\ Len(pending[c]) \in Nat
        /\ Len(sent'[c]) = Len(before[c]) + Len(pending[c])
        /\ \A i \in 1 .. Len(before[c]) : sent'[c][i] = before[c][i]
        /\ \A i \in 1 .. Len(pending[c]) : sent'[c][Len(before[c]) + i] = pending[c][i]
    <3>1. before[c] \in Seq(SnapIds) /\ pending[c] \in Seq(SnapIds)
      BY <1>4
    <3>. QED
      BY <2>1, <3>1
  <2>3. /\ \A i \in 1 .. Len(before[c]) : i \in 1 .. Len(sent'[c])
        /\ \A i \in 1 .. Len(pending[c]) : Len(before[c]) + i \in 1 .. Len(sent'[c])
    BY <2>2
  <2>. QED
    BY <2>2, <2>3 DEF Contains
<1>9. \A c \in Clients : sent'[c] = before[c] \o pending[c]
  BY <1>1
<1>10. \A c \in Clients : c \in R => Has(sent'[c], logged_in_user[c], latest[c])
  BY <1>4, <1>8 DEF Has
<1>. QED
  BY <1>4, <1>5, <1>7, <1>8, <1>9, <1>10

-----------------------------------------------------------------------------
(* The invariant, step by step.                                            *)

LEMMA InitInv == Init => IndInv
<1>. SUFFICES ASSUME Init PROVE IndInv
  OBVIOUS
<1>1. StartTime \in Nat /\ MaxTime \in Nat /\ MaxSnaps \in Nat /\ MaxLength \in Nat
  BY SnapsAssumption
<1>2. TypeOK
  <2>1. next_snapid \in 1 .. MaxSnaps + 1 /\ now \in Times
    BY <1>1 DEF Init, Times
  <2>2. latest_snapid \in [Clients -> -1 .. MaxSnaps + 1]
    BY <1>1 DEF Init
  <2>. QED
    BY <2>1, <2>2 DEF Init, TypeOK
<1>3. Queue(snaps, has_text, next_snapid, dateexpired, now)
  BY <1>1 DEF Init, Queue
<1>4. Numbered
  BY DEF Init, Numbered, Below
<1>5. Asked
  BY DEF Init, Asked
<1>6. Known
  BY DEF Init, Known, SnapIds
<1>. QED
  BY <1>2, <1>3, <1>4, <1>5, <1>6 DEF IndInv

(* Steps that neither use nor change the queue of snaps, nor what a        *)
(* connection has: but for a connection that no longer asks.               *)
LEMMA QuietStep ==
    ASSUME IndInv, TypeOK', UNCHANGED <<queue_vars, latest_snapid, now>>,
           \A c \in Clients : /\ sent'[c] \in {sent[c], << >>}
                              /\ asked'[c] => /\ asked[c] /\ sent'[c] = sent[c]
                                              /\ logged_in_user'[c] = logged_in_user[c]
                                              /\ c \in chatclients'
    PROVE  IndInv'
<1>1. Queue(snaps, has_text, next_snapid, dateexpired, now)'
  BY DEF IndInv, queue_vars, snap_vars, text_vars, Queue
<1>2. Numbered'
  <2>. SUFFICES ASSUME NEW c \in Clients
                PROVE  latest_snapid[c] <= next_snapid /\ Below(latest_snapid[c], sent'[c])
    BY DEF queue_vars, Numbered
  <2>1. Below(latest_snapid[c], sent[c]) /\ Below(latest_snapid[c], << >>)
    BY DEF IndInv, Numbered, Below
  <2>. QED
    BY <2>1 DEF IndInv, Numbered
<1>3. Asked'
  BY DEF IndInv, Asked, queue_vars, snap_vars
<1>4. Known'
  BY DEF IndInv, Known, queue_vars, snap_vars
<1>. QED
  BY <1>1, <1>2, <1>3, <1>4 DEF IndInv

LEMMA GetSnapsStep ==
    ASSUME IndInv, NEW c \in Clients, GetSnaps(c)
    PROVE  IndInv'
<1>. DEFINE latest == [latest_snapid EXCEPT ![c] = 0]
            before == [sent EXCEPT ![c] = << >>]
<1>1. MaxSnaps \in Nat
  BY SnapsAssumption
<1>2. /\ snaps' = SnapsAfterDelete /\ has_text' = TextAfterDelete
      /\ UNCHANGED <<snap_vars, next_snapid, shows_received, login_vars, reading, now>>
      /\ SendSnapsToUser({c}, latest, before)
      /\ asked' = [asked EXCEPT ![c] = TRUE]
      /\ c \in chatclients
  BY DEF GetSnaps, Working
<1>3. /\ snaps' \in Seq(Ids) /\ has_text' \in [SnapIds -> BOOLEAN]
      /\ Queue(snaps', has_text', next_snapid, dateexpired, now)
      /\ \A k \in 1 .. Len(snaps') : snaps'[k] # NoSnap => \E j \in 1 .. Len(snaps) : snaps[j] = snaps'[k]
  BY <1>2, DeletedFacts DEF IndInv
<1>4. next_snapid' \in 1 .. MaxSnaps + 1 /\ Queue(snaps', has_text', next_snapid', dateexpired', now')
  BY <1>2, <1>3 DEF IndInv, TypeOK, snap_vars
<1>5. latest \in [Clients -> -1 .. MaxSnaps + 1] /\ before \in [Clients -> Seq(SnapIds)]
  <2>1. latest_snapid \in [Clients -> -1 .. MaxSnaps + 1] /\ 0 \in -1 .. MaxSnaps + 1
    BY <1>1 DEF IndInv, TypeOK
  <2>2. sent \in [Clients -> Seq(SnapIds)] /\ << >> \in Seq(SnapIds)
    BY DEF IndInv, TypeOK
  <2>3. latest \in [Clients -> -1 .. MaxSnaps + 1]
    BY ONLY <2>1
  <2>4. before \in [Clients -> Seq(SnapIds)]
    BY ONLY <2>2
  <2>. QED
    BY <2>3, <2>4
<1>6. \A d \in Clients : /\ latest[d] = IF d = c THEN 0 ELSE latest_snapid[d]
                         /\ before[d] = IF d = c THEN << >> ELSE sent[d]
  BY DEF IndInv, TypeOK
<1>. HIDE DEF latest, before
<1>7. \A d \in Clients : latest[d] <= next_snapid' /\ Below(latest[d], before[d])
  <2>1. Below(0, << >>)
    BY DEF Below
  <2>2. 0 <= next_snapid' /\ next_snapid' = next_snapid
    BY <1>1, <1>2, <1>4
  <2>. QED
    BY <1>6, <2>1, <2>2 DEF IndInv, Numbered
<1>8. /\ latest_snapid' \in [Clients -> -1 .. MaxSnaps + 1]
      /\ messages_to_send' \in [Clients -> Seq(SnapIds)]
      /\ sent' \in [Clients -> Seq(SnapIds)]
      /\ \A d \in Clients :
            /\ latest[d] <= latest_snapid'[d] /\ latest_snapid'[d] <= next_snapid'
            /\ Below(latest_snapid'[d], sent'[d])
            /\ \A id : Contains(before[d], id) => Contains(sent'[d], id)
            /\ d \in {c} => Has(sent'[d], logged_in_user[d], latest[d])
  BY <1>2, <1>3, <1>4, <1>5, <1>7, SentFacts DEF IndInv
<1>9. TypeOK'
  <2>1. asked' \in [Clients -> BOOLEAN]
    BY <1>2 DEF IndInv, TypeOK
  <2>. QED
    BY <1>2, <1>3, <1>4, <1>8, <2>1 DEF IndInv, TypeOK, snap_vars, login_vars
<1>10. Numbered'
  BY <1>8 DEF Numbered
<1>11. Asked'
  <2>. SUFFICES ASSUME NEW d \in Clients, asked'[d]
                PROVE  /\ d \in chatclients'
                       /\ latest_snapid'[d] >= 0
                       /\ \A k \in 1 .. Len(snaps') :
                             snaps'[k] # NoSnap /\ to_userid'[snaps'[k]] = logged_in_user'[d] =>
                                Contains(sent'[d], snaps'[k])
    BY DEF Asked
  <2>1. latest[d] \in Int /\ latest_snapid'[d] \in Int /\ latest[d] <= latest_snapid'[d]
    BY <1>1, <1>5, <1>8
  <2>2. to_userid' = to_userid /\ logged_in_user' = logged_in_user /\ chatclients' = chatclients
    BY <1>2 DEF snap_vars, login_vars
  <2>3. CASE d = c
    <3>1. latest[d] = 0 /\ d \in chatclients'
      BY <1>2, <1>6, <2>2, <2>3
    <3>2. \A k \in 1 .. Len(snaps') : snaps'[k] >= 0
      BY <1>1, <1>3 DEF Ids, SnapIds, NoSnap
    <3>3. Has(sent'[d], logged_in_user[d], 0)
      BY <1>8, <2>3, <3>1
    <3>. QED
      BY <2>1, <2>2, <3>1, <3>2, <3>3 DEF Has
  <2>4. CASE d # c
    <3>1. asked[d] /\ latest[d] = latest_snapid[d] /\ before[d] = sent[d]
      BY <1>2, <1>6, <2>4 DEF IndInv, TypeOK
    <3>2. d \in chatclients /\ latest_snapid[d] >= 0
      BY <3>1 DEF IndInv, Asked
    <3>3. \A k \in 1 .. Len(snaps') : snaps'[k] # NoSnap /\ to_userid[snaps'[k]] = logged_in_user[d] =>
             Contains(sent[d], snaps'[k])
      BY <1>3, <3>1 DEF IndInv, Asked
    <3>. QED
      BY <1>8, <2>1, <2>2, <3>1, <3>2, <3>3
  <2>. QED
    BY <2>3, <2>4
<1>12. Known'
  BY <1>2 DEF IndInv, Known, snap_vars
<1>. QED
  BY <1>4, <1>9, <1>10, <1>11, <1>12 DEF IndInv

LEMMA SendSnapStep ==
    ASSUME IndInv, NEW c \in Clients, NEW u \in Users, NEW expirelength \in 0 .. MaxLength,
           SendSnap(c, u, expirelength)
    PROVE  IndInv'
<1>. DEFINE R == {d \in chatclients : logged_in_user[d] = u /\ WantsSnaps(c)[d] >= 0}
<1>1. MaxSnaps \in Nat /\ StartTime \in Nat /\ MaxTime \in Nat /\ MaxLength \in Nat
  BY SnapsAssumption
<1>2. /\ next_snapid <= MaxSnaps /\ next_snapid' = next_snapid + 1
      /\ logged_in_user[c] # NoUser
      /\ to_userid' = [to_userid EXCEPT ![next_snapid] = u]
      /\ from_userid' = [from_userid EXCEPT ![next_snapid] = logged_in_user[c]]
      /\ dateexpired' = [dateexpired EXCEPT ![next_snapid] = DateExpired(expirelength)]
      /\ snaps' = Append(SnapsAfterDelete, next_snapid)
      /\ has_text' = [TextAfterDelete EXCEPT ![next_snapid] = TRUE]
      /\ SendSnapsToUser(R, WantsSnaps(c), sent)
      /\ UNCHANGED <<shows_received, login_vars, reading, now, asked>>
  BY DEF SendSnap
<1>3. /\ SnapsAfterDelete \in Seq(Ids) /\ TextAfterDelete \in [SnapIds -> BOOLEAN]
      /\ Queue(SnapsAfterDelete, TextAfterDelete, next_snapid, dateexpired, now)
      /\ \A k \in 1 .. Len(SnapsAfterDelete) :
            SnapsAfterDelete[k] # NoSnap => \E j \in 1 .. Len(snaps) : snaps[j] = SnapsAfterDelete[k]
  BY DeletedFacts DEF IndInv
<1>4. next_snapid \in SnapIds /\ next_snapid' \in 1 .. MaxSnaps + 1 /\ next_snapid < next_snapid'
  BY <1>1, <1>2 DEF IndInv, TypeOK, SnapIds
<1>5. dateexpired \in [SnapIds -> {0} \cup StartTime .. StartTime + MaxTime + MaxLength]
  BY DEF IndInv, TypeOK
<1>6. dateexpired \in [SnapIds -> Int]
  <2>1. {0} \cup StartTime .. StartTime + MaxTime + MaxLength \subseteq Int
    BY <1>1
  <2>. QED
    BY <1>5, <2>1
<1>7. Queue(snaps', has_text', next_snapid', dateexpired', now')
  <2>1. Queue(snaps', has_text', next_snapid', dateexpired', now)
    BY <1>2, <1>3, <1>4, <1>6, AppendedFacts
  <2>. QED
    BY <1>2, <2>1
<1>8. /\ snaps' \in Seq(Ids) /\ has_text' \in [SnapIds -> BOOLEAN]
      /\ dateexpired' \in [SnapIds -> {0} \cup StartTime .. StartTime + MaxTime + MaxLength]
  <2>1. next_snapid \in Ids
    BY <1>4 DEF Ids
  <2>2. DateExpired(expirelength) \in {0} \cup StartTime .. StartTime + MaxTime + MaxLength
    <3>1. now \in StartTime .. StartTime + MaxTime
      BY DEF IndInv, TypeOK, Times
    <3>. QED
      BY <1>1, <3>1 DEF DateExpired
  <2>3. snaps' \in Seq(Ids)
    BY <1>2, <1>3, <2>1, AppendProperties
  <2>4. has_text' \in [SnapIds -> BOOLEAN]
    BY <1>2, <1>3
  <2>5. dateexpired' \in [SnapIds -> {0} \cup StartTime .. StartTime + MaxTime + MaxLength]
    <3>. DEFINE D == {0} \cup StartTime .. StartTime + MaxTime + MaxLength
    <3>1. dateexpired \in [SnapIds -> D] /\ DateExpired(expirelength) \in D
      BY <1>5, <2>2
    <3>. HIDE DEF D
    <3>2. dateexpired' \in [SnapIds -> D]
      BY <1>2, <3>1
    <3>. QED
      BY <3>2 DEF D
  <2>. QED
    BY <2>3, <2>4, <2>5
<1>9. /\ WantsSnaps(c) \in [Clients -> -1 .. MaxSnaps + 1]
      /\ \A d \in Clients : WantsSnaps(c)[d] = latest_snapid[d] \/ (latest_snapid[d] < 0 /\ WantsSnaps(c)[d] = 0)
  <2>1. latest_snapid \in [Clients -> -1 .. MaxSnaps + 1] /\ 0 \in -1 .. MaxSnaps + 1
    BY <1>1 DEF IndInv, TypeOK
  <2>. QED
    BY <2>1 DEF WantsSnaps
<1>10. sent \in [Clients -> Seq(SnapIds)]
  BY DEF IndInv, TypeOK
<1>11. \A d \in Clients : WantsSnaps(c)[d] <= next_snapid' /\ Below(WantsSnaps(c)[d], sent[d])
  <2>. SUFFICES ASSUME NEW d \in Clients
                PROVE  WantsSnaps(c)[d] <= next_snapid' /\ Below(WantsSnaps(c)[d], sent[d])
    OBVIOUS
  <2>1. latest_snapid[d] <= next_snapid /\ Below(latest_snapid[d], sent[d]) /\ latest_snapid[d] \in -1 .. MaxSnaps + 1
    BY DEF IndInv, Numbered, TypeOK
  <2>2. next_snapid \in Int /\ next_snapid' \in Int /\ next_snapid' >= 0 /\ latest_snapid[d] \in Int
    BY <1>1, <1>4, <2>1 DEF SnapIds
  <2>3. \A i \in 1 .. Len(sent[d]) : sent[d][i] \in Int
    <3>1. \A i \in 1 .. Len(sent[d]) : sent[d][i] \in SnapIds
      BY <1>10
    <3>. QED
      BY <3>1 DEF SnapIds
  <2>4. CASE WantsSnaps(c)[d] = latest_snapid[d]
    BY <1>4, <2>1, <2>2, <2>4
  <2>5. CASE latest_snapid[d] < 0 /\ WantsSnaps(c)[d] = 0
    BY <2>1, <2>2, <2>3, <2>5 DEF Below
  <2>. QED
    BY <1>9, <2>4, <2>5
<1>. HIDE DEF R
<1>12. /\ latest_snapid' \in [Clients -> -1 .. MaxSnaps + 1]
       /\ messages_to_send' \in [Clients -> Seq(SnapIds)]
       /\ sent' \in [Clients -> Seq(SnapIds)]
       /\ \A d \in Clients :
             /\ WantsSnaps(c)[d] <= latest_snapid'[d] /\ latest_snapid'[d] <= next_snapid'
             /\ Below(latest_snapid'[d], sent'[d])
             /\ \A id : Contains(sent[d], id) => Contains(sent'[d], id)
             /\ d \in R => Has(sent'[d], logged_in_user[d], WantsSnaps(c)[d])
  BY <1>2, <1>4, <1>7, <1>8, <1>9, <1>10, <1>11, SentFacts DEF IndInv
<1>13. /\ to_userid' \in [SnapIds -> Users \cup {NoUser}]
       /\ from_userid' \in [SnapIds -> Users \cup {NoUser}]
       /\ logged_in_user[c] \in Users
  BY <1>2 DEF IndInv, TypeOK
<1>14. TypeOK'
  BY <1>2, <1>4, <1>8, <1>12, <1>13 DEF IndInv, TypeOK, login_vars
<1>15. Numbered'
  BY <1>12 DEF Numbered
<1>16. Known'
  <2>. SUFFICES ASSUME NEW id \in SnapIds, id < next_snapid'
                PROVE  to_userid'[id] \in Users /\ from_userid'[id] \in Users
    BY DEF Known
  <2>1. id = next_snapid \/ (id # next_snapid /\ id < next_snapid)
    BY <1>2, <1>4 DEF SnapIds
  <2>. QED
    BY <1>2, <1>4, <1>13, <2>1 DEF IndInv, TypeOK, Known
<1>17. Asked'
  <2>. SUFFICES ASSUME NEW d \in Clients, asked'[d]
                PROVE  /\ d \in chatclients'
                       /\ latest_snapid'[d] >= 0
                       /\ \A k \in 1 .. Len(snaps') :
                             snaps'[k] # NoSnap /\ to_userid'[snaps'[k]] = logged_in_user'[d] =>
                                Contains(sent'[d], snaps'[k])
    BY DEF Asked
  <2>1. /\ asked[d] /\ logged_in_user' = logged_in_user /\ chatclients' = chatclients
        /\ d \in chatclients /\ latest_snapid[d] >= 0
    BY <1>2 DEF IndInv, Asked, login_vars
  <2>2. /\ latest_snapid[d] \in Int /\ WantsSnaps(c)[d] = latest_snapid[d]
        /\ latest_snapid'[d] \in Int /\ latest_snapid'[d] >= 0
    <3>1. latest_snapid[d] \in -1 .. MaxSnaps + 1
      BY DEF IndInv, TypeOK
    <3>2. latest_snapid[d] \in Int /\ latest_snapid'[d] \in Int
      BY <1>1, <1>12, <3>1
    <3>3. WantsSnaps(c)[d] = latest_snapid[d]
      BY <1>9, <2>1, <3>2
    <3>4. latest_snapid[d] <= latest_snapid'[d]
      BY <1>12, <3>3
    <3>. QED
      BY <2>1, <3>2, <3>3, <3>4
  <2>3. ASSUME NEW k \in 1 .. Len(snaps'), snaps'[k] # NoSnap, to_userid'[snaps'[k]] = logged_in_user[d]
        PROVE  Contains(sent'[d], snaps'[k])
    <3>1. \/ snaps'[k] = next_snapid
          \/ k \in 1 .. Len(SnapsAfterDelete) /\ snaps'[k] = SnapsAfterDelete[k]
      <4>1. next_snapid \in Ids
        BY <1>4 DEF Ids
      <4>. QED
        BY <1>2, <1>3, <4>1, AppendProperties
    <3>2. CASE snaps'[k] = next_snapid
      <4>1. to_userid'[next_snapid] = u
        BY <1>2, <1>4 DEF IndInv, TypeOK
      <4>2. d \in R
        BY <2>1, <2>2, <2>3, <3>2, <4>1 DEF R
      <4>3. snaps'[k] >= WantsSnaps(c)[d]
        <5>1. latest_snapid[d] <= next_snapid /\ next_snapid \in Int
          BY <1>4 DEF IndInv, Numbered, SnapIds
        <5>. QED
          BY <2>2, <3>2, <5>1
      <4>4. logged_in_user[d] \in {to_userid'[snaps'[k]], from_userid'[snaps'[k]]}
        BY <2>3
      <4>. QED
        BY <1>12, <2>3, <4>2, <4>3, <4>4 DEF Has
    <3>3. CASE k \in 1 .. Len(SnapsAfterDelete) /\ snaps'[k] = SnapsAfterDelete[k]
      <4>1. PICK j \in 1 .. Len(snaps) : snaps[j] = snaps'[k]
        BY <1>3, <2>3, <3>3
      <4>2. snaps[j] # next_snapid
        <5>1. snaps[j] < next_snapid /\ next_snapid \in Int
          BY <1>4, <2>3, <4>1 DEF IndInv, Queue, SnapIds
        <5>. QED
          BY <5>1
      <4>3. snaps[j] \in SnapIds
        BY <2>3, <4>1 DEF IndInv, TypeOK, Ids
      <4>4. to_userid[snaps[j]] = logged_in_user[d]
        BY <1>2, <2>3, <4>1, <4>2, <4>3 DEF IndInv, TypeOK
      <4>5. Contains(sent[d], snaps[j])
        BY <2>1, <2>3, <4>1, <4>4 DEF IndInv, Asked
      <4>. QED
        BY <1>12, <4>1, <4>5
    <3>. QED
      BY <3>1, <3>2, <3>3
  <2>. QED
    BY <2>1, <2>2, <2>3
<1>. QED
  BY <1>7, <1>14, <1>15, <1>16, <1>17 DEF IndInv

LEMMA ReadSnapStep ==
    ASSUME IndInv, NEW c \in Clients, NEW id \in SnapIds, ReadSnap(c, id)
    PROVE  IndInv'
<1>1. /\ snaps' = SnapsAfterDelete /\ has_text' = TextAfterDelete
      /\ UNCHANGED <<next_snapid, snap_vars, login_vars, latest_snapid, sent, now, asked>>
  BY DEF ReadSnap
<1>2. /\ snaps' \in Seq(Ids) /\ has_text' \in [SnapIds -> BOOLEAN]
      /\ Queue(snaps', has_text', next_snapid, dateexpired, now)
      /\ \A k \in 1 .. Len(snaps') : snaps'[k] # NoSnap => \E j \in 1 .. Len(snaps) : snaps[j] = snaps'[k]
  BY <1>1, DeletedFacts DEF IndInv
<1>3. /\ shows_received' \in [SnapIds -> BOOLEAN]
      /\ messages_to_send' \in [Clients -> Seq(SnapIds)]
      /\ reading' \in Reading \cup {NotReading}
  <2>1. CASE Contains(SnapsAfterDelete, id) /\ logged_in_user[c] \in {from_userid[id], to_userid[id]}
    <3>1. /\ SetDateReceived(id)
          /\ messages_to_send' = [messages_to_send EXCEPT ![c] = Append(@, id)]
          /\ \E first \in chatclients :
                reading' = [snapid |-> id, item |-> first,
                            userid |-> IF logged_in_user[c] = from_userid[id]
                                       THEN to_userid[id] ELSE from_userid[id]]
      BY <2>1 DEF ReadSnap
    <3>2. id < next_snapid
      <4>1. PICK k \in 1 .. Len(snaps') : snaps'[k] = id
        BY <1>1, <2>1 DEF Contains
      <4>2. id # NoSnap
        BY DEF SnapIds, NoSnap
      <4>. QED
        BY <1>2, <4>1, <4>2 DEF Queue
    <3>3. to_userid[id] \in Users /\ from_userid[id] \in Users
      BY <3>2 DEF IndInv, Known
    <3>4. reading' \in Reading
      BY <3>1, <3>3 DEF IndInv, TypeOK, Reading
    <3>5. Append(messages_to_send[c], id) \in Seq(SnapIds)
      <4>1. messages_to_send[c] \in Seq(SnapIds)
        BY DEF IndInv, TypeOK
      <4>. QED
        BY <4>1, AppendProperties
    <3>6. messages_to_send' \in [Clients -> Seq(SnapIds)]
      BY <3>1, <3>5 DEF IndInv, TypeOK
    <3>7. shows_received' \in [SnapIds -> BOOLEAN]
      <4>. DEFINE shown == shows_received[id] \/ Characters(now) <= FieldLength
      <4>1. shows_received' = [shows_received EXCEPT ![id] = shown]
        BY <3>1 DEF SetDateReceived
      <4>2. shown \in BOOLEAN
        BY DEF IndInv, TypeOK
      <4>. HIDE DEF shown
      <4>. QED
        BY <4>1, <4>2 DEF IndInv, TypeOK
    <3>. QED
      BY <3>4, <3>6, <3>7
  <2>2. CASE ~(Contains(SnapsAfterDelete, id) /\ logged_in_user[c] \in {from_userid[id], to_userid[id]})
    BY <2>2 DEF ReadSnap, IndInv, TypeOK
  <2>. QED
    BY <2>1, <2>2
<1>4. TypeOK'
  BY <1>1, <1>2, <1>3 DEF IndInv, TypeOK, snap_vars, login_vars
<1>5. Queue(snaps', has_text', next_snapid', dateexpired', now')
  BY <1>1, <1>2 DEF snap_vars
<1>6. Numbered' /\ Known'
  BY <1>1 DEF IndInv, Numbered, Known, snap_vars
<1>7. Asked'
  <2>. SUFFICES ASSUME NEW d \in Clients, asked[d]
                PROVE  /\ d \in chatclients /\ latest_snapid[d] >= 0
                       /\ \A k \in 1 .. Len(snaps') :
                             snaps'[k] # NoSnap /\ to_userid[snaps'[k]] = logged_in_user[d] =>
                                Contains(sent[d], snaps'[k])
    BY <1>1 DEF Asked, snap_vars, login_vars
  <2>. QED
    BY <1>2 DEF IndInv, Asked
<1>. QED
  BY <1>4, <1>5, <1>6, <1>7 DEF IndInv

LEMMA SendSnapRefusedStep ==
    ASSUME IndInv, NEW c \in Clients, SendSnapRefused(c)
    PROVE  IndInv'
<1>1. latest_snapid' = WantsSnaps(c) /\ UNCHANGED <<queue_vars, login_vars, messages_to_send, sent, reading, now, asked>>
  BY DEF SendSnapRefused
<1>2. MaxSnaps \in Nat
  BY SnapsAssumption
<1>3. /\ latest_snapid' \in [Clients -> -1 .. MaxSnaps + 1]
      /\ \A d \in Clients : latest_snapid'[d] = latest_snapid[d] \/ (latest_snapid[d] < 0 /\ latest_snapid'[d] = 0)
  <2>1. latest_snapid \in [Clients -> -1 .. MaxSnaps + 1] /\ 0 \in -1 .. MaxSnaps + 1
    BY <1>2 DEF IndInv, TypeOK
  <2>. QED
    BY <1>1, <2>1 DEF WantsSnaps
<1>4. TypeOK'
  BY <1>1, <1>3 DEF IndInv, TypeOK, queue_vars, snap_vars, text_vars, login_vars
<1>5. Queue(snaps', has_text', next_snapid', dateexpired', now')
  BY <1>1 DEF IndInv, queue_vars, snap_vars, text_vars
<1>6. Numbered'
  <2>. SUFFICES ASSUME NEW d \in Clients
                PROVE  latest_snapid'[d] <= next_snapid /\ Below(latest_snapid'[d], sent[d])
    BY <1>1 DEF Numbered, queue_vars
  <2>1. latest_snapid[d] <= next_snapid /\ Below(latest_snapid[d], sent[d])
    BY DEF IndInv, Numbered
  <2>2. latest_snapid[d] \in Int /\ next_snapid >= 0
    BY <1>2 DEF IndInv, TypeOK
  <2>3. \A i \in 1 .. Len(sent[d]) : sent[d][i] \in Int
    <3>1. \A i \in 1 .. Len(sent[d]) : sent[d][i] \in SnapIds
      BY DEF IndInv, TypeOK
    <3>. QED
      BY <3>1 DEF SnapIds
  <2>4. CASE latest_snapid[d] < 0 /\ latest_snapid'[d] = 0
    BY <2>1, <2>2, <2>3, <2>4 DEF Below
  <2>. QED
    BY <1>3, <2>1, <2>4
<1>7. Asked'
  <2>1. \A d \in Clients : asked[d] => latest_snapid'[d] >= 0
    BY <1>3 DEF IndInv, Asked
  <2>. QED
    BY <1>1, <2>1 DEF IndInv, Asked, queue_vars, snap_vars, login_vars
<1>8. Known'
  BY <1>1 DEF IndInv, Known, queue_vars, snap_vars
<1>. QED
  BY <1>4, <1>5, <1>6, <1>7, <1>8 DEF IndInv

LEMMA TickStep ==
    ASSUME IndInv, Tick
    PROVE  IndInv'
<1>1. /\ now < StartTime + MaxTime /\ now' = now + 1
      /\ UNCHANGED <<queue_vars, login_vars, delivery_vars, reading, asked>>
  BY DEF Tick
<1>2. StartTime \in Nat /\ MaxTime \in Nat /\ MaxLength \in Nat
  BY SnapsAssumption
<1>3. now \in Int /\ now' \in Times
  <2>1. now \in StartTime .. StartTime + MaxTime
    BY DEF IndInv, TypeOK, Times
  <2>. QED
    BY <1>1, <1>2, <2>1 DEF Times
<1>4. \A id \in SnapIds : dateexpired[id] \in Int
  <2>1. \A id \in SnapIds : dateexpired[id] \in {0} \cup StartTime .. StartTime + MaxTime + MaxLength
    BY DEF IndInv, TypeOK
  <2>. QED
    BY <1>2, <2>1
<1>5. \A id \in SnapIds : dateexpired[id] > now' => dateexpired[id] > now
  BY <1>1, <1>3, <1>4
<1>6. Queue(snaps', has_text', next_snapid', dateexpired', now')
  <2>1. Queue(snaps, has_text, next_snapid, dateexpired, now')
    BY <1>5 DEF IndInv, Queue
  <2>. QED
    BY <1>1, <2>1 DEF queue_vars, snap_vars, text_vars
<1>7. TypeOK'
  BY <1>1, <1>3 DEF IndInv, TypeOK, queue_vars, snap_vars, text_vars, login_vars, delivery_vars
<1>8. Numbered' /\ Asked' /\ Known'
  BY <1>1 DEF IndInv, Numbered, Asked, Known, queue_vars, snap_vars, login_vars, delivery_vars
<1>. QED
  BY <1>6, <1>7, <1>8 DEF IndInv

LEMMA StepInv == IndInv /\ [Next]_vars => IndInv'
<1>. SUFFICES ASSUME IndInv, [Next]_vars PROVE IndInv'
  OBVIOUS
<1>1. CASE UNCHANGED vars
  <2>1. UNCHANGED <<queue_vars, latest_snapid, now, sent, asked, logged_in_user, chatclients>>
    BY <1>1 DEF vars, login_vars, delivery_vars
  <2>2. TypeOK'
    BY <1>1 DEF IndInv, TypeOK, vars, queue_vars, snap_vars, text_vars, login_vars, delivery_vars
  <2>. QED
    BY <2>1, <2>2, QuietStep DEF IndInv, Asked
<1>2. ASSUME NEW c \in Clients, NEW u \in Users, Login(c, u) PROVE IndInv'
  <2>1. /\ UNCHANGED <<queue_vars, chatclients, delivery_vars, reading, now>>
        /\ logged_in_user' = [logged_in_user EXCEPT ![c] = u]
        /\ asked' = [asked EXCEPT ![c] = FALSE]
    BY <1>2 DEF Login
  <2>2. TypeOK'
    BY <2>1 DEF IndInv, TypeOK, queue_vars, snap_vars, text_vars, delivery_vars
  <2>3. UNCHANGED <<queue_vars, latest_snapid, now, sent, chatclients>>
    BY <2>1 DEF delivery_vars
  <2>4. \A d \in Clients : asked'[d] => asked[d] /\ logged_in_user'[d] = logged_in_user[d]
    BY <2>1 DEF IndInv, TypeOK
  <2>. QED
    BY <2>2, <2>3, <2>4, QuietStep DEF IndInv, Asked
<1>3. ASSUME NEW c \in Clients, Logout(c) PROVE IndInv'
  <2>1. /\ UNCHANGED <<queue_vars, chatclients, delivery_vars, reading, now>>
        /\ logged_in_user' = [logged_in_user EXCEPT ![c] = NoUser]
        /\ asked' = [asked EXCEPT ![c] = FALSE]
    BY <1>3 DEF Logout
  <2>2. TypeOK'
    BY <2>1 DEF IndInv, TypeOK, queue_vars, snap_vars, text_vars, delivery_vars
  <2>3. UNCHANGED <<queue_vars, latest_snapid, now, sent, chatclients>>
    BY <2>1 DEF delivery_vars
  <2>4. \A d \in Clients : asked'[d] => asked[d] /\ logged_in_user'[d] = logged_in_user[d]
    BY <2>1 DEF IndInv, TypeOK
  <2>. QED
    BY <2>2, <2>3, <2>4, QuietStep DEF IndInv, Asked
<1>4. ASSUME NEW c \in Clients, CloseConnection(c) PROVE IndInv'
  <2>1. /\ UNCHANGED <<queue_vars, latest_snapid, reading, now>>
        /\ chatclients' = chatclients \ {c}
        /\ logged_in_user' = [logged_in_user EXCEPT ![c] = NoUser]
        /\ messages_to_send' = [messages_to_send EXCEPT ![c] = << >>]
        /\ asked' = [asked EXCEPT ![c] = FALSE]
        /\ sent' = [sent EXCEPT ![c] = << >>]
    BY <1>4 DEF CloseConnection
  <2>2. << >> \in Seq(SnapIds)
    OBVIOUS
  <2>3. TypeOK'
    BY <2>1, <2>2 DEF IndInv, TypeOK, queue_vars, snap_vars, text_vars
  <2>4. \A d \in Clients : /\ sent'[d] \in {sent[d], << >>}
                           /\ asked'[d] => /\ asked[d] /\ sent'[d] = sent[d]
                                           /\ logged_in_user'[d] = logged_in_user[d]
                                           /\ d \in chatclients'
    <3>1. \A d \in Clients : asked'[d] => asked[d] /\ d # c
      BY <2>1 DEF IndInv, TypeOK
    <3>2. \A d \in Clients : d # c => sent'[d] = sent[d] /\ logged_in_user'[d] = logged_in_user[d]
      BY <2>1 DEF IndInv, TypeOK
    <3>3. sent'[c] = << >>
      BY <2>1 DEF IndInv, TypeOK
    <3>4. \A d \in Clients : asked[d] /\ d # c => d \in chatclients'
      BY <2>1 DEF IndInv, Asked
    <3>. QED
      BY <3>1, <3>2, <3>3, <3>4
  <2>. QED
    BY <2>1, <2>3, <2>4, QuietStep
<1>5. ASSUME NEW c \in Clients, Writeable(c) PROVE IndInv'
  <2>1. /\ messages_to_send[c] # << >>
        /\ messages_to_send' = [messages_to_send EXCEPT ![c] = Tail(@)]
        /\ UNCHANGED <<queue_vars, login_vars, latest_snapid, sent, reading, now, asked>>
    BY <1>5 DEF Writeable
  <2>2. Tail(messages_to_send[c]) \in Seq(SnapIds)
    BY <2>1 DEF IndInv, TypeOK
  <2>3. TypeOK'
    BY <2>1, <2>2 DEF IndInv, TypeOK, queue_vars, snap_vars, text_vars, login_vars
  <2>. QED
    BY <2>1, <2>3, QuietStep DEF IndInv, Asked, login_vars
<1>6. ASSUME Resend PROVE IndInv'
  <2>1. /\ reading \in Reading
        /\ messages_to_send' = [messages_to_send EXCEPT ![reading.item] = Append(@, reading.snapid)]
        /\ UNCHANGED <<queue_vars, login_vars, latest_snapid, sent, reading, now, asked>>
    BY <1>6 DEF Resend, IndInv, TypeOK
  <2>2. Append(messages_to_send[reading.item], reading.snapid) \in Seq(SnapIds)
    <3>1. reading.item \in Clients /\ reading.snapid \in SnapIds
      BY <2>1 DEF Reading
    <3>2. messages_to_send[reading.item] \in Seq(SnapIds)
      BY <3>1 DEF IndInv, TypeOK
    <3>. QED
      BY <3>1, <3>2, AppendProperties
  <2>3. messages_to_send' \in [Clients -> Seq(SnapIds)]
    BY <2>1, <2>2 DEF IndInv, TypeOK
  <2>4. TypeOK'
    BY <2>1, <2>3 DEF IndInv, TypeOK, queue_vars, snap_vars, text_vars, login_vars
  <2>. QED
    BY <2>1, <2>4, QuietStep DEF IndInv, Asked, login_vars
<1>. QED
  BY <1>1, <1>2, <1>3, <1>4, <1>5, <1>6, GetSnapsStep, SendSnapStep, ReadSnapStep,
     SendSnapRefusedStep, TickStep DEF Next

THEOREM Inductive == Spec => []IndInv
BY InitInv, StepInv, PTL DEF Spec

-----------------------------------------------------------------------------
(* What the runs check of two snaps, for any number.                       *)

(* A connection that asked for its user's snaps has been sent each one     *)
(* that is in the queue (README.md:80).                                    *)
THEOREM SnapsAlwaysArrive == Spec => []SnapsArrive
<1>1. IndInv => SnapsArrive
  <2>. SUFFICES ASSUME IndInv, NEW c \in Clients, asked[c],
                       NEW id \in Range(snaps) \ {NoSnap}, to_userid[id] = logged_in_user[c]
                PROVE  Contains(sent[c], id)
    BY DEF SnapsArrive
  <2>1. PICK k \in 1 .. Len(snaps) : snaps[k] = id
    BY DEF IndInv, TypeOK, Range
  <2>. QED
    BY <2>1 DEF IndInv, Asked
<1>. QED
  BY <1>1, Inductive, PTL

(* It is sent none twice, and an older one never after a newer one.        *)
THEOREM SnapsInOrderOnce == Spec => []InOrderOnce
<1>1. IndInv => InOrderOnce
  BY DEF IndInv, Numbered, Below, InOrderOnce
<1>. QED
  BY <1>1, Inductive, PTL

(* delete_old_snaps keeps every snap that has time left.                   *)
THEOREM SnapsKept == Spec => []KeptUntilExpired
<1>1. IndInv => KeptUntilExpired
  <2>. SUFFICES ASSUME IndInv, NEW id \in 1 .. next_snapid - 1, dateexpired[id] > now
                PROVE  Contains(snaps, id) /\ has_text[id]
    BY DEF KeptUntilExpired
  <2>1. id \in SnapIds /\ id # NoSnap
    BY SnapsAssumption DEF IndInv, TypeOK, SnapIds, NoSnap
  <2>2. PICK k \in 1 .. Len(snaps) : snaps[k] = id
    BY <2>1 DEF IndInv, Queue
  <2>. QED
    BY <2>1, <2>2 DEF IndInv, Queue, Contains
<1>. QED
  BY <1>1, Inductive, PTL

(* A deleted snap that still waits in the queue of a connection has lost   *)
(* its text, unless it was deleted from in front of all that are left.     *)
THEOREM DeletedTextInFront == Spec => []TextKeptOnlyInFront
<1>1. IndInv => TextKeptOnlyInFront
  <2>. SUFFICES ASSUME IndInv, NEW c \in Clients, NEW id \in Range(messages_to_send[c]),
                       ~Contains(snaps, id), has_text[id],
                       NEW k \in 1 .. Len(snaps), snaps[k] # NoSnap
                PROVE  snaps[k] > id
    BY DEF TextKeptOnlyInFront
  <2>1. id \in SnapIds
    <3>1. messages_to_send[c] \in Seq(SnapIds)
      BY DEF IndInv, TypeOK
    <3>. QED
      BY <3>1, RangeOfSeq
  <2>. QED
    BY <2>1 DEF IndInv, Queue, Contains
<1>. QED
  BY <1>1, Inductive, PTL
=============================================================================
