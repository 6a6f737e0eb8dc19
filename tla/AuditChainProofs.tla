--------------------------- MODULE AuditChainProofs ---------------------------
(***************************************************************************)
(* What holds of the audit log for any number of writers, whatever they    *)
(* record, however often it is edited: nordfir's own processes leave it in *)
(* order, verify_audit tells exactly the logs that are in order, and what  *)
(* an edit can do without being told.                                      *)
(*                                                                         *)
(* The first argument is about the writer between BEGIN IMMEDIATE and its  *)
(* commit, and what it knows of the head (ChainInv).  The second one is    *)
(* about the loop of verify_audit, row by row.  The third one rests on the *)
(* fact that in a log in order every hash is the contents of the chain up  *)
(* to it (HashIsChain), and that no edit makes a new hash (NoNewHash).     *)
(*                                                                         *)
(* Facts about every row of a log, or every number, are proved from the    *)
(* least one they would fail for (LeastNumber).                            *)
(***************************************************************************)
EXTENDS AuditChain, FiniteSetTheorems, WellFoundedInduction, SequenceTheorems, TLAPS

\* The lock belongs to the one writer inside a transaction.
LockHeld == \A w \in Writers : pc[w] \in {"head", "commit"} => lock = w

\* The row about to be committed follows the row that is the last one now.
RowFollows ==
  \A w \in Writers : pc[w] = "commit" =>
    row[w] = Row(content[w], audit_head(table), _hash(audit_head(table), content[w]))

\* What was noted outside the machine is the chain as it was then.
AnchorIsChain ==
  /\ anchor = anchored
  /\ damages = 0 => anchor \in {GENESIS} \cup {table[i].hash : i \in Hashed(table)}

ChainInv ==
  /\ TypeOK /\ LockHeld /\ RowFollows /\ LogChained
  /\ before \in Seq(Rows) /\ since \in Seq(Contents) /\ anchored \in Seq(Contents)

\* The first k rows are in order, and the first n of them have no hash.
ChainedTo(rows, k, n) ==
  /\ \A i \in 1..n : rows[i].hash = None
  /\ \A i \in (n+1)..k :
       /\ rows[i].hash # None
       /\ rows[i].prev_hash = IF i = n + 1 THEN GENESIS ELSE rows[i-1].hash
       /\ rows[i].hash = _hash(rows[i].prev_hash, rows[i].content)

\* What verify_audit has to say of them.
ReportOf(rows, k, n) ==
  [error |-> None, checked |-> k - n, legacy |-> n,
   head |-> IF n = k THEN GENESIS ELSE rows[k].hash]

-------------------------------------------------------------------------------
(* Numbers, and the loop over the rows *)

\* The ordering of the subsets of a finite set stands in for induction.
LEMMA LeastNumber ==
  ASSUME NEW T \in SUBSET Nat, T # {}
  PROVE  \E m \in T : \A k \in T : m <= k
<1>1. PICK n \in T : TRUE
  OBVIOUS
<1> DEFINE R == StrictSubsetOrdering(0..n)
           S == SUBSET (0..n)
           U == {0..(i-1) : i \in {j \in T : j <= n}}
<1>2. IsWellFoundedOn(R, S)
  <2>1. IsFiniteSet(0..n)
    BY <1>1, FS_Interval
  <2> QED
    BY <2>1, FS_FiniteSubsetsOfFinite, FS_StrictSubsetOrderingWellFounded
<1>3. U \subseteq S /\ 0..(n-1) \in U
  BY <1>1
<1> HIDE DEF R, S
<1>4. PICK x \in U : \A y \in U : <<y, x>> \notin R
  BY <1>2, <1>3, WFMin
<1>5. PICK m \in T : m <= n /\ x = 0..(m-1)
  BY <1>4
<1>6. ASSUME NEW k \in T, k < m PROVE FALSE
  <2>1. k <= n /\ k \in Nat /\ m \in Nat /\ n \in Nat
    BY <1>1, <1>5, <1>6
  <2>2. 0..(k-1) \in U
    BY <2>1
  <2>3. 0..(k-1) \subseteq 0..(m-1) /\ 0..(k-1) # 0..(m-1)
    <3>1. k \in 0..(m-1) /\ k \notin 0..(k-1)
      BY <1>6, <2>1
    <3> QED
      BY <1>6, <2>1, <3>1
  <2>4. 0..(k-1) \in SUBSET (0..n) /\ 0..(m-1) \in SUBSET (0..n)
    BY <1>5, <2>1
  <2> QED
    BY <1>4, <1>5, <2>2, <2>3, <2>4 DEF R, StrictSubsetOrdering
<1> QED
  BY <1>6

\* One step of the recursion by which FoldLeft is defined.
Iterate(rows, g, s) ==
  IF s = {} THEN NothingChecked ELSE Check(g[s \ {Max(s)}], rows[Max(s)])

LEMMA FoldUnfolds ==
  \A rows : verify_audit(rows) =
    (CHOOSE g : g = [s \in SUBSET DOMAIN rows |-> Iterate(rows, g, s)])[DOMAIN rows]
BY DEF verify_audit, FoldLeft, MapThenFoldSet, Iterate

LEMMA MaxIs ==
  ASSUME NEW s \in SUBSET Int, NEW m \in s, \A k \in s : k <= m
  PROVE  Max(s) = m
<1>1. Max(s) \in s /\ \A k \in s : Max(s) >= k
  BY DEF Max
<1>2. m \in Int /\ Max(s) \in Int /\ Max(s) <= m /\ m <= Max(s)
  BY <1>1
<1> HIDE DEF Max
<1> QED
  BY <1>2

\* The recursion does define a function.
LEMMA FoldExists ==
  ASSUME NEW rows, NEW n \in Nat
  PROVE  \E g : g = [s \in SUBSET (1..n) |-> Iterate(rows, g, s)]
<1> DEFINE Defines(g, k) == g = [s \in SUBSET (1..k) |-> Iterate(rows, g, s)]
           T == {k \in Nat : ~\E g : Defines(g, k)}
<1> SUFFICES ASSUME T # {} PROVE FALSE
  OBVIOUS
<1>1. PICK k \in T : \A j \in T : k <= j
  BY LeastNumber
<1>2. CASE k = 0
  <2> DEFINE g == [s \in SUBSET (1..k) |-> NothingChecked]
  <2>1. \A s \in SUBSET (1..k) : s = {}
    BY <1>2
  <2>2. Defines(g, k)
    BY <2>1 DEF Iterate
  <2> QED
    BY <1>1, <2>2
<1>3. CASE k # 0
  <2>1. k \in Nat /\ k - 1 \in Nat /\ k - 1 \notin T
    <3>1. T \in SUBSET Nat
      OBVIOUS
    <3> HIDE DEF T
    <3>2. k \in Nat /\ k - 1 \in Nat /\ ~(k <= k - 1)
      BY <1>1, <1>3, <3>1
    <3> QED
      BY <1>1, <3>2
  <2>2. PICK h : Defines(h, k - 1)
    BY <2>1
  <2> DEFINE g == [s \in SUBSET (1..k) |-> IF k \in s THEN Check(h[s \ {k}], rows[k]) ELSE h[s]]
  <2>3. ASSUME NEW s \in SUBSET (1..k) PROVE g[s] = Iterate(rows, g, s)
    <3>1. CASE k \in s
      <4>1. Max(s) = k
        <5>1. s \in SUBSET Int /\ \A j \in s : j <= k
          BY <2>1
        <5> QED
          BY <3>1, <5>1, MaxIs
      <4>2. g[s \ {k}] = h[s \ {k}]
        OBVIOUS
      <4> QED
        BY <3>1, <4>1, <4>2 DEF Iterate
    <3>2. CASE k \notin s
      <4>1. s \in SUBSET (1..(k-1))
        BY <2>1, <3>2
      <4>2. g[s] = Iterate(rows, h, s)
        BY <2>2, <3>2, <4>1
      <4>3. g[s \ {Max(s)}] = h[s \ {Max(s)}]
        BY <3>2
      <4> QED
        BY <4>2, <4>3 DEF Iterate
    <3> QED
      BY <3>1, <3>2
  <2>4. Defines(g, k)
    BY <2>3
  <2> QED
    BY <1>1, <2>4
<1> QED
  BY <1>2, <1>3

\* verify_audit goes through the rows one by one.
LEMMA VerifyGoesThrough ==
  ASSUME NEW rows \in Seq(Rows)
  PROVE  \E report :
           /\ report[0] = NothingChecked
           /\ \A i \in 1..Len(rows) : report[i] = Check(report[i-1], rows[i])
           /\ verify_audit(rows) = report[Len(rows)]
<1> DEFINE n == Len(rows)
           g == CHOOSE g : g = [s \in SUBSET (1..n) |-> Iterate(rows, g, s)]
           report == [i \in 0..n |-> g[1..i]]
<1>1. n \in Nat /\ DOMAIN rows = 1..n
  OBVIOUS
<1>2. g = [s \in SUBSET (1..n) |-> Iterate(rows, g, s)]
  BY <1>1, FoldExists
<1>3. verify_audit(rows) = g[1..n]
  BY <1>1, FoldUnfolds, Zenon
<1> HIDE DEF g
<1>4. report[0] = NothingChecked
  <2>1. 1..0 = {} /\ {} \in SUBSET (1..n)
    OBVIOUS
  <2>2. g[{}] = NothingChecked
    BY <1>2, <2>1 DEF Iterate
  <2> QED
    BY <1>1, <2>1, <2>2
<1>5. ASSUME NEW i \in 1..n PROVE report[i] = Check(report[i-1], rows[i])
  <2>1. i \in Nat /\ i >= 1 /\ i <= n
    BY <1>1
  <2>2. 1..i \in SUBSET (1..n) /\ 1..i # {} /\ (1..i) \ {i} = 1..(i-1)
    BY <1>1, <2>1
  <2>3. Max(1..i) = i
    <3>1. 1..i \in SUBSET Int /\ i \in 1..i /\ \A k \in 1..i : k <= i
      BY <2>1
    <3> QED
      BY <3>1, MaxIs
  <2>4. g[1..i] = Check(g[1..(i-1)], rows[i])
    BY <1>2, <2>2, <2>3 DEF Iterate
  <2>5. i \in 0..n /\ i - 1 \in 0..n
    BY <1>1, <2>1
  <2> QED
    BY <2>4, <2>5
<1>6. verify_audit(rows) = report[n]
  BY <1>1, <1>3
<1> HIDE DEF report
<1> WITNESS report
<1> QED
  BY <1>4, <1>5, <1>6

-------------------------------------------------------------------------------
(* The head *)

\* The hash of the last row that has one, or GENESIS.
LEMMA HeadIsHash ==
  ASSUME NEW rows \in Seq(Rows)
  PROVE  /\ audit_head(rows) \in {GENESIS} \cup {rows[i].hash : i \in Hashed(rows)}
         /\ audit_head(rows) \in Seq(Contents)
<1>1. CASE Hashed(rows) = {}
  BY <1>1 DEF audit_head, GENESIS
<1>2. CASE Hashed(rows) # {}
  <2> DEFINE T == {Len(rows) - i : i \in Hashed(rows)}
             newest == CHOOSE i \in Hashed(rows) : \A j \in Hashed(rows) : j <= i
  <2>1. \A i \in Hashed(rows) : i \in 1..Len(rows) /\ rows[i].hash # None /\ rows[i] \in Rows
    BY DEF Hashed
  <2>2. T \in SUBSET Nat /\ T # {}
    BY <1>2, <2>1
  <2>3. PICK m \in T : \A k \in T : m <= k
    BY <2>2, LeastNumber
  <2>4. PICK i \in Hashed(rows) : m = Len(rows) - i
    BY <2>3
  <2>5. ASSUME NEW j \in Hashed(rows) PROVE j <= i
    <3>1. Len(rows) - j \in T /\ i \in Nat /\ j \in Nat /\ Len(rows) \in Nat
      BY <2>1
    <3> HIDE DEF T
    <3>2. Len(rows) - i <= Len(rows) - j
      BY <2>3, <2>4, <3>1
    <3> QED
      BY <3>1, <3>2
  <2>6. newest \in Hashed(rows)
    BY <2>5
  <2>7. audit_head(rows) = rows[newest].hash
    BY <1>2 DEF audit_head
  <2> HIDE DEF newest
  <2> QED
    BY <2>1, <2>6, <2>7 DEF Rows, Digests
<1> QED
  BY <1>1, <1>2

\* The rows with a hash, and the head, of a log in order.
LEMMA OfChained ==
  ASSUME NEW rows \in Seq(Rows), NEW n \in 0..Len(rows), ChainedTo(rows, Len(rows), n)
  PROVE  /\ Hashed(rows) = (n+1)..Len(rows)
         /\ Cardinality(Hashed(rows)) = Len(rows) - n
         /\ audit_head(rows) = IF n = Len(rows) THEN GENESIS ELSE rows[Len(rows)].hash
<1>1. Len(rows) \in Nat /\ n \in Nat /\ n <= Len(rows) /\ DOMAIN rows = 1..Len(rows)
  OBVIOUS
<1>2. Hashed(rows) = (n+1)..Len(rows)
  BY <1>1 DEF Hashed, ChainedTo
<1>3. Cardinality(Hashed(rows)) = Len(rows) - n
  <2>1. Cardinality((n+1)..Len(rows)) = IF n + 1 > Len(rows) THEN 0 ELSE Len(rows) - (n+1) + 1
    <3>1. n + 1 \in Int /\ Len(rows) \in Int
      BY <1>1
    <3> QED
      BY <3>1, FS_Interval
  <2> QED
    BY <1>1, <1>2, <2>1
<1>4. CASE n = Len(rows)
  <2>1. Hashed(rows) = {}
    BY <1>1, <1>2, <1>4
  <2> QED
    BY <1>2, <1>3, <1>4, <2>1 DEF audit_head
<1>5. CASE n # Len(rows)
  <2> DEFINE newest == CHOOSE i \in Hashed(rows) : \A j \in Hashed(rows) : j <= i
  <2>1. Len(rows) \in Hashed(rows) /\ \A j \in Hashed(rows) : j \in Nat /\ j <= Len(rows)
    <3>1. n \in Nat /\ Len(rows) \in Nat /\ n <= Len(rows) /\ n # Len(rows)
      BY <1>1, <1>5
    <3>2. n + 1 <= Len(rows)
      BY <3>1
    <3> QED
      BY <1>2, <3>1, <3>2
  <2>2. newest \in Hashed(rows) /\ \A j \in Hashed(rows) : j <= newest
    BY <2>1
  <2>3. newest = Len(rows)
    BY <1>1, <2>1, <2>2
  <2>4. audit_head(rows) = rows[Len(rows)].hash
    BY <2>1, <2>3 DEF audit_head
  <2> QED
    BY <1>2, <1>3, <1>5, <2>4
<1> QED
  BY <1>4, <1>5

-------------------------------------------------------------------------------
(* What verify_audit reports *)

LEMMA ChainedIs ==
  \A rows : Chained(rows) <=> \E n \in 0..Len(rows) : ChainedTo(rows, Len(rows), n)
BY DEF Chained, ChainedTo

\* What one row more makes of it.
LEMMA OneRowMore ==
  ASSUME NEW rows, NEW k \in Nat, NEW n \in 0..(k+1)
  PROVE  ChainedTo(rows, k + 1, n) <=>
           \/ /\ n = k + 1
              /\ ChainedTo(rows, k, k)
              /\ rows[k+1].hash = None
           \/ /\ n # k + 1
              /\ ChainedTo(rows, k, n)
              /\ rows[k+1].hash # None
              /\ rows[k+1].prev_hash = IF n = k THEN GENESIS ELSE rows[k].hash
              /\ rows[k+1].hash = _hash(rows[k+1].prev_hash, rows[k+1].content)
<1>1. CASE n = k + 1
  <2>1. \A i \in 1..(k+1) : i \in 1..k \/ i = k + 1
    OBVIOUS
  <2>2. (n+1)..(k+1) = {} /\ (k+1)..k = {}
    BY <1>1
  <2> QED
    BY <1>1, <2>1, <2>2 DEF ChainedTo
<1>2. CASE n # k + 1
  <2>1. \A i : i \in (n+1)..(k+1) <=> i \in (n+1)..k \/ i = k + 1
    BY <1>2
  <2>2. k + 1 = n + 1 <=> n = k
    BY <1>2
  <2>3. k + 1 - 1 = k
    OBVIOUS
  <2> QED
    BY <1>2, <2>1, <2>2, <2>3 DEF ChainedTo
<1> QED
  BY <1>1, <1>2

LEMMA RightReport ==
  ASSUME NEW rows, NEW k \in Nat, NEW n \in 0..k, ChainedTo(rows, k, n),
         NEW after, after = Check(ReportOf(rows, k, n), rows[k+1])
  PROVE  \/ /\ after.error = None
            /\ \E m \in 0..(k+1) : ChainedTo(rows, k + 1, m) /\ after = ReportOf(rows, k + 1, m)
         \/ /\ after.error # None
            /\ \A m \in 0..(k+1) : ~ChainedTo(rows, k + 1, m)
<1> DEFINE r == rows[k+1]
           head == IF n = k THEN GENESIS ELSE rows[k].hash
           follows == r.prev_hash = head /\ r.hash = _hash(r.prev_hash, r.content)
<1>0. k \in Nat /\ n \in Nat /\ n <= k
  OBVIOUS
<1>c. None \notin {"lost its hash", "chain broken", "modified"}
  BY NoneIsNoError
<1> HIDE DEF r, head, follows
<1>1. /\ ReportOf(rows, k, n).error = None
      /\ ReportOf(rows, k, n).checked = k - n
      /\ ReportOf(rows, k, n).legacy = n
      /\ ReportOf(rows, k, n).head = head
  BY DEF ReportOf, head
<1>2. ASSUME NEW m \in 0..(k+1), ChainedTo(rows, k + 1, m)
      PROVE  \/ m = k + 1 /\ n = k /\ r.hash = None
             \/ m = n /\ r.hash # None /\ follows
  <2>1. CASE m = k + 1
    <3>1. ChainedTo(rows, k, k) /\ r.hash = None
      BY <1>2, <2>1, OneRowMore DEF r
    <3>2. n = k
      <4>1. n < k => n + 1 \in (n+1)..k /\ n + 1 \in 1..k
        BY <1>0
      <4>2. ~(n < k)
        BY <3>1, <4>1 DEF ChainedTo
      <4> QED
        BY <1>0, <4>2
    <3> QED
      BY <2>1, <3>1, <3>2
  <2>2. CASE m # k + 1
    <3>1. /\ ChainedTo(rows, k, m) /\ r.hash # None
          /\ r.prev_hash = IF m = k THEN GENESIS ELSE rows[k].hash
          /\ r.hash = _hash(r.prev_hash, r.content)
      BY <1>2, <2>2, OneRowMore DEF r
    <3>2. m = n
      <4>3. m \in Nat /\ m <= k
        BY <1>0, <2>2
      <4>1. m < n => m + 1 \in (m+1)..k /\ m + 1 \in 1..n
        BY <1>0, <4>3
      <4>2. n < m => n + 1 \in (n+1)..k /\ n + 1 \in 1..m
        BY <1>0, <4>3
      <4>4. ~(m < n) /\ ~(n < m)
        BY <3>1, <4>1, <4>2 DEF ChainedTo
      <4> QED
        BY <1>0, <4>3, <4>4
    <3> QED
      BY <3>1, <3>2 DEF follows, head
  <2> QED
    BY <2>1, <2>2
<1>3. CASE r.hash = None
  <2>1. CASE n = k
    <3>1. Inconsistency(ReportOf(rows, k, n), r) = None
      <4>1. ~(ReportOf(rows, k, n).checked > 0)
        BY <1>0, <1>1, <2>1
      <4> QED
        BY <1>3, <4>1 DEF Inconsistency
    <3>2. after = [ReportOf(rows, k, n) EXCEPT !.legacy = n + 1]
      BY <1>1, <1>3, <3>1 DEF Check, Counted, r
    <3>3. after = ReportOf(rows, k + 1, k + 1)
      BY <1>0, <2>1, <3>2 DEF ReportOf
    <3>4. ChainedTo(rows, k + 1, k + 1) /\ k + 1 \in 0..(k+1)
      BY <1>0, <1>3, <2>1, OneRowMore DEF r
    <3>5. after.error = None
      BY <3>3 DEF ReportOf
    <3> QED
      BY <3>3, <3>4, <3>5
  <2>2. CASE n # k
    <3>1. Inconsistency(ReportOf(rows, k, n), r) = "lost its hash"
      <4>1. ReportOf(rows, k, n).checked > 0
        BY <1>0, <1>1, <2>2
      <4> QED
        BY <1>3, <4>1 DEF Inconsistency
    <3>2. after.error = "lost its hash"
      BY <1>1, <1>c, <3>1 DEF Check, ReportOf, r
    <3> QED
      BY <1>2, <1>3, <1>c, <2>2, <3>2
  <2> QED
    BY <2>1, <2>2
<1>4. CASE r.hash # None /\ follows
  <2>1. Inconsistency(ReportOf(rows, k, n), r) = None
    BY <1>1, <1>4 DEF Inconsistency, follows
  <2>2. after = [ReportOf(rows, k, n) EXCEPT !.head = r.hash, !.checked = k - n + 1]
    BY <1>1, <1>4, <2>1 DEF Check, Counted, r
  <2>3. after = ReportOf(rows, k + 1, n)
    <3>1. k - n + 1 = k + 1 - n /\ n # k + 1
      BY <1>0
    <3>2. after = [error |-> None, checked |-> k - n + 1, legacy |-> n, head |-> r.hash]
      BY <2>2 DEF ReportOf
    <3>3. ReportOf(rows, k + 1, n) =
            [error |-> None, checked |-> k + 1 - n, legacy |-> n, head |-> r.hash]
      BY <3>1 DEF ReportOf, r
    <3> QED
      BY <3>1, <3>2, <3>3
  <2>4. ChainedTo(rows, k + 1, n) /\ n \in 0..(k+1)
    BY <1>0, <1>4, OneRowMore DEF r, follows, head
  <2>5. after.error = None
    BY <2>3 DEF ReportOf
  <2> QED
    BY <2>3, <2>4, <2>5
<1>5. CASE r.hash # None /\ ~follows
  <2>1. Inconsistency(ReportOf(rows, k, n), r) \in {"chain broken", "modified"}
    BY <1>1, <1>5 DEF Inconsistency, follows
  <2>2. after.error # None
    BY <1>1, <1>c, <2>1 DEF Check, ReportOf, r
  <2> QED
    BY <1>2, <1>5, <2>2
<1> QED
  BY <1>3, <1>4, <1>5

\* verify_audit reports on every log what it should (verify_audit).
LEMMA VerifyIsRight ==
  ASSUME NEW rows \in Seq(Rows)
  PROVE  \/ /\ ok(rows)
            /\ \E n \in 0..Len(rows) :
                 ChainedTo(rows, Len(rows), n) /\ verify_audit(rows) = ReportOf(rows, Len(rows), n)
         \/ ~ok(rows) /\ ~Chained(rows)
<1>1. PICK report :
        /\ report[0] = NothingChecked
        /\ \A i \in 1..Len(rows) : report[i] = Check(report[i-1], rows[i])
        /\ verify_audit(rows) = report[Len(rows)]
  BY VerifyGoesThrough
<1> DEFINE Right(k) ==
      \/ /\ report[k].error = None
         /\ \E n \in 0..k : ChainedTo(rows, k, n) /\ report[k] = ReportOf(rows, k, n)
      \/ /\ report[k].error # None
         /\ \A n \in 0..k : ~ChainedTo(rows, k, n)
           T == {k \in 0..Len(rows) : ~Right(k)}
<1>2. Len(rows) \in Nat
  OBVIOUS
<1>3. T = {}
  <2> SUFFICES ASSUME T # {} PROVE FALSE
    OBVIOUS
  <2>1. T \in SUBSET Nat
    BY <1>2
  <2>2. PICK k \in T : \A j \in T : k <= j
    BY <2>1, LeastNumber
  <2>3. k \in 0..Len(rows) /\ ~Right(k)
    BY <2>2
  <2>4. k # 0 => Right(k - 1)
    <3>1. k # 0 => k - 1 \in 0..Len(rows) /\ ~(k <= k - 1)
      BY <1>2, <2>3
    <3>2. k # 0 => k - 1 \notin T
      BY <2>2, <3>1
    <3> QED
      BY <3>1, <3>2
  <2> HIDE DEF T
  <2>5. CASE k = 0
    <3>1. report[0] = ReportOf(rows, 0, 0) /\ report[0].error = None
      BY <1>1 DEF NothingChecked, ReportOf
    <3>2. ChainedTo(rows, 0, 0)
      BY DEF ChainedTo
    <3> QED
      BY <2>3, <2>5, <3>1, <3>2
  <2>6. CASE k # 0
    <3> DEFINE j == k - 1
    <3>1. j \in Nat /\ k = j + 1 /\ k \in 1..Len(rows)
      BY <2>3, <2>6
    <3>2. report[k] = Check(report[j], rows[k])
      BY <1>1, <3>1
    <3>3. Right(j)
      BY <2>4, <2>6
    <3> HIDE DEF j
    <3>4. CASE report[j].error = None
      <4>1. PICK n \in 0..j : ChainedTo(rows, j, n) /\ report[j] = ReportOf(rows, j, n)
        BY <3>3, <3>4
      <4>2. report[k] = Check(ReportOf(rows, j, n), rows[j+1])
        BY <3>1, <3>2, <4>1
      <4>3. Right(j + 1)
        BY <3>1, <4>1, <4>2, RightReport
      <4> QED
        BY <2>3, <3>1, <4>3
    <3>5. CASE report[j].error # None
      <4>1. report[k] = report[j]
        BY <3>2, <3>5 DEF Check
      <4>2. ASSUME NEW n \in 0..(j+1) PROVE ~ChainedTo(rows, j + 1, n)
        <5>1. \A m \in 0..j : ~ChainedTo(rows, j, m)
          BY <3>3, <3>5
        <5>2. j \in 0..j /\ (n # j + 1 => n \in 0..j)
          BY <3>1
        <5> QED
          BY <3>1, <5>1, <5>2, OneRowMore
      <4>3. Right(j + 1)
        BY <3>1, <3>5, <4>1, <4>2
      <4> QED
        BY <2>3, <3>1, <4>3
    <3> QED
      BY <3>4, <3>5
  <2> QED
    BY <2>5, <2>6
<1>4. Right(Len(rows))
  <2>1. Len(rows) \in 0..Len(rows)
    BY <1>2
  <2> QED
    BY <1>3, <2>1
<1> QED
  BY <1>1, <1>4, ChainedIs DEF ok

LEMMA OkIsChained == \A rows \in Seq(Rows) : ok(rows) <=> Chained(rows)
BY VerifyIsRight, ChainedIs

LEMMA VerifyCounts ==
  ASSUME NEW rows \in Seq(Rows), ok(rows)
  PROVE  /\ verify_audit(rows).head = audit_head(rows)
         /\ verify_audit(rows).checked = Cardinality(Hashed(rows))
         /\ verify_audit(rows).legacy = Len(rows) - Cardinality(Hashed(rows))
<1>1. PICK n \in 0..Len(rows) :
        ChainedTo(rows, Len(rows), n) /\ verify_audit(rows) = ReportOf(rows, Len(rows), n)
  BY VerifyIsRight
<1>2. /\ Cardinality(Hashed(rows)) = Len(rows) - n
      /\ audit_head(rows) = IF n = Len(rows) THEN GENESIS ELSE rows[Len(rows)].hash
  BY <1>1, OfChained
<1>3. /\ verify_audit(rows).head = audit_head(rows)
      /\ verify_audit(rows).checked = Len(rows) - n
      /\ verify_audit(rows).legacy = n
  BY <1>1, <1>2 DEF ReportOf
<1>4. Len(rows) - (Len(rows) - n) = n
  OBVIOUS
<1> QED
  BY <1>2, <1>3, <1>4

-------------------------------------------------------------------------------
(* The writers *)

\* A row that follows the head of a log in order, and only that, leaves it in order.
LEMMA ChainGrows ==
  ASSUME NEW rows \in Seq(Rows), Chained(rows),
         NEW what \in Contents,
         NEW r, r = Row(what, audit_head(rows), _hash(audit_head(rows), what))
  PROVE  Chained(Append(rows, r))
<1>1. PICK n \in 0..Len(rows) : ChainedTo(rows, Len(rows), n)
  BY ChainedIs
<1>2. /\ audit_head(rows) = IF n = Len(rows) THEN GENESIS ELSE rows[Len(rows)].hash
      /\ audit_head(rows) \in Seq(Contents)
  BY <1>1, OfChained, HeadIsHash
<1>3. /\ r.content = what /\ r.prev_hash = audit_head(rows)
      /\ r.hash = _hash(r.prev_hash, r.content) /\ r.hash # None
  <2>1. Append(audit_head(rows), what) \in Seq(Contents)
    BY <1>2
  <2> QED
    BY <2>1, AuditChainAssumption DEF Row, _hash
<1> DEFINE longer == Append(rows, r)
<1>4. /\ Len(rows) \in Nat /\ Len(longer) = Len(rows) + 1 /\ longer[Len(rows) + 1] = r
      /\ \A i \in 1..Len(rows) : longer[i] = rows[i]
  OBVIOUS
<1> HIDE DEF longer
<1>5. ChainedTo(longer, Len(rows), n)
  <2>1. \A i \in 1..n : i \in 1..Len(rows)
    BY <1>4
  <2>2. \A i \in (n+1)..Len(rows) : i \in 1..Len(rows) /\ (i # n + 1 => i - 1 \in 1..Len(rows))
    BY <1>4
  <2> QED
    BY <1>1, <1>4, <2>1, <2>2 DEF ChainedTo
<1>6. n # Len(rows) => longer[Len(rows)] = rows[Len(rows)]
  BY <1>4
<1>7. n \in 0..(Len(rows) + 1) /\ n # Len(rows) + 1
  BY <1>4
<1>8. ChainedTo(longer, Len(rows) + 1, n)
  <2>1. /\ longer[Len(rows) + 1].hash # None
        /\ longer[Len(rows) + 1].prev_hash =
             IF n = Len(rows) THEN GENESIS ELSE longer[Len(rows)].hash
        /\ longer[Len(rows) + 1].hash =
             _hash(longer[Len(rows) + 1].prev_hash, longer[Len(rows) + 1].content)
    BY <1>2, <1>3, <1>4, <1>6
  <2> QED
    BY <1>4, <1>5, <1>7, <2>1, OneRowMore
<1> QED
  BY <1>4, <1>7, <1>8, ChainedIs DEF longer

LEMMA RowIsTyped ==
  ASSUME NEW prev \in Seq(Contents), NEW what \in Contents
  PROVE  Row(what, prev, _hash(prev, what)) \in Rows
<1>1. Append(prev, what) \in Seq(Contents)
  OBVIOUS
<1> QED
  BY <1>1 DEF Row, Rows, Digests, _hash

\* An edit leaves rows, and makes no hash that was not there.
LEMMA NoNewHash ==
  ASSUME NEW rows \in Seq(Rows), NEW edited \in Edits(rows)
  PROVE  /\ edited \in Seq(Rows)
         /\ \A i \in DOMAIN edited :
              edited[i].hash # None => \E j \in DOMAIN rows : edited[i].hash = rows[j].hash
<1>1. /\ Len(rows) \in Nat /\ DOMAIN rows = 1..Len(rows) /\ \A i \in DOMAIN rows : rows[i] \in Rows
  OBVIOUS
<1>2. CASE edited \in Removals(rows)
  <2>1. PICK n \in 0..Len(rows) : \E f \in [1..n -> DOMAIN rows] :
          edited = [i \in 1..n |-> rows[f[i]]]
    BY <1>2 DEF Removals
  <2> QED
    BY <1>1, <2>1
<1>3. CASE edited \in Strippings(rows)
  <2>1. PICK bare \in SUBSET DOMAIN rows :
          edited = [i \in DOMAIN rows |-> IF i \in bare THEN Stripped(rows[i]) ELSE rows[i]]
    BY <1>3 DEF Strippings
  <2>2. \A r \in Rows : Stripped(r) \in Rows /\ Stripped(r).hash = None
    BY DEF Stripped, Rows, Digests
  <2>3. \A i \in DOMAIN rows :
          edited[i] \in Rows /\ (edited[i].hash = None \/ edited[i].hash = rows[i].hash)
    BY <1>1, <2>1, <2>2
  <2>4. DOMAIN edited = 1..Len(rows) /\ edited \in [1..Len(rows) -> Rows]
    BY <1>1, <2>1, <2>3
  <2>5. edited \in Seq(Rows)
    BY <1>1, <2>4
  <2> QED
    BY <1>1, <2>3, <2>4, <2>5
<1>4. CASE edited \in Rewritings(rows)
  <2>1. PICK i \in DOMAIN rows, what \in Contents : edited = [rows EXCEPT ![i].content = what]
    BY <1>4 DEF Rewritings
  <2> DEFINE r == [rows[i] EXCEPT !.content = what]
  <2>2. edited = [rows EXCEPT ![i] = r]
    BY <2>1
  <2>3. r \in Rows /\ r.hash = rows[i].hash
    BY <1>1 DEF Rows
  <2> HIDE DEF r
  <2>4. edited \in Seq(Rows) /\ DOMAIN edited = DOMAIN rows
    BY <1>1, <2>2, <2>3
  <2>5. \A j \in DOMAIN rows : edited[j] = IF j = i THEN r ELSE rows[j]
    BY <2>2
  <2> QED
    BY <2>3, <2>4, <2>5
<1>5. CASE edited \in Exchanges(rows)
  BY <1>1, <1>5 DEF Exchanges
<1> QED
  BY <1>2, <1>3, <1>4, <1>5 DEF Edits

LEMMA ChainIsTyped ==
  ASSUME NEW rows \in Seq(Rows), Chained(rows) PROVE Chain(rows) \in Seq(Contents)
<1>1. PICK n \in 0..Len(rows) : ChainedTo(rows, Len(rows), n)
  BY ChainedIs
<1>2. Cardinality(Hashed(rows)) = Len(rows) - n
  BY <1>1, OfChained
<1>3. Len(rows) \in Nat /\ Len(rows) - n \in Nat
  OBVIOUS
<1>4. \A i \in 1..(Len(rows) - n) : rows[Len(rows) - (Len(rows) - n) + i].content \in Contents
  <2>1. \A i \in 1..(Len(rows) - n) : Len(rows) - (Len(rows) - n) + i \in 1..Len(rows)
    BY <1>3
  <2>2. \A i \in 1..Len(rows) : rows[i] \in Rows
    OBVIOUS
  <2> QED
    BY <2>1, <2>2 DEF Rows
<1> QED
  BY <1>2, <1>3, <1>4 DEF Chain

LEMMA ChainStarts == Init => ChainInv
<1> SUFFICES ASSUME Init PROVE ChainInv
  OBVIOUS
<1>1. PICK n \in 0..MaxLegacy : \E old \in [1..n -> Contents] :
        table = [i \in 1..n |-> Row(old[i], None, None)]
  BY DEF Init
<1>2. n \in Nat
  BY AuditChainAssumption
<1>3. table \in Seq(Rows) /\ Len(table) = n /\ \A i \in 1..n : table[i].hash = None
  BY <1>1, <1>2 DEF Row, Rows, Digests
<1>4. Chained(table)
  BY <1>2, <1>3 DEF Chained
<1>5. TypeOK
  BY <1>3, AuditChainAssumption DEF Init, TypeOK, GENESIS
<1>6. before \in Seq(Rows) /\ since \in Seq(Contents) /\ anchored \in Seq(Contents)
  BY DEF Init
<1> QED
  BY <1>4, <1>5, <1>6 DEF Init, ChainInv, LockHeld, RowFollows, LogChained

\* The row of a writer that commits.
LEMMA CommitsRow ==
  ASSUME ChainInv, NEW w \in Writers, Commit(w)
  PROVE  /\ content[w] \in Contents /\ row[w] \in Rows /\ row[w].content = content[w]
         /\ row[w] = Row(content[w], audit_head(table), _hash(audit_head(table), content[w]))
         /\ table' = Append(table, row[w])
<1>1. /\ content[w] \in Contents /\ table \in Seq(Rows)
      /\ row[w] = Row(content[w], audit_head(table), _hash(audit_head(table), content[w]))
  BY DEF Commit, ChainInv, TypeOK, RowFollows
<1>2. audit_head(table) \in Seq(Contents)
  BY <1>1, HeadIsHash
<1> QED
  BY <1>1, <1>2, RowIsTyped DEF Commit, Row

LEMMA ChainKept == ChainInv /\ [Next]_vars => ChainInv'
<1> SUFFICES ASSUME ChainInv, [Next]_vars PROVE ChainInv'
  OBVIOUS
<1> USE DEF ChainInv, LockHeld, RowFollows, LogChained
<1>1. ASSUME NEW w \in Writers, NEW what \in Contents, Call(w, what) PROVE ChainInv'
  BY <1>1 DEF Call, TypeOK, history
<1>2. ASSUME NEW w \in Writers, Begin(w) PROVE ChainInv'
  BY <1>2, AuditChainAssumption DEF Begin, TypeOK, history
<1>3. ASSUME NEW w \in Writers, Insert(w) PROVE ChainInv'
  <2>1. content[w] \in Contents /\ audit_head(table) \in Seq(Contents)
    BY <1>3, HeadIsHash DEF Insert, TypeOK
  <2>2. row'[w] \in Rows
    BY <1>3, <2>1, RowIsTyped DEF Insert, TypeOK
  <2> QED
    BY <1>3, <2>1, <2>2 DEF Insert, TypeOK, history
<1>4. ASSUME NEW w \in Writers, Commit(w) PROVE ChainInv'
  <2>1. /\ content[w] \in Contents /\ row[w] \in Rows /\ row[w].content = content[w]
        /\ row[w] = Row(content[w], audit_head(table), _hash(audit_head(table), content[w]))
    BY <1>4, CommitsRow
  <2>2. damages = 0 => Chained(Append(table, row[w]))
    BY <2>1, ChainGrows DEF TypeOK
  <2>3. \A v \in Writers : pc'[v] \notin {"head", "commit"}
    BY <1>4 DEF Commit, Leave, TypeOK
  <2>4. TypeOK'
    BY <1>4, <2>1 DEF Commit, Leave, TypeOK
  <2>5. since' \in Seq(Contents) /\ UNCHANGED <<before, anchored>>
    BY <1>4, <2>1 DEF Commit
  <2>6. LogChained'
    BY <1>4, <2>2 DEF Commit
  <2> QED
    BY <2>3, <2>4, <2>5, <2>6
<1>5. ASSUME NEW w \in Writers, Abandon(w) PROVE ChainInv'
  BY <1>5 DEF Abandon, Leave, TypeOK, history
<1>6. ASSUME NoteHead PROVE ChainInv'
  <2>1. audit_head(table) \in Seq(Contents)
    BY HeadIsHash DEF TypeOK
  <2>2. Chain(table) \in Seq(Contents)
    BY <1>6, ChainIsTyped, OkIsChained DEF NoteHead, TypeOK
  <2> QED
    BY <1>6, <2>1, <2>2 DEF NoteHead, TypeOK, writer
<1>7. ASSUME Edit PROVE ChainInv'
  <2>1. table' \in Seq(Rows)
    BY <1>7, NoNewHash DEF Edit, TypeOK
  <2>2. damages' \in 0..MaxDamage /\ damages' # 0
    BY <1>7, AuditChainAssumption DEF Edit, TypeOK
  <2>3. \A w \in Writers : pc[w] \notin {"head", "commit"}
    BY <1>7, AuditChainAssumption DEF Edit
  <2>4. TypeOK'
    BY <1>7, <2>1, <2>2 DEF Edit, TypeOK, writer
  <2>5. LockHeld' /\ RowFollows'
    BY <1>7, <2>3 DEF Edit, writer
  <2>6. before' \in Seq(Rows) /\ since' \in Seq(Contents) /\ anchored' \in Seq(Contents)
    BY <1>7 DEF Edit, TypeOK
  <2> QED
    BY <2>2, <2>4, <2>5, <2>6
<1>8. ASSUME UNCHANGED vars PROVE ChainInv'
  BY <1>8 DEF vars, writer, history, TypeOK
<1> QED
  BY <1>1, <1>2, <1>3, <1>4, <1>5, <1>6, <1>7, <1>8 DEF Next

LEMMA ChainAlways == Spec => []ChainInv
BY ChainStarts, ChainKept, PTL DEF Spec

\* For any number of writers and whatever they record: as long as the file is not
\* edited, the log is chained (record_audit, BEGIN IMMEDIATE).
THEOREM LogAlwaysChained == Spec => []LogChained
<1>1. ChainInv => LogChained
  BY DEF ChainInv
<1> QED
  BY ChainAlways, <1>1, PTL

\* The variables are always of their types, whatever was done to the file.
THEOREM AuditTypeCorrect == Spec => []TypeOK
<1>1. ChainInv => TypeOK
  BY DEF ChainInv
<1> QED
  BY ChainAlways, <1>1, PTL

\* verify_audit reports an error for exactly the logs that are not in order, of any
\* length and whatever was done to them, and it counts what there is (verify_audit).
THEOREM VerifyIsExact == Spec => []VerifiesWhatIsChained
<1>1. ChainInv => VerifiesWhatIsChained
  BY OkIsChained, VerifyCounts DEF ChainInv, TypeOK, VerifiesWhatIsChained, Legacy
<1> QED
  BY ChainAlways, <1>1, PTL

-------------------------------------------------------------------------------
(* What a hash covers *)

\* The contents of the rows that follow the first n, up to row i.
Contained(rows, n, i) == [j \in 1..(i - n) |-> rows[n + j].content]

LEMMA ContainedGrows ==
  ASSUME NEW rows \in Seq(Rows), NEW n \in 0..Len(rows), NEW i \in n..Len(rows)
  PROVE  /\ Contained(rows, n, i) \in Seq(Contents)
         /\ Len(Contained(rows, n, i)) = i - n
         /\ i > n => Contained(rows, n, i) =
                       Append(Contained(rows, n, i - 1), rows[i].content)
<1>1. Len(rows) \in Nat /\ n \in Nat /\ i \in Nat /\ i <= Len(rows) /\ n <= i
  OBVIOUS
<1>2. \A j \in 1..Len(rows) : rows[j].content \in Contents
  <2>1. \A j \in 1..Len(rows) : rows[j] \in Rows
    OBVIOUS
  <2> QED
    BY <2>1 DEF Rows
<1>3. ASSUME NEW m \in n..Len(rows)
      PROVE  Contained(rows, n, m) \in Seq(Contents) /\ Len(Contained(rows, n, m)) = m - n
  <2>1. m - n \in Nat /\ \A j \in 1..(m - n) : n + j \in 1..Len(rows)
    BY <1>1
  <2> QED
    BY <1>2, <2>1 DEF Contained
<1>4. ASSUME i > n
      PROVE  Contained(rows, n, i) = Append(Contained(rows, n, i - 1), rows[i].content)
  <2> DEFINE s == Contained(rows, n, i - 1)
             t == Contained(rows, n, i)
             a == Append(s, rows[i].content)
  <2>1. i - 1 \in n..Len(rows) /\ i \in 1..Len(rows)
    BY <1>1, <1>4
  <2>2. s \in Seq(Contents) /\ Len(s) = i - 1 - n /\ t \in Seq(Contents) /\ Len(t) = i - n
    BY <1>1, <1>3, <2>1
  <2>3. \A j \in 1..(i - n) : t[j] = rows[n + j].content
    BY DEF Contained
  <2>4. \A j \in 1..(i - 1 - n) : s[j] = rows[n + j].content
    BY DEF Contained
  <2> HIDE DEF s, t
  <2>5. /\ a \in Seq(Contents) /\ Len(a) = i - 1 - n + 1
        /\ \A j \in 1..(i - 1 - n) : a[j] = s[j]
        /\ a[i - 1 - n + 1] = rows[i].content
    BY <1>2, <2>1, <2>2
  <2> HIDE DEF a
  <2>6. i - 1 - n + 1 = i - n /\ n + (i - n) = i
    BY <1>1
  <2>7. ASSUME NEW j \in 1..(i - n) PROVE a[j] = t[j]
    <3>1. CASE j = i - n
      BY <2>3, <2>5, <2>6, <3>1
    <3>2. CASE j # i - n
      <4>1. j \in 1..(i - 1 - n)
        BY <1>1, <3>2
      <4> QED
        BY <2>3, <2>4, <2>5, <4>1
    <3> QED
      BY <3>1, <3>2
  <2>8. a = t
    BY <2>2, <2>5, <2>6, <2>7, SeqEqual
  <2> QED
    BY <2>8 DEF a, s, t
<1> QED
  BY <1>3, <1>4

\* In a log in order every hash is the contents of the chain up to it.
LEMMA HashIsChain ==
  ASSUME NEW rows \in Seq(Rows), NEW n \in 0..Len(rows), ChainedTo(rows, Len(rows), n)
  PROVE  \A i \in (n+1)..Len(rows) : rows[i].hash = Contained(rows, n, i)
<1> DEFINE T == {i \in (n+1)..Len(rows) : rows[i].hash # Contained(rows, n, i)}
<1> SUFFICES ASSUME T # {} PROVE FALSE
  OBVIOUS
<1>1. Len(rows) \in Nat /\ n \in Nat
  OBVIOUS
<1>2. T \in SUBSET Nat
  BY <1>1
<1>3. PICK i \in T : \A j \in T : i <= j
  BY <1>2, LeastNumber
<1>4. /\ i \in (n+1)..Len(rows) /\ rows[i].hash # Contained(rows, n, i)
      /\ i # n + 1 => rows[i-1].hash = Contained(rows, n, i - 1)
  <2>1. i \in (n+1)..Len(rows) /\ rows[i].hash # Contained(rows, n, i)
    OBVIOUS
  <2>2. i # n + 1 => i - 1 \in (n+1)..Len(rows) /\ ~(i <= i - 1)
    BY <1>1, <2>1
  <2> QED
    BY <1>3, <2>1, <2>2
<1> HIDE DEF T
<1>5. rows[i].hash = Append(rows[i].prev_hash, rows[i].content)
      /\ rows[i].prev_hash = IF i = n + 1 THEN GENESIS ELSE rows[i-1].hash
  BY <1>4 DEF ChainedTo, _hash
<1>6. Contained(rows, n, n) = <<>>
  <2>1. Contained(rows, n, n) \in Seq(Contents) /\ Len(Contained(rows, n, n)) = 0
    <3>1. n \in n..Len(rows) /\ n - n = 0
      BY <1>1
    <3> QED
      BY <3>1, ContainedGrows
  <2> QED
    BY <2>1, EmptySeq
<1>7. rows[i].prev_hash = Contained(rows, n, i - 1)
  <2>1. CASE i = n + 1
    <3>1. i - 1 = n
      BY <1>1, <2>1
    <3> QED
      BY <1>5, <1>6, <2>1, <3>1 DEF GENESIS
  <2>2. CASE i # n + 1
    BY <1>4, <1>5, <2>2
  <2> QED
    BY <2>1, <2>2
<1>8. i \in n..Len(rows) /\ i > n
  BY <1>1, <1>4
<1> QED
  BY <1>4, <1>5, <1>7, <1>8, ContainedGrows

\* So its head is the chain, and its hashes are the beginnings of the chain.
LEMMA HeadIsChain ==
  ASSUME NEW rows \in Seq(Rows), Chained(rows)
  PROVE  /\ audit_head(rows) = Chain(rows)
         /\ \A i \in Hashed(rows) : \E k \in 0..Len(Chain(rows)) :
              rows[i].hash = SubSeq(Chain(rows), 1, k)
<1>1. PICK n \in 0..Len(rows) : ChainedTo(rows, Len(rows), n)
  BY ChainedIs
<1>2. /\ Hashed(rows) = (n+1)..Len(rows)
      /\ Cardinality(Hashed(rows)) = Len(rows) - n
      /\ audit_head(rows) = IF n = Len(rows) THEN GENESIS ELSE rows[Len(rows)].hash
  BY <1>1, OfChained
<1>3. Len(rows) \in Nat /\ n \in Nat /\ n <= Len(rows)
  OBVIOUS
<1>4. Chain(rows) = Contained(rows, n, Len(rows))
  <2>1. Len(rows) - (Len(rows) - n) = n
    BY <1>3
  <2> QED
    BY <1>2, <2>1 DEF Chain, Contained
<1>5. Chain(rows) \in Seq(Contents) /\ Len(Chain(rows)) = Len(rows) - n
  <2>1. Len(rows) \in n..Len(rows)
    BY <1>3
  <2> QED
    BY <1>4, <2>1, ContainedGrows
<1>6. audit_head(rows) = Chain(rows)
  <2>1. CASE n = Len(rows)
    BY <1>2, <1>3, <1>5, <2>1, EmptySeq DEF GENESIS
  <2>2. CASE n # Len(rows)
    <3>1. Len(rows) \in (n+1)..Len(rows)
      BY <1>3, <2>2
    <3> QED
      BY <1>1, <1>2, <1>4, <2>2, <3>1, HashIsChain
  <2> QED
    BY <2>1, <2>2
<1>7. ASSUME NEW i \in (n+1)..Len(rows)
      PROVE  /\ i - n \in 0..Len(Chain(rows))
             /\ rows[i].hash = SubSeq(Chain(rows), 1, i - n)
  <2>1. i \in n..Len(rows) /\ i - n \in 0..(Len(rows) - n)
    BY <1>3
  <2>2. rows[i].hash = Contained(rows, n, i)
    BY <1>1, HashIsChain
  <2> DEFINE s == Contained(rows, n, i)
             c == Chain(rows)
  <2>3. s \in Seq(Contents) /\ Len(s) = i - n
    BY <2>1, ContainedGrows
  <2>4. \A j \in 1..(i - n) : s[j] = c[j]
    BY <1>3, <1>4, <2>1 DEF Contained
  <2> HIDE DEF s, c
  <2>5. /\ SubSeq(c, 1, i - n) \in Seq(Contents)
        /\ Len(SubSeq(c, 1, i - n)) = i - n
        /\ \A j \in 1..(i - n) : SubSeq(c, 1, i - n)[j] = c[j]
    <3>1. c \in Seq(Contents) /\ i - n \in 0..Len(c)
      BY <1>5, <2>1 DEF c
    <3> QED
      BY <3>1
  <2>6. s = SubSeq(c, 1, i - n)
    BY <2>3, <2>4, <2>5, SeqEqual
  <2> QED
    BY <1>5, <2>1, <2>2, <2>6 DEF s, c
<1> QED
  BY <1>2, <1>6, <1>7

\* A log that is in order was so before its last event.
LEMMA WasChained ==
  ASSUME NEW rows \in Seq(Rows), NEW r \in Rows, r.hash # None, Chained(Append(rows, r))
  PROVE  Chained(rows) /\ audit_head(Append(rows, r)) = r.hash
<1> DEFINE longer == Append(rows, r)
           k == Len(rows)
<1>1. /\ k \in Nat /\ longer \in Seq(Rows) /\ Len(longer) = k + 1 /\ longer[k + 1] = r
      /\ \A i \in 1..k : longer[i] = rows[i]
  OBVIOUS
<1>2. PICK n \in 0..(k + 1) : ChainedTo(longer, k + 1, n)
  BY <1>1, ChainedIs
<1> HIDE DEF longer
<1>3. ChainedTo(longer, k, n) /\ n # k + 1
  BY <1>1, <1>2, OneRowMore
<1>4. n \in 0..k
  BY <1>1, <1>3
<1>5. ChainedTo(rows, k, n)
  <2>1. \A i \in 1..n : i \in 1..k
    BY <1>1, <1>4
  <2>2. \A i \in (n+1)..k : i \in 1..k /\ (i # n + 1 => i - 1 \in 1..k)
    BY <1>1, <1>4
  <2> QED
    BY <1>1, <1>3, <2>1, <2>2 DEF ChainedTo
<1>6. audit_head(longer) = r.hash
  BY <1>1, <1>2, <1>3, OfChained
<1> QED
  BY <1>4, <1>5, <1>6, ChainedIs DEF longer

-------------------------------------------------------------------------------
(* What an edit can do without being told *)

\* What is left of the log that an edit found, in one that still verifies.
Untouched(rows, old, added) ==
  /\ Legacy(rows) <= Legacy(old)
  /\ \E k \in 0..Len(Chain(old)) : Chain(rows) = SubSeq(Chain(old), 1, k) \o added
Bare(rows, old, added) == Legacy(rows) = Len(old) /\ Chain(rows) = added

EditLeaves ==
  damages = 1 =>
    /\ Chained(before)
    /\ Chained(table) => Untouched(table, before, since) \/ Bare(table, before, since)

\* A log in order that was got from another one by leaving rows out, or by changing
\* their order or contents, has no more rows without a hash.
LEMMA NoFewerHashes ==
  ASSUME NEW rows \in Seq(Rows), Chained(rows), NEW edited \in Seq(Rows), Chained(edited),
         NEW f \in [DOMAIN edited -> DOMAIN rows],
         \A i, j \in DOMAIN edited : f[i] = f[j] => i = j,
         \A i \in DOMAIN edited : edited[i].hash = rows[f[i]].hash
  PROVE  Legacy(edited) <= Legacy(rows)
<1>1. PICK n \in 0..Len(rows) : ChainedTo(rows, Len(rows), n)
  BY ChainedIs
<1>2. PICK m \in 0..Len(edited) : ChainedTo(edited, Len(edited), m)
  BY ChainedIs
<1>3. /\ Hashed(rows) = (n+1)..Len(rows) /\ Cardinality(Hashed(rows)) = Len(rows) - n
      /\ Cardinality(Hashed(edited)) = Len(edited) - m
  BY <1>1, <1>2, OfChained
<1>4. /\ Len(rows) \in Nat /\ DOMAIN rows = 1..Len(rows) /\ n \in Nat
      /\ Len(edited) \in Nat /\ DOMAIN edited = 1..Len(edited) /\ m \in Nat /\ m <= Len(edited)
  OBVIOUS
<1>5. \A i \in 1..m : i \in DOMAIN edited /\ f[i] \in 1..n
  <2> TAKE i \in 1..m
  <2>1. i \in DOMAIN edited /\ edited[i].hash = None
    BY <1>2, <1>4 DEF ChainedTo
  <2>2. f[i] \in DOMAIN rows /\ f[i] \notin Hashed(rows)
    BY <2>1 DEF Hashed
  <2> QED
    BY <1>3, <1>4, <2>1, <2>2
<1> DEFINE g == [i \in 1..m |-> f[i]]
<1>6. g \in Injection(1..m, 1..n)
  BY <1>5 DEF Injection, IsInjective
<1>7. /\ IsFiniteSet(1..n)
      /\ Cardinality(1..n) = IF 1 > n THEN 0 ELSE n - 1 + 1
      /\ Cardinality(1..m) = IF 1 > m THEN 0 ELSE m - 1 + 1
  <2>1. 1 \in Int /\ n \in Int /\ m \in Int
    BY <1>4
  <2> QED
    BY <2>1, FS_Interval
<1> HIDE DEF g
<1>8. Cardinality(1..m) <= Cardinality(1..n)
  BY <1>6, <1>7, FS_Injection
<1>9. m <= n
  BY <1>4, <1>7, <1>8
<1> QED
  BY <1>3, <1>4, <1>9 DEF Legacy

\* A log in order from which hashes were stripped has all of them, or none.
LEMMA AllOrNoHashes ==
  ASSUME NEW rows \in Seq(Rows), Chained(rows),
         NEW edited \in Strippings(rows), edited \in Seq(Rows), Chained(edited)
  PROVE  \/ Legacy(edited) <= Legacy(rows)
         \/ Legacy(edited) = Len(rows) /\ Hashed(edited) = {}
<1>1. PICK n \in 0..Len(rows) : ChainedTo(rows, Len(rows), n)
  BY ChainedIs
<1>2. PICK m \in 0..Len(edited) : ChainedTo(edited, Len(edited), m)
  BY ChainedIs
<1>3. /\ Hashed(rows) = (n+1)..Len(rows) /\ Cardinality(Hashed(rows)) = Len(rows) - n
      /\ Hashed(edited) = (m+1)..Len(edited)
      /\ Cardinality(Hashed(edited)) = Len(edited) - m
  BY <1>1, <1>2, OfChained
<1>4. /\ Len(rows) \in Nat /\ DOMAIN rows = 1..Len(rows) /\ n \in Nat /\ n <= Len(rows)
      /\ m \in Nat /\ m <= Len(edited)
  OBVIOUS
<1>5. PICK bare \in SUBSET DOMAIN rows :
        edited = [i \in DOMAIN rows |-> IF i \in bare THEN Stripped(rows[i]) ELSE rows[i]]
  BY DEF Strippings
<1>6. /\ Len(edited) = Len(rows)
      /\ \A i \in DOMAIN rows : edited[i].hash # None => edited[i] = rows[i]
  <2>1. \A r \in Rows : Stripped(r).hash = None
    BY DEF Stripped, Rows, Digests
  <2>2. \A i \in DOMAIN rows : rows[i] \in Rows
    OBVIOUS
  <2>3. DOMAIN edited = 1..Len(rows)
    BY <1>4, <1>5
  <2>4. Len(edited) = Len(rows)
    BY <1>4, <2>3
  <2> QED
    BY <1>5, <2>1, <2>2, <2>4
<1> DEFINE length == Len(rows)
<1>7. /\ length \in Nat /\ m \in Nat /\ n \in Nat /\ m <= length /\ n <= length
      /\ Len(edited) = length /\ DOMAIN rows = 1..length
      /\ Hashed(edited) = (m+1)..length
      /\ Legacy(rows) = length - (length - n)
      /\ Legacy(edited) = length - (length - m)
  BY <1>3, <1>4, <1>6 DEF Legacy
<1>8. Legacy(rows) = n /\ Legacy(edited) = m
  BY <1>7
<1>9. ASSUME m # length, n < m PROVE FALSE
  <2>1. /\ m + 1 \in (m+1)..length /\ m + 1 \in 1..length /\ m + 1 \in (n+1)..length
        /\ m + 1 # n + 1 /\ (m + 1) - 1 = m /\ m \in (n+1)..length /\ m \in n..length
    BY <1>7, <1>9
  <2>2. edited[m+1].hash # None /\ edited[m+1].prev_hash = GENESIS
    BY <1>2, <1>7, <2>1 DEF ChainedTo
  <2>3. rows[m+1].prev_hash = GENESIS
    BY <1>6, <1>7, <2>1, <2>2
  <2>4. rows[m+1].prev_hash = rows[m].hash
    BY <1>1, <2>1 DEF ChainedTo
  <2>5. rows[m].hash = Contained(rows, n, m)
    BY <1>1, <2>1, HashIsChain
  <2>6. Len(Contained(rows, n, m)) = m - n
    BY <2>1, ContainedGrows
  <2>7. Len(GENESIS) = 0
    BY DEF GENESIS
  <2>8. m - n = 0
    BY <2>3, <2>4, <2>5, <2>6, <2>7
  <2> QED
    BY <1>7, <1>9, <2>8
<1>10. m = length => Hashed(edited) = {}
  BY <1>7
<1> HIDE DEF length
<1>11. m = length \/ m <= n
  BY <1>7, <1>9
<1> QED
  BY <1>8, <1>10, <1>11 DEF length

\* What an edit that is not told does to the hashes.
LEMMA EditedHashes ==
  ASSUME NEW rows \in Seq(Rows), Chained(rows), NEW edited \in Edits(rows), Chained(edited)
  PROVE  \/ Legacy(edited) <= Legacy(rows)
         \/ Legacy(edited) = Len(rows) /\ Hashed(edited) = {}
<1>1. edited \in Seq(Rows)
  BY NoNewHash
<1>2. /\ Len(rows) \in Nat /\ DOMAIN rows = 1..Len(rows) /\ \A i \in DOMAIN rows : rows[i] \in Rows
      /\ DOMAIN edited = 1..Len(edited)
  BY <1>1
<1>3. CASE edited \in Removals(rows)
  <2>0. PICK n \in 0..Len(rows) : \E f \in [1..n -> DOMAIN rows] :
          /\ \A i, j \in 1..n : i < j => f[i] < f[j]
          /\ edited = [i \in 1..n |-> rows[f[i]]]
    BY <1>3 DEF Removals
  <2>1. PICK f \in [1..n -> DOMAIN rows] :
          /\ \A i, j \in 1..n : i < j => f[i] < f[j]
          /\ edited = [i \in 1..n |-> rows[f[i]]]
    BY <2>0
  <2>2. n \in Nat /\ DOMAIN edited = 1..n
    BY <1>2, <2>1
  <2>3. \A i, j \in 1..n : f[i] = f[j] => i = j
    <3> TAKE i, j \in 1..n
    <3>1. i \in Nat /\ j \in Nat /\ f[i] \in Nat /\ f[j] \in Nat
      BY <1>2, <2>1, <2>2
    <3>2. (i < j => f[i] < f[j]) /\ (j < i => f[j] < f[i])
      BY <2>1
    <3> QED
      BY <3>1, <3>2
  <2> QED
    BY <1>1, <2>1, <2>2, <2>3, NoFewerHashes
<1>4. CASE edited \in Strippings(rows)
  BY <1>1, <1>4, AllOrNoHashes
<1>5. CASE edited \in Rewritings(rows)
  <2>1. PICK i \in DOMAIN rows, what \in Contents : edited = [rows EXCEPT ![i].content = what]
    BY <1>5 DEF Rewritings
  <2> DEFINE f == [j \in DOMAIN rows |-> j]
  <2>2. DOMAIN edited = DOMAIN rows /\ \A j \in DOMAIN rows : edited[j].hash = rows[j].hash
    <3>1. DOMAIN edited = DOMAIN rows
      BY <2>1
    <3> DEFINE r == [rows[i] EXCEPT !.content = what]
    <3>2. edited = [rows EXCEPT ![i] = r]
      BY <2>1
    <3>3. r.hash = rows[i].hash
      BY <1>2 DEF Rows
    <3> HIDE DEF r
    <3> QED
      BY <3>1, <3>2, <3>3
  <2>3. /\ f \in [DOMAIN edited -> DOMAIN rows]
        /\ \A j, k \in DOMAIN edited : f[j] = f[k] => j = k
        /\ \A j \in DOMAIN edited : edited[j].hash = rows[f[j]].hash
    BY <2>2
  <2> HIDE DEF f
  <2> QED
    BY <1>1, <2>3, NoFewerHashes
<1>6. CASE edited \in Exchanges(rows)
  <2>1. PICK i \in DOMAIN rows, j \in DOMAIN rows :
          edited = [rows EXCEPT ![i] = rows[j], ![j] = rows[i]]
    BY <1>6 DEF Exchanges
  <2> DEFINE f == [k \in DOMAIN rows |-> IF k = j THEN i ELSE IF k = i THEN j ELSE k]
  <2>2. DOMAIN edited = DOMAIN rows
    BY <2>1
  <2>3. \A k \in DOMAIN rows : edited[k] = rows[f[k]]
    BY <2>1
  <2>4. /\ f \in [DOMAIN edited -> DOMAIN rows]
        /\ \A k, l \in DOMAIN edited : f[k] = f[l] => k = l
        /\ \A k \in DOMAIN edited : edited[k].hash = rows[f[k]].hash
    BY <2>2, <2>3
  <2> HIDE DEF f
  <2> QED
    BY <1>1, <2>4, NoFewerHashes
<1> QED
  BY <1>3, <1>4, <1>5, <1>6 DEF Edits

\* An edit of a log in order that is not told has removed events from its end.
LEMMA EditRemoves ==
  ASSUME ChainInv, Edit, damages = 0, Chained(table')
  PROVE  \E k \in 0..Len(Chain(table)) : Chain(table') = SubSeq(Chain(table), 1, k)
<1>1. table \in Seq(Rows) /\ Chained(table) /\ table' \in Edits(table)
  BY DEF ChainInv, TypeOK, LogChained, Edit
<1> DEFINE edited == table'
<1> HIDE DEF edited
<1>2. edited \in Edits(table) /\ Chained(edited)
  BY <1>1 DEF edited
<1>3. /\ edited \in Seq(Rows)
      /\ \A i \in DOMAIN edited :
           edited[i].hash # None => \E j \in DOMAIN table : edited[i].hash = table[j].hash
  BY <1>1, <1>2, NoNewHash
<1>4. audit_head(edited) = Chain(edited)
  BY <1>2, <1>3, HeadIsChain
<1>5. audit_head(edited) \in {GENESIS} \cup {edited[i].hash : i \in Hashed(edited)}
  BY <1>3, HeadIsHash
<1>6. CASE audit_head(edited) = GENESIS
  <2>1. Chain(table) \in Seq(Contents) /\ SubSeq(Chain(table), 1, 0) = <<>>
    BY <1>1, ChainIsTyped, SubSeqEmpty
  <2>2. 0 \in 0..Len(Chain(table))
    BY <2>1
  <2> QED
    BY <1>4, <1>6, <2>1, <2>2 DEF GENESIS, edited
<1>7. CASE audit_head(edited) # GENESIS
  <2>1. PICK i \in Hashed(edited) : audit_head(edited) = edited[i].hash
    BY <1>5, <1>7
  <2>2. PICK j \in DOMAIN table : edited[i].hash = table[j].hash /\ table[j].hash # None
    BY <1>3, <2>1 DEF Hashed
  <2>3. \E k \in 0..Len(Chain(table)) : table[j].hash = SubSeq(Chain(table), 1, k)
    BY <1>1, <2>2, HeadIsChain DEF Hashed
  <2> QED
    BY <1>4, <2>1, <2>2, <2>3 DEF edited
<1> QED
  BY <1>6, <1>7

\* What is recorded after it comes on top.
LEMMA CommitAdds ==
  ASSUME ChainInv, NEW w \in Writers, Commit(w), Chained(table')
  PROVE  /\ Chained(table)
         /\ Chain(table') = Append(Chain(table), content[w])
         /\ Legacy(table') = Legacy(table)
<1>1. /\ content[w] \in Contents /\ row[w] \in Rows /\ row[w].content = content[w]
      /\ row[w] = Row(content[w], audit_head(table), _hash(audit_head(table), content[w]))
      /\ table' = Append(table, row[w])
  BY CommitsRow
<1>2. table \in Seq(Rows)
  BY DEF ChainInv, TypeOK
<1>3. row[w].hash = Append(audit_head(table), content[w]) /\ row[w].hash # None
  <2>1. row[w].hash = Append(audit_head(table), content[w])
    BY <1>1 DEF Row, _hash
  <2>2. Append(audit_head(table), content[w]) \in Seq(Contents)
    BY <1>1, <1>2, HeadIsHash
  <2> QED
    BY <2>1, <2>2, AuditChainAssumption
<1> DEFINE longer == Append(table, row[w])
<1>4. longer \in Seq(Rows) /\ Chained(longer)
  BY <1>1, <1>2
<1>5. Chained(table) /\ audit_head(longer) = row[w].hash
  BY <1>1, <1>2, <1>3, <1>4, WasChained
<1>6. audit_head(longer) = Chain(longer) /\ audit_head(table) = Chain(table)
  BY <1>2, <1>4, <1>5, HeadIsChain
<1>7. Legacy(longer) = Legacy(table)
  <2>1. /\ Len(table) \in Nat /\ Len(longer) = Len(table) + 1
        /\ DOMAIN table = 1..Len(table) /\ DOMAIN longer = 1..(Len(table) + 1)
        /\ longer[Len(table) + 1] = row[w]
        /\ \A i \in DOMAIN table : longer[i] = table[i]
    BY <1>1, <1>2
  <2> HIDE DEF longer
  <2>2. Hashed(longer) = Hashed(table) \cup {Len(table) + 1} /\ Len(table) + 1 \notin Hashed(table)
    BY <1>3, <2>1 DEF Hashed
  <2>3. IsFiniteSet(Hashed(table))
    <3>1. IsFiniteSet(1..Len(table)) /\ Hashed(table) \in SUBSET (1..Len(table))
      <4>1. 1 \in Int /\ Len(table) \in Int
        BY <2>1
      <4> QED
        BY <2>1, <4>1, FS_Interval DEF Hashed
    <3> QED
      BY <3>1, FS_Subset
  <2>4. /\ Cardinality(Hashed(table)) \in Nat
        /\ Cardinality(Hashed(longer)) = Cardinality(Hashed(table)) + 1
    BY <2>2, <2>3, FS_CardinalityType, FS_AddElement
  <2> QED
    BY <2>1, <2>4 DEF Legacy
<1> QED
  BY <1>1, <1>3, <1>5, <1>6, <1>7

LEMMA EditLeavesKept ==
  ChainInv /\ ChainInv' /\ EditLeaves /\ [Next]_vars => EditLeaves'
<1> SUFFICES ASSUME ChainInv, ChainInv', EditLeaves, [Next]_vars, damages' = 1 PROVE EditLeaves'
  BY DEF EditLeaves
<1>1. CASE UNCHANGED <<table, before, since, damages>>
  BY <1>1 DEF EditLeaves
<1>2. ASSUME NEW w \in Writers, Commit(w) PROVE EditLeaves'
  <2>1. damages = 1 /\ before' = before /\ Chained(before)
    BY <1>2 DEF Commit, EditLeaves
  <2>2. content[w] \in Contents /\ since' = Append(since, content[w])
    BY <1>2, <2>1, CommitsRow DEF Commit
  <2>3. ASSUME Chained(table')
        PROVE  Untouched(table', before, since') \/ Bare(table', before, since')
    <3>1. /\ Chained(table) /\ Chain(table') = Append(Chain(table), content[w])
          /\ Legacy(table') = Legacy(table)
      BY <1>2, <2>3, CommitAdds
    <3>2. CASE Untouched(table, before, since)
      <4>1. PICK k \in 0..Len(Chain(before)) : Chain(table) = SubSeq(Chain(before), 1, k) \o since
        BY <3>2 DEF Untouched
      <4>2. Chain(before) \in Seq(Contents) /\ since \in Seq(Contents)
        BY <2>1, ChainIsTyped DEF ChainInv
      <4> DEFINE s == SubSeq(Chain(before), 1, k)
      <4>3. s \in Seq(Contents)
        BY <4>2
      <4> HIDE DEF s
      <4>4. Append(s \o since, content[w]) = s \o Append(since, content[w])
        <5>1. <<content[w]>> \in Seq(Contents)
          BY <2>2
        <5>2. (s \o since) \o <<content[w]>> = s \o (since \o <<content[w]>>)
          BY <4>2, <4>3, <5>1, ConcatAssociative
        <5>3. s \o since \in Seq(Contents)
          BY <4>2, <4>3, ConcatProperties
        <5> QED
          BY <2>2, <4>2, <5>2, <5>3, AppendIsConcat
      <4>5. Chain(table') = SubSeq(Chain(before), 1, k) \o since'
        BY <2>2, <3>1, <4>1, <4>4 DEF s
      <4> QED
        BY <3>1, <3>2, <4>5 DEF Untouched
    <3>3. CASE Bare(table, before, since)
      BY <2>2, <3>1, <3>3 DEF Bare
    <3> QED
      BY <2>1, <3>1, <3>2, <3>3 DEF EditLeaves
  <2> QED
    BY <2>1, <2>3 DEF EditLeaves
<1>3. ASSUME Edit PROVE EditLeaves'
  <2>1. /\ damages = 0 /\ before' = table /\ since' = <<>> /\ Chained(table)
        /\ table \in Seq(Rows) /\ table' \in Edits(table)
    BY <1>3 DEF Edit, ChainInv, TypeOK, LogChained
  <2>2. ASSUME Chained(table')
        PROVE  Untouched(table', table, <<>>) \/ Bare(table', table, <<>>)
    <3>1. PICK k \in 0..Len(Chain(table)) : Chain(table') = SubSeq(Chain(table), 1, k)
      BY <1>3, <2>1, <2>2, EditRemoves
    <3>2. Chain(table) \in Seq(Contents)
      BY <2>1, ChainIsTyped
    <3>3. SubSeq(Chain(table), 1, k) \in Seq(Contents)
      BY <3>2
    <3>4. SubSeq(Chain(table), 1, k) \o <<>> = SubSeq(Chain(table), 1, k)
      BY <3>3, ConcatEmptySeq
    <3> DEFINE edited == table'
    <3>5. edited \in Edits(table) /\ Chained(edited)
      BY <2>1, <2>2
    <3> HIDE DEF edited
    <3>6. \/ Legacy(edited) <= Legacy(table)
          \/ Legacy(edited) = Len(table) /\ Hashed(edited) = {}
      BY <2>1, <3>5, EditedHashes
    <3>7. Hashed(edited) = {} => Chain(edited) = <<>>
      BY FS_EmptySet DEF Chain
    <3> QED
      BY <3>1, <3>4, <3>6, <3>7 DEF Untouched, Bare, edited
  <2> QED
    BY <2>1, <2>2 DEF EditLeaves
<1> QED
  BY <1>1, <1>2, <1>3
  DEF Next, Call, Begin, Insert, Abandon, NoteHead, history, writer, vars

\* What an edit can do without being told, of a log of any length: a log that verifies
\* after one edit is the log as it was but for events removed from its end, with all
\* that was recorded since, and counts no event of the chain as older; or the edit
\* stripped every hash, and the chain is what was recorded since (verify_audit,
\* record_audit).
THEOREM EditsAreTold == Spec => []EditTold
<1>1. Init => EditLeaves
  BY DEF Init, EditLeaves
<1>2. ChainInv /\ EditLeaves => EditTold
  BY OkIsChained DEF ChainInv, TypeOK, EditLeaves, EditTold, Untouched, Bare
<1> QED
  BY ChainAlways, <1>1, <1>2, EditLeavesKept, PTL DEF Spec

-------------------------------------------------------------------------------
(* The head that was noted *)

LEMMA AnchorStarts == Init => AnchorIsChain
BY DEF Init, AnchorIsChain, GENESIS

LEMMA AnchorKept == ChainInv /\ AnchorIsChain /\ [Next]_vars => AnchorIsChain'
<1> SUFFICES ASSUME ChainInv, AnchorIsChain, [Next]_vars PROVE AnchorIsChain'
  OBVIOUS
<1>1. CASE UNCHANGED <<table, anchor, anchored, damages>>
  BY <1>1 DEF AnchorIsChain, Hashed
<1>2. ASSUME NEW w \in Writers, Commit(w) PROVE AnchorIsChain'
  <2>1. UNCHANGED <<anchor, anchored, damages>> /\ table' = Append(table, row[w])
    BY <1>2 DEF Commit
  <2>2. /\ table \in Seq(Rows) /\ DOMAIN table = 1..Len(table)
        /\ DOMAIN Append(table, row[w]) = 1..(Len(table) + 1) /\ Len(table) \in Nat
        /\ \A i \in DOMAIN table : Append(table, row[w])[i] = table[i]
    BY DEF ChainInv, TypeOK
  <2>3. \A i \in Hashed(table) : i \in Hashed(table)' /\ table'[i].hash = table[i].hash
    BY <2>1, <2>2 DEF Hashed
  <2> QED
    BY <2>1, <2>3 DEF AnchorIsChain
<1>3. ASSUME NoteHead PROVE AnchorIsChain'
  <2>1. table \in Seq(Rows) /\ Chained(table)
    BY <1>3, OkIsChained DEF NoteHead, ChainInv, TypeOK
  <2>2. /\ audit_head(table) = Chain(table)
        /\ audit_head(table) \in {GENESIS} \cup {table[i].hash : i \in Hashed(table)}
    BY <2>1, HeadIsChain, HeadIsHash
  <2>3. anchor' = audit_head(table) /\ anchored' = Chain(table) /\ table' = table
    BY <1>3 DEF NoteHead
  <2> QED
    BY <2>2, <2>3 DEF AnchorIsChain, Hashed
<1>4. ASSUME Edit PROVE AnchorIsChain'
  BY <1>4 DEF Edit, AnchorIsChain, ChainInv, TypeOK
<1> QED
  BY <1>1, <1>2, <1>3, <1>4 DEF Next, Call, Begin, Insert, Abandon, history, writer, vars

\* "Record the head hash off the machine and compare later": however often the log was
\* edited, one that verifies and holds the noted head has every event up to it,
\* unaltered; a log that was not edited always holds it (audit_head, verify_audit).
THEOREM AnchorsAreTold == Spec => []AnchorTold
<1>1. ChainInv /\ AnchorIsChain => AnchorTold
  <2> SUFFICES ASSUME ChainInv, AnchorIsChain, ok(table),
                      anchor \in {GENESIS} \cup {table[i].hash : i \in Hashed(table)}
               PROVE  IsPrefix(anchored, Chain(table))
    BY DEF AnchorTold, AnchorIsChain
  <2>1. table \in Seq(Rows) /\ Chained(table) /\ anchored = anchor
    BY OkIsChained DEF ChainInv, TypeOK, AnchorIsChain
  <2> DEFINE c == Chain(table)
  <2>2. c \in Seq(Contents)
    BY <2>1, ChainIsTyped
  <2>3. PICK k \in 0..Len(c) : anchored = SubSeq(c, 1, k)
    <3>1. CASE anchor = GENESIS
      BY <2>1, <2>2, <3>1, SubSeqEmpty DEF GENESIS
    <3>2. CASE anchor # GENESIS
      BY <2>1, <3>2, HeadIsChain
    <3> QED
      BY <3>1, <3>2
  <2> HIDE DEF c
  <2>4. anchored \in Seq(Contents) /\ Len(anchored) = k
    BY <2>2, <2>3
  <2>5. SubSeq(anchored, 1, Len(anchored)) = anchored
    BY <2>4, SubSeqFull
  <2>6. IsPrefix(anchored, c)
    BY <2>2, <2>3, <2>4, <2>5 DEF IsPrefix
  <2> QED
    BY <2>6 DEF c
<1> QED
  BY ChainAlways, AnchorStarts, AnchorKept, <1>1, PTL DEF Spec
===============================================================================
