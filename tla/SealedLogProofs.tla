---------------------------- MODULE SealedLogProofs ----------------------------
(***************************************************************************)
(* Theorems about SealedLog, for records and lengths of any size and logs  *)
(* of any number of records: where the scan of a log ends, and that what   *)
(* was synced is read back after a crash that leaves no hole.              *)
(*                                                                         *)
(* The scan is a recursive function. The first lemmas unroll it: it ends   *)
(* at the first frame it does not get past.                                *)
(***************************************************************************)
EXTENDS SealedLog, SealedFileProofs, WellFoundedInduction

-----------------------------------------------------------------------------
(* The scan *)

LEMMA FrameFacts ==
  /\ Frame \in Nat \ {0} /\ LenCells \in 1..(Frame - 1)
  /\ Frame \in (LenCells + 1)..Frame /\ 1 \in 1..LenCells
BY SealedLogAssumption DEF Frame

\* The scan does not get past position p.
Stops(bytes, key, p) ==
  p = Len(bytes) \/ TornAt(bytes, p) \/ ~LengthAt(bytes, p) \/ ~OpensAt(bytes, key, p)

\* What it says there.
Verdict(bytes, key, p) ==
  IF p = Len(bytes) THEN [tail |-> "clean", end |-> p]
  ELSE IF TornAt(bytes, p) THEN [tail |-> "short", end |-> p]
  ELSE IF ~LengthAt(bytes, p) THEN [tail |-> "corrupt", end |-> p]
  ELSE IF p + Frame = Len(bytes) THEN [tail |-> "finalFailed", end |-> p]
  ELSE [tail |-> "corrupt", end |-> p]

\* The k-th frame after p is the first one the scan does not get past.
StopsAfter(bytes, key, p, k) ==
  /\ p + k * Frame \in 0..Len(bytes) /\ Stops(bytes, key, p + k * Frame)
  /\ \A j \in 0..(k - 1) :
       p + j * Frame \in 0..Len(bytes) /\ ~Stops(bytes, key, p + j * Frame)

\* A frame that the scan gets past is a whole one.
LEMMA FrameIsWhole ==
  ASSUME NEW bytes, IsSeq(bytes), NEW key, NEW p \in 0..Len(bytes), ~Stops(bytes, key, p)
  PROVE  p + Frame \in 0..Len(bytes)
<1>1. Len(bytes) \in Nat /\ Frame \in Nat
  BY SeqIsFunction, FrameFacts
<1>2. ~(Len(bytes) - p < Frame)
  BY DEF Stops, TornAt
<1> QED
  BY <1>1, <1>2

LEMMA LeastOf ==
  ASSUME NEW S \in SUBSET Nat, S # {} PROVE \E n \in S : \A m \in S : n <= m
<1>1. PICK n \in S : \A m \in S : ~(<<m, n>> \in OpToRel(<, Nat))
  BY WFMin, NatLessThanWellFounded, Zenon
<1>2. \A m \in S : ~(m < n)
  BY <1>1 DEF OpToRel
<1>3. \A m \in S : n <= m
  BY <1>2
<1> QED
  BY <1>3

LEMMA StopExists ==
  ASSUME NEW bytes, IsSeq(bytes), NEW key, NEW p \in 0..Len(bytes)
  PROVE  \E k \in Nat : StopsAfter(bytes, key, p, k)
<1>1. Len(bytes) \in Nat /\ Frame \in Nat \ {0} /\ p \in Nat
  BY SeqIsFunction, FrameFacts
<1> DEFINE Past(j) == p + j * Frame \in 0..Len(bytes) /\ ~Stops(bytes, key, p + j * Frame)
<1>2. PICK k \in Nat : ~Past(k) /\ \A j \in Nat : ~Past(j) => k <= j
  <2>1. ~Past(Len(bytes) + 1)
    <3>1. PICK l \in Nat, f \in Nat \ {0} : l = Len(bytes) /\ f = Frame
      BY <1>1
    <3>2. (l + 1) * f >= l + 1
      BY ONLY <3>1
    <3>3. (Len(bytes) + 1) * Frame >= Len(bytes) + 1
      BY <3>1, <3>2
    <3> QED
      BY <1>1, <3>3
  <2> DEFINE S == {j \in Nat : ~Past(j)}
  <2> HIDE DEF Past
  <2>2. S \in SUBSET Nat /\ S # {}
    BY <1>1, <2>1
  <2>3. PICK k \in S : \A m \in S : k <= m
    BY <2>2, LeastOf
  <2> QED
    BY <2>3
<1>3. \A j \in 0..(k - 1) : Past(j)
  <2> HIDE DEF Past
  <2>1. \A j \in 0..(k - 1) : j \in Nat /\ ~(k <= j)
    OBVIOUS
  <2> QED
    BY <1>2, <2>1
<1>4. p + k * Frame \in 0..Len(bytes)
  <2>1. CASE k = 0
    BY <1>1, <2>1
  <2>2. CASE k # 0
    <3>1. PICK j \in Nat : k = j + 1
      <4>1. k - 1 \in Nat /\ k = (k - 1) + 1
        BY <2>2
      <4> QED
        BY <4>1
    <3>2. Past(j)
      BY <1>3, <3>1
    <3>3. (p + j * Frame) + Frame \in 0..Len(bytes)
      BY <3>2, FrameIsWhole
    <3>4. k * Frame = j * Frame + Frame /\ j * Frame \in Nat
      BY <1>1, <3>1, TimesStep
    <3> QED
      BY <1>1, <3>3, <3>4
  <2> QED
    BY <2>1, <2>2
<1>5. Stops(bytes, key, p + k * Frame)
  BY <1>2, <1>4
<1> QED
  BY <1>3, <1>4, <1>5 DEF StopsAfter

LEMMA StopIsOne ==
  ASSUME NEW bytes, NEW key, NEW p, NEW k \in Nat, NEW l \in Nat,
         StopsAfter(bytes, key, p, k), StopsAfter(bytes, key, p, l)
  PROVE  k = l
<1>1. k < l => k \in 0..(l - 1)
  OBVIOUS
<1>2. l < k => l \in 0..(k - 1)
  OBVIOUS
<1>3. ~(k < l) /\ ~(l < k)
  BY <1>1, <1>2 DEF StopsAfter
<1> QED
  BY <1>3

\* One frame further is one frame fewer to go.
LEMMA StopFurther ==
  ASSUME NEW bytes, IsSeq(bytes), NEW key, NEW p \in 0..Len(bytes), ~Stops(bytes, key, p),
         NEW k \in Nat, StopsAfter(bytes, key, p + Frame, k)
  PROVE  StopsAfter(bytes, key, p, k + 1) /\ (p + Frame) + k * Frame = p + (k + 1) * Frame
<1>1. Len(bytes) \in Nat /\ Frame \in Nat \ {0} /\ p \in Nat
  BY SeqIsFunction, FrameFacts
<1>2. (p + Frame) + k * Frame = p + (k + 1) * Frame
  <2>1. (k + 1) * Frame = k * Frame + Frame /\ k * Frame \in Nat
    BY <1>1, TimesStep
  <2> QED
    BY <1>1, <2>1
<1>3. ASSUME NEW j \in 0..((k + 1) - 1)
      PROVE  p + j * Frame \in 0..Len(bytes) /\ ~Stops(bytes, key, p + j * Frame)
  <2>1. CASE j = 0
    <3>1. p + 0 * Frame = p
      BY <1>1
    <3> QED
      BY <2>1, <3>1
  <2>2. CASE j # 0
    <3>1. PICK i \in Nat : j = i + 1 /\ i \in 0..(k - 1)
      <4>1. j - 1 \in Nat /\ j = (j - 1) + 1 /\ j - 1 \in 0..(k - 1)
        BY <2>2
      <4> QED
        BY <4>1
    <3>2. j * Frame = i * Frame + Frame /\ i * Frame \in Nat
      BY <1>1, <3>1, TimesStep
    <3>3. (p + Frame) + i * Frame = p + j * Frame
      BY <1>1, <3>2
    <3> QED
      BY <3>1, <3>3 DEF StopsAfter
  <2> QED
    BY <2>1, <2>2
<1> QED
  BY <1>2, <1>3 DEF StopsAfter

\* The scan as a step from position p on, for a scan g of the rest.
ScanStep(bytes, key, g, p) ==
  IF p = Len(bytes) THEN [tail |-> "clean", end |-> p]
  ELSE IF TornAt(bytes, p) THEN [tail |-> "short", end |-> p]
  ELSE IF ~LengthAt(bytes, p) THEN [tail |-> "corrupt", end |-> p]
  ELSE IF OpensAt(bytes, key, p) THEN g[p + Frame]
  ELSE IF p + Frame = Len(bytes) THEN [tail |-> "finalFailed", end |-> p]
  ELSE [tail |-> "corrupt", end |-> p]

LEMMA ScanStepIs ==
  ASSUME NEW bytes, NEW key, NEW g, NEW p
  PROVE  ScanStep(bytes, key, g, p) =
           IF Stops(bytes, key, p) THEN Verdict(bytes, key, p) ELSE g[p + Frame]
<1>1. CASE Stops(bytes, key, p)
  BY <1>1, Zenon DEF ScanStep, Stops, Verdict
<1>2. CASE ~Stops(bytes, key, p)
  BY <1>2, Zenon DEF ScanStep, Stops
<1> QED
  BY <1>1, <1>2, Zenon

\* There is such a function: it tells the verdict at the first stop.
LEMMA ScanExists ==
  ASSUME NEW bytes, IsSeq(bytes), NEW key
  PROVE  \E g : g = [p \in 0..Len(bytes) |-> ScanStep(bytes, key, g, p)]
<1>1. Len(bytes) \in Nat /\ Frame \in Nat \ {0}
  BY SeqIsFunction, FrameFacts
<1> DEFINE K(p) == CHOOSE k \in Nat : StopsAfter(bytes, key, p, k)
           g == [p \in 0..Len(bytes) |-> Verdict(bytes, key, p + K(p) * Frame)]
<1>2. \A p \in 0..Len(bytes) : K(p) \in Nat /\ StopsAfter(bytes, key, p, K(p))
  BY StopExists, Zenon
<1>3. ASSUME NEW p \in 0..Len(bytes), Stops(bytes, key, p) PROVE p + K(p) * Frame = p
  <2>1. StopsAfter(bytes, key, p, 0)
    <3>1. p + 0 * Frame = p
      BY <1>1
    <3> QED
      BY <1>3, <3>1 DEF StopsAfter
  <2>2. K(p) = 0
    BY <1>2, <2>1, StopIsOne
  <2> HIDE DEF K
  <2> QED
    BY <1>1, <2>2
<1>4. ASSUME NEW p \in 0..Len(bytes), ~Stops(bytes, key, p)
      PROVE  /\ p + Frame \in 0..Len(bytes)
             /\ p + K(p) * Frame = (p + Frame) + K(p + Frame) * Frame
  <2>1. p + Frame \in 0..Len(bytes)
    BY <1>4, FrameIsWhole
  <2>2. PICK k \in Nat : k = K(p + Frame) /\ StopsAfter(bytes, key, p + Frame, k)
    BY <1>2, <2>1
  <2>3. StopsAfter(bytes, key, p, k + 1) /\ (p + Frame) + k * Frame = p + (k + 1) * Frame
    BY <1>4, <2>2, StopFurther
  <2>4. K(p) = k + 1
    BY <1>2, <2>3, StopIsOne
  <2> HIDE DEF K
  <2> QED
    BY <2>1, <2>2, <2>3, <2>4
<1> HIDE DEF K
<1>5. \A p \in 0..Len(bytes) : g[p] = ScanStep(bytes, key, g, p)
  <2> SUFFICES ASSUME NEW p \in 0..Len(bytes) PROVE g[p] = ScanStep(bytes, key, g, p)
    OBVIOUS
  <2>1. g[p] = Verdict(bytes, key, p + K(p) * Frame)
    OBVIOUS
  <2>2. CASE Stops(bytes, key, p)
    BY <1>3, <2>1, <2>2, ScanStepIs
  <2>3. CASE ~Stops(bytes, key, p)
    <3>1. g[p + Frame] = Verdict(bytes, key, (p + Frame) + K(p + Frame) * Frame)
      BY <1>4, <2>3
    <3> HIDE DEF g
    <3> QED
      BY <1>4, <2>1, <2>3, <3>1, ScanStepIs
  <2> QED
    BY <2>2, <2>3
<1>6. g = [p \in 0..Len(bytes) |-> g[p]]
  OBVIOUS
<1> HIDE DEF g
<1>7. g = [p \in 0..Len(bytes) |-> ScanStep(bytes, key, g, p)]
  BY <1>5, <1>6, Zenon
<1> QED
  BY <1>7

\* The scan tells the verdict at its first stop.
LEMMA ScanEnds ==
  ASSUME NEW bytes, IsSeq(bytes), NEW key
  PROVE  \E k \in Nat : /\ StopsAfter(bytes, key, 0, k)
                        /\ ScanWith(bytes, key) = Verdict(bytes, key, k * Frame)
<1>1. Len(bytes) \in Nat /\ Frame \in Nat \ {0}
  BY SeqIsFunction, FrameFacts
<1> DEFINE scan[p \in 0..Len(bytes)] == ScanStep(bytes, key, scan, p)
<1>2. ScanWith(bytes, key) = scan[0]
  BY Zenon DEF ScanWith, ScanStep
<1>3. scan = [p \in 0..Len(bytes) |-> ScanStep(bytes, key, scan, p)]
  BY ScanExists, Zenon DEF scan
<1> HIDE DEF scan
<1>4. 0 \in 0..Len(bytes)
  BY <1>1
<1>5. PICK k \in Nat : StopsAfter(bytes, key, 0, k)
  BY <1>4, StopExists
<1>6. ASSUME NEW j \in 0..k, NEW q \in 0..k, q = j + 1 PROVE scan[0 + q * Frame] = scan[0 + j * Frame]
  <2>1. j \in 0..(k - 1) /\ j \in Nat
    BY <1>6
  <2>2. 0 + j * Frame \in 0..Len(bytes) /\ ~Stops(bytes, key, 0 + j * Frame)
    BY <1>5, <2>1 DEF StopsAfter
  <2>3. scan[0 + j * Frame] = scan[(0 + j * Frame) + Frame]
    BY <1>3, <2>2, ScanStepIs
  <2>4. (0 + j * Frame) + Frame = 0 + q * Frame
    <3>1. (j + 1) * Frame = j * Frame + Frame /\ j * Frame \in Nat
      BY <1>1, <2>1, TimesStep
    <3> QED
      BY <1>1, <1>6, <3>1
  <2> QED
    BY <2>3, <2>4
<1>7. scan[0 + k * Frame] = scan[0]
  <2> DEFINE S == {j \in Nat : j \in 0..k /\ scan[0 + j * Frame] # scan[0]}
  <2>1. SUFFICES S = {}
    BY <2>1
  <2>2. SUFFICES ASSUME S # {} PROVE FALSE
    OBVIOUS
  <2>3. PICK q \in S : \A m \in S : q <= m
    <3>1. S \in SUBSET Nat
      OBVIOUS
    <3> HIDE DEF S
    <3> QED
      BY <2>2, <3>1, LeastOf
  <2>4. q # 0
    BY <1>1, <2>3
  <2>5. PICK j \in Nat : q = j + 1 /\ j \in 0..k
    <3>1. q - 1 \in Nat /\ q = (q - 1) + 1 /\ q - 1 \in 0..k
      BY <2>3, <2>4
    <3> QED
      BY <3>1
  <2>6. ~(q <= j)
    BY <2>5
  <2>7. j \notin S
    BY <2>3, <2>6
  <2>8. scan[0 + j * Frame] = scan[0]
    BY <2>5, <2>7
  <2>9. scan[0 + q * Frame] = scan[0 + j * Frame]
    BY <1>6, <2>3, <2>5
  <2> QED
    BY <2>3, <2>8, <2>9
<1>8. 0 + k * Frame \in 0..Len(bytes) /\ Stops(bytes, key, 0 + k * Frame)
  BY <1>5 DEF StopsAfter
<1>9. scan[0 + k * Frame] = Verdict(bytes, key, 0 + k * Frame)
  BY <1>3, <1>8, ScanStepIs
<1>10. 0 + k * Frame = k * Frame
  BY <1>1, TimesStep
<1> QED
  BY <1>2, <1>5, <1>7, <1>9, <1>10

-----------------------------------------------------------------------------
(* A log's cells *)

\* Cell r of the record sealed with index q.
RecordCell(key, q, record, r) == [of |-> <<key, q, record>>, at |-> r]

\* The records of a log, and the one whose append may have failed.
RecordAt(records, i) == IF i <= Len(records) THEN records[i] ELSE "x"

\* A log under a key: the records in their order, the last one perhaps cut short, with all
\* of their first cells, then a zero, and zeros for any of the cells behind it.
Stream(bytes, key, kept, records) ==
  /\ IsSeq(bytes) /\ IsSeq(records) /\ kept \in 0..Len(bytes)
  /\ Len(bytes) < (Len(records) + 1) * Frame
  /\ \A q \in Nat : \A r \in 1..Frame : q * Frame + r <= Len(bytes) =>
       \/ bytes[q * Frame + r] = RecordCell(key, q, RecordAt(records, q + 1), r)
       \/ kept < q * Frame + r /\ bytes[q * Frame + r] = Zero
  /\ kept < Len(bytes) => bytes[kept + 1] = Zero

\* A record that is whole is one of the log's.
LEMMA WholeRecords ==
  ASSUME NEW records, IsSeq(records), NEW kept, kept < (Len(records) + 1) * Frame, kept \in Nat,
         NEW k \in Nat, k * Frame <= kept
  PROVE  k <= Len(records)
<1>1. Len(records) \in Nat /\ Frame \in Nat \ {0}
  BY SeqIsFunction, FrameFacts
<1>2. Len(records) + 1 < k => (Len(records) + 1) * Frame + Frame <= k * Frame
  BY <1>1, TimesMonotonic
<1>3. (Len(records) + 1) * Frame \in Nat /\ k * Frame \in Nat
  BY <1>1, TimesStep
<1>4. k # Len(records) + 1
  BY <1>1, <1>3
<1>5. ~(Len(records) + 1 < k)
  BY <1>1, <1>2, <1>3
<1> QED
  BY <1>1, <1>4, <1>5

\* A frame that the scan gets past is a record of the log, sealed under the scan's key.
LEMMA OpensRecord ==
  ASSUME NEW bytes, NEW key, NEW kept, NEW records, Stream(bytes, key, kept, records),
         NEW other, NEW q \in Nat, q * Frame \in 0..Len(bytes), ~Stops(bytes, other, q * Frame)
  PROVE  /\ (q + 1) * Frame <= Len(bytes) /\ other = key
         /\ \A r \in 1..Frame :
              /\ bytes[q * Frame + r] = RecordCell(key, q, RecordAt(records, q + 1), r)
              /\ bytes[q * Frame + r] # Zero
<1>1. /\ Frame \in Nat \ {0} /\ LenCells \in 1..(Frame - 1) /\ Frame \in (LenCells + 1)..Frame
      /\ Len(bytes) \in Nat /\ kept \in 0..Len(bytes)
  BY SeqIsFunction, FrameFacts DEF Stream
<1>2. PICK from \in Nat : from = q * Frame /\ (q + 1) * Frame = from + Frame
  BY <1>1, TimesStep
<1>3. from + Frame \in 0..Len(bytes)
  BY <1>2, FrameIsWhole DEF Stream
<1>4. bytes[from + Frame].of[1] = other
  BY <1>1, <1>2 DEF Stops, OpensAt
<1>5. ASSUME NEW r \in 1..Frame PROVE bytes[from + r] # Zero
  <2>1. bytes[from + r].at = r
    <3>1. CASE r \in 1..LenCells
      BY <1>2, <3>1 DEF Stops, LengthAt
    <3>2. CASE r \in (LenCells + 1)..Frame
      BY <1>2, <3>2 DEF Stops, OpensAt
    <3> QED
      BY <1>1, <3>1, <3>2
  <2> QED
    BY <1>1, <2>1 DEF Zero
<1>6. ASSUME NEW r \in 1..Frame
      PROVE  bytes[from + r] = RecordCell(key, q, RecordAt(records, q + 1), r)
  <2>1. q * Frame + r <= Len(bytes)
    BY <1>1, <1>2, <1>3
  <2> QED
    BY <1>2, <1>5, <2>1 DEF Stream
<1>7. other = key
  <2>1. Frame \in 1..Frame
    BY <1>1
  <2>2. bytes[from + Frame] = RecordCell(key, q, RecordAt(records, q + 1), Frame)
    BY <1>6, <2>1
  <2>3. RecordCell(key, q, RecordAt(records, q + 1), Frame).of[1] = key
    BY DEF RecordCell
  <2> QED
    BY <1>4, <2>2, <2>3
<1>8. (q + 1) * Frame <= Len(bytes)
  BY <1>1, <1>2, <1>3
<1> QED
  BY <1>2, <1>5, <1>6, <1>7, <1>8

\* The cells before the first one that is missing are those of the records.
LEMMA KeptCells ==
  ASSUME NEW bytes, NEW key, NEW kept, NEW records, Stream(bytes, key, kept, records),
         NEW q \in Nat, NEW r \in 1..Frame, q * Frame + r <= kept
  PROVE  bytes[q * Frame + r] = RecordCell(key, q, RecordAt(records, q + 1), r)
<1>1. Len(bytes) \in Nat /\ kept \in 0..Len(bytes) /\ q * Frame + r \in Nat
  <2>1. Len(bytes) \in Nat /\ kept \in 0..Len(bytes) /\ Frame \in Nat \ {0}
    BY SeqIsFunction, FrameFacts DEF Stream
  <2>2. q * Frame \in Nat
    BY <2>1, TimesStep
  <2> QED
    BY <2>1, <2>2
<1>2. q * Frame + r <= Len(bytes) /\ ~(kept < q * Frame + r)
  BY <1>1
<1> QED
  BY <1>2 DEF Stream

\* The scan gets past every whole record under the log's key.
LEMMA RecordOpens ==
  ASSUME NEW bytes, NEW key, NEW kept, NEW records, Stream(bytes, key, kept, records),
         NEW q \in Nat, (q + 1) * Frame <= kept
  PROVE  q * Frame \in 0..Len(bytes) /\ ~Stops(bytes, key, q * Frame)
<1>1. /\ Frame \in Nat \ {0} /\ LenCells \in 1..(Frame - 1) /\ LenCells < Frame
      /\ Len(bytes) \in Nat /\ kept \in 0..Len(bytes)
  BY SeqIsFunction, FrameFacts DEF Stream
<1>2. PICK from \in Nat : from = q * Frame /\ from + Frame <= kept /\ from + Frame <= Len(bytes)
  BY <1>1, TimesStep
<1>3. \A r \in 1..Frame : bytes[from + r] = RecordCell(key, q, RecordAt(records, q + 1), r)
  <2>1. \A r \in 1..Frame : q * Frame + r <= kept
    BY <1>1, <1>2
  <2> QED
    BY <1>2, <2>1, KeptCells
<1>4. \A r \in 1..Frame : /\ bytes[from + r].at = r
                          /\ bytes[from + r].of = <<key, q, RecordAt(records, q + 1)>>
  <2> SUFFICES ASSUME NEW r \in 1..Frame
               PROVE  bytes[from + r].at = r /\ bytes[from + r].of = <<key, q, RecordAt(records, q + 1)>>
    OBVIOUS
  <2>1. bytes[from + r] = RecordCell(key, q, RecordAt(records, q + 1), r)
    BY <1>3
  <2>2. /\ RecordCell(key, q, RecordAt(records, q + 1), r).at = r
        /\ RecordCell(key, q, RecordAt(records, q + 1), r).of = <<key, q, RecordAt(records, q + 1)>>
    BY DEF RecordCell
  <2> QED
    BY <2>1, <2>2
<1>5. LengthAt(bytes, from)
  BY <1>1, <1>4 DEF LengthAt
<1>6. OpensAt(bytes, key, from)
  <2>1. from \div Frame = q
    <3>1. from = q * Frame + 0 /\ 0 \in 0..(Frame - 1) /\ Frame \in Nat \ {0}
      BY <1>1, <1>2
    <3> QED
      BY <3>1, DividedOnce
  <2>2. 1 \in 1..Frame /\ \A i \in (LenCells + 1)..Frame : i \in 1..Frame
    BY <1>1
  <2>3. <<key, q, RecordAt(records, q + 1)>>[1] = key /\ <<key, q, RecordAt(records, q + 1)>>[2] = q
    OBVIOUS
  <2> QED
    BY <1>4, <2>1, <2>2, <2>3, Zenon DEF OpensAt
<1>7. ~TornAt(bytes, from)
  <2>1. ~(Len(bytes) - from < LenCells) /\ ~(Len(bytes) - from < Frame)
    BY <1>1, <1>2
  <2>2. ~AllZero(SubSeq(bytes, from + 1, Len(bytes)))
    <3>1. PICK tail : tail = SubSeq(bytes, from + 1, Len(bytes))
      OBVIOUS
    <3>2. from <= Len(bytes)
      BY <1>1, <1>2
    <3>3. Len(bytes) \in Nat
      BY <1>1
    <3>4. /\ IsSeq(SubSeq(bytes, from + 1, Len(bytes)))
          /\ Len(SubSeq(bytes, from + 1, Len(bytes))) = Len(bytes) - from
          /\ \A i \in 1..(Len(bytes) - from) : SubSeq(bytes, from + 1, Len(bytes))[i] = bytes[from + i]
      BY ONLY <3>2, <3>3, PartFacts
    <3>5. DOMAIN tail = 1..(Len(bytes) - from)
      BY <3>1, <3>4 DEF IsSeq
    <3>6. 1 \in 1..(Len(bytes) - from) /\ 1 \in 1..Frame
      BY <1>1, <1>2
    <3>7. tail[1] = bytes[from + 1] /\ bytes[from + 1].at = 1
      BY <1>4, <3>1, <3>4, <3>6
    <3>8. tail[1] # Zero
      BY <3>7 DEF Zero
    <3> QED
      BY <3>1, <3>5, <3>6, <3>8 DEF AllZero
  <2> QED
    BY <2>1, <2>2 DEF TornAt
<1>8. from # Len(bytes)
  BY <1>1, <1>2
<1> QED
  BY <1>1, <1>2, <1>5, <1>6, <1>7, <1>8 DEF Stops

LEMMA VerdictEnd ==
  ASSUME NEW bytes, NEW key, NEW p
  PROVE  /\ Verdict(bytes, key, p).end = p
         /\ Verdict(bytes, key, p).tail = "clean" => p = Len(bytes)
BY DEF Verdict

\* What any scan of a log finds: whole records, and, when there are any, under the key of
\* the log.
LEMMA ScanFinds ==
  ASSUME NEW bytes, NEW key, NEW kept, NEW records, Stream(bytes, key, kept, records), NEW other
  PROVE  \E k \in Nat :
           /\ StopsAfter(bytes, other, 0, k) /\ ScanWith(bytes, other) = Verdict(bytes, other, k * Frame)
           /\ ScanWith(bytes, other).end = k * Frame
           /\ ScanWith(bytes, other).tail = "clean" => k * Frame = Len(bytes)
           /\ k * Frame \in 0..Len(bytes) /\ k * Frame <= kept /\ k <= Len(records)
           /\ k > 0 => other = key
           /\ \A q \in 0..(k - 1) : \A r \in 1..Frame :
                bytes[q * Frame + r] = RecordCell(key, q, records[q + 1], r)
<1>1. Frame \in Nat \ {0} /\ Len(bytes) \in Nat /\ kept \in 0..Len(bytes) /\ Len(records) \in Nat
  BY SeqIsFunction, FrameFacts DEF Stream
<1>2. PICK k \in Nat : StopsAfter(bytes, other, 0, k) /\ ScanWith(bytes, other) = Verdict(bytes, other, k * Frame)
  BY ScanEnds DEF Stream
<1>3. PICK at \in Nat : at = k * Frame /\ at = 0 + k * Frame
  BY <1>1, TimesStep
<1>4. at \in 0..Len(bytes)
  BY <1>2, <1>3 DEF StopsAfter
<1>5. ASSUME NEW q \in 0..(k - 1)
      PROVE  /\ other = key
             /\ \A r \in 1..Frame :
                  /\ bytes[q * Frame + r] = RecordCell(key, q, RecordAt(records, q + 1), r)
                  /\ bytes[q * Frame + r] # Zero
  <2>1. q \in Nat /\ 0 + q * Frame = q * Frame
    BY <1>1, TimesStep
  <2>2. q * Frame \in 0..Len(bytes) /\ ~Stops(bytes, other, q * Frame)
    BY <1>2, <2>1 DEF StopsAfter
  <2> QED
    BY <2>1, <2>2, OpensRecord
<1>6. at <= kept
  <2>1. ASSUME kept < at PROVE FALSE
    <3>1. PICK q \in Nat, rest \in 0..(Frame - 1) : kept = q * Frame + rest
      <4>1. kept \in Nat /\ Frame \in Nat \ {0}
        BY <1>1
      <4>2. /\ kept \div Frame \in Nat /\ kept % Frame \in 0..(Frame - 1)
            /\ kept = (kept \div Frame) * Frame + (kept % Frame)
        BY <4>1, Divided
      <4> QED
        BY <4>2, Zenon
    <3>2. PICK from \in Nat : from = q * Frame /\ kept = from + rest
      BY <1>1, <3>1, TimesStep
    <3>3. q < k
      <4>1. k < q => k * Frame + Frame <= q * Frame
        BY <1>1, TimesMonotonic
      <4> QED
        BY <1>1, <1>3, <2>1, <3>1, <3>2, <4>1
    <3>4. rest + 1 \in 1..Frame /\ q \in 0..(k - 1) /\ q * Frame + (rest + 1) = kept + 1
      BY <1>1, <3>2, <3>3
    <3>5. bytes[kept + 1] # Zero
      BY <1>5, <3>4
    <3>6. kept < Len(bytes)
      BY <1>1, <1>4, <2>1
    <3> QED
      BY <3>5, <3>6 DEF Stream
  <2> QED
    BY <1>1, <2>1
<1>7. k <= Len(records)
  <2>1. /\ Len(bytes) \in Nat /\ Len(bytes) < (Len(records) + 1) * Frame /\ IsSeq(records)
        /\ k * Frame <= Len(bytes)
    BY <1>1, <1>3, <1>4 DEF Stream
  <2> QED
    BY <2>1, WholeRecords
<1>8. ASSUME NEW q \in 0..(k - 1), NEW r \in 1..Frame
      PROVE  bytes[q * Frame + r] = RecordCell(key, q, records[q + 1], r)
  <2>1. q + 1 <= Len(records)
    BY <1>1, <1>7
  <2> QED
    BY <1>5, <2>1 DEF RecordAt
<1>9. k > 0 => other = key
  <2>1. k > 0 => 0 \in 0..(k - 1)
    OBVIOUS
  <2> QED
    BY <1>5, <2>1
<1> QED
  BY <1>2, <1>3, <1>4, <1>6, <1>7, <1>8, <1>9, VerdictEnd

\* No other key is taken for the log's, once it has a whole record.
LEMMA AcceptsOwn ==
  ASSUME NEW bytes, NEW key, NEW kept, NEW records, Stream(bytes, key, kept, records),
         Frame <= kept, NEW other, Accepts(bytes, other)
  PROVE  other = key
<1>1. /\ Frame \in Nat \ {0} /\ LenCells < Frame /\ Len(bytes) \in Nat /\ kept \in 0..Len(bytes)
  BY SeqIsFunction, FrameFacts DEF Stream
<1>2. PICK k \in Nat : /\ StopsAfter(bytes, other, 0, k)
                       /\ ScanWith(bytes, other) = Verdict(bytes, other, k * Frame)
                       /\ k > 0 => other = key
  BY ScanFinds
<1>3. CASE k > 0
  BY <1>2, <1>3
<1>4. CASE k = 0
  <2>1. k * Frame = 0 /\ (0 + 1) * Frame <= kept /\ 0 * Frame = 0
    BY <1>1, <1>4
  <2>2. ~Stops(bytes, key, 0)
    BY <2>1, RecordOpens
  <2>3. 0 # Len(bytes) /\ ~TornAt(bytes, 0) /\ LengthAt(bytes, 0)
    BY <2>2 DEF Stops
  <2>4. /\ ScanWith(bytes, other).end = 0
        /\ ScanWith(bytes, other).tail \in {"corrupt", "finalFailed"}
    BY <1>2, <2>1, <2>3 DEF Verdict
  <2> QED
    BY <2>4 DEF Accepts
<1> QED
  BY <1>2, <1>3, <1>4

\* What a crash may leave behind the last whole record, unless it left a hole: nothing but
\* zeros, or part of one record whose length is whole.
Sound(bytes, kept) ==
  kept < Len(bytes) =>
    \/ kept % Frame = 0 /\ \A i \in (kept + 1)..Len(bytes) : bytes[i] = Zero
    \/ kept % Frame >= LenCells /\ (kept % Frame) + (Len(bytes) - kept) <= Frame

\* The log's own key is taken for it, and the scan gets to the last whole record.
LEMMA OwnScan ==
  ASSUME NEW bytes, NEW key, NEW kept, NEW records, Stream(bytes, key, kept, records),
         Sound(bytes, kept), NEW m \in Nat, m * Frame <= kept, m > 0
  PROVE  Accepts(bytes, key) /\ ScanWith(bytes, key).end >= m * Frame
<1>1. /\ Frame \in Nat \ {0} /\ LenCells \in 1..(Frame - 1) /\ LenCells < Frame
      /\ Len(bytes) \in Nat /\ kept \in 0..Len(bytes) /\ kept \in Nat
  BY SeqIsFunction, FrameFacts DEF Stream
<1>2. PICK n \in Nat, rest \in 0..(Frame - 1) : kept % Frame = rest /\ kept = n * Frame + rest
  <2>1. kept \in Nat /\ Frame \in Nat \ {0}
    BY <1>1
  <2>2. /\ kept \div Frame \in Nat /\ kept % Frame \in 0..(Frame - 1)
        /\ kept = (kept \div Frame) * Frame + (kept % Frame)
    BY <2>1, Divided
  <2> QED
    BY <2>2, Zenon
<1>3. PICK from \in Nat : from = n * Frame /\ kept = from + rest /\ from = 0 + n * Frame
  BY <1>1, <1>2, TimesStep
<1>4. PICK k \in Nat : /\ StopsAfter(bytes, key, 0, k)
                       /\ ScanWith(bytes, key) = Verdict(bytes, key, k * Frame)
                       /\ ScanWith(bytes, key).end = k * Frame /\ k * Frame <= kept
  BY ScanFinds
<1>5. ~(k < n)
  <2>1. ASSUME k < n PROVE FALSE
    <3>1. (k + 1) * Frame = k * Frame + Frame /\ k * Frame + Frame <= n * Frame /\ 0 + k * Frame = k * Frame
      BY <1>1, <2>1, TimesStep, TimesMonotonic
    <3>2. (k + 1) * Frame <= kept
      BY <1>1, <1>3, <3>1, TimesStep
    <3>3. ~Stops(bytes, key, k * Frame)
      BY <3>2, RecordOpens
    <3> QED
      BY <1>4, <3>1, <3>3 DEF StopsAfter
  <2> QED
    BY <2>1
<1>6. ~(n < k)
  <2>1. ASSUME n < k PROVE FALSE
    <3>1. from + Frame <= k * Frame /\ k * Frame \in Nat
      BY <1>1, <1>3, <2>1, TimesStep, TimesMonotonic
    <3> QED
      BY <1>1, <1>2, <1>3, <1>4, <3>1
  <2> QED
    BY <2>1
<1>7. k = n /\ ScanWith(bytes, key) = Verdict(bytes, key, from)
  BY <1>3, <1>4, <1>5, <1>6
<1>8. Stops(bytes, key, from) /\ from <= Len(bytes)
  BY <1>1, <1>3, <1>4, <1>7 DEF StopsAfter
<1>9. Verdict(bytes, key, from).tail # "corrupt"
  <2>1. SUFFICES ASSUME from # Len(bytes), ~TornAt(bytes, from)
                 PROVE  LengthAt(bytes, from) /\ from + Frame = Len(bytes)
    BY DEF Verdict
  <2>2. rest # 0
    <3>1. ASSUME rest = 0 PROVE FALSE
      <4>1. kept = from
        BY <1>3, <3>1
      <4>2. PICK tail : tail = SubSeq(bytes, from + 1, Len(bytes))
        OBVIOUS
      <4>3. from <= Len(bytes)
        BY <1>8
      <4>4. Len(bytes) \in Nat
        BY <1>1
      <4>5. /\ IsSeq(SubSeq(bytes, from + 1, Len(bytes)))
            /\ Len(SubSeq(bytes, from + 1, Len(bytes))) = Len(bytes) - from
            /\ \A i \in 1..(Len(bytes) - from) : SubSeq(bytes, from + 1, Len(bytes))[i] = bytes[from + i]
        BY ONLY <4>3, <4>4, PartFacts
      <4>6. DOMAIN tail = 1..(Len(bytes) - from)
        BY <4>2, <4>5 DEF IsSeq
      <4>7. \A i \in 1..(Len(bytes) - from) : from + i \in (kept + 1)..Len(bytes)
        BY <1>1, <4>1
      <4>8. \A i \in 1..(Len(bytes) - from) : tail[i] = Zero
        <5>1. kept % Frame = 0 /\ kept < Len(bytes) /\ ~(kept % Frame >= LenCells)
          BY <1>1, <1>2, <1>8, <2>1, <3>1, <4>1
        <5>2. \A i \in (kept + 1)..Len(bytes) : bytes[i] = Zero
          BY <5>1 DEF Sound
        <5> QED
          BY <4>2, <4>5, <4>7, <5>2
      <4>9. AllZero(tail)
        BY <4>6, <4>8 DEF AllZero
      <4> QED
        BY <2>1, <4>2, <4>9 DEF TornAt
    <3> QED
      BY <3>1
  <2>3. Len(bytes) - from >= LenCells
    BY <1>1, <1>8, <2>1 DEF TornAt
  <2>4. rest >= LenCells
    <3>1. CASE kept < Len(bytes)
      BY <1>2, <2>2, <3>1 DEF Sound
    <3>2. CASE ~(kept < Len(bytes))
      BY <1>1, <1>2, <1>3, <2>3, <3>2
    <3> QED
      BY <3>1, <3>2
  <2>5. LengthAt(bytes, from)
    <3>1. ASSUME NEW i \in 1..LenCells PROVE bytes[from + i].at = i
      <4>1. i \in 1..Frame /\ n * Frame + i <= kept
        BY <1>1, <1>3, <2>4
      <4>2. bytes[from + i] = RecordCell(key, n, RecordAt(records, n + 1), i)
        BY <1>3, <4>1, KeptCells
      <4> QED
        BY <4>2 DEF RecordCell
    <3> QED
      BY <3>1 DEF LengthAt
  <2>6. ~(Len(bytes) - from < Frame)
    BY <2>1, <2>5 DEF TornAt
  <2>7. kept < Len(bytes)
    BY <1>1, <1>2, <1>3, <2>6
  <2>8. rest + (Len(bytes) - kept) <= Frame
    BY <1>2, <2>2, <2>7 DEF Sound
  <2> QED
    BY <1>1, <1>2, <1>3, <2>5, <2>6, <2>8
<1>10. m <= n
  <2>1. n < m => from + Frame <= m * Frame
    BY <1>1, <1>3, TimesMonotonic
  <2>2. m * Frame \in Nat
    BY <1>1, TimesStep
  <2> QED
    BY <1>1, <1>2, <1>3, <2>1, <2>2
<1>11. m * Frame <= from /\ from >= 1
  <2>1. m < n => m * Frame + Frame <= n * Frame
    BY <1>1, TimesMonotonic
  <2>2. PICK l \in Nat : m = l + 1
    <3>1. m - 1 \in Nat /\ m = (m - 1) + 1
      OBVIOUS
    <3> QED
      BY <3>1
  <2>3. m * Frame = l * Frame + Frame /\ l * Frame \in Nat
    BY <1>1, <2>2, TimesStep
  <2> QED
    BY <1>1, <1>3, <1>10, <2>1, <2>3
<1>12. ScanWith(bytes, key).end = from /\ from # 0
  BY <1>3, <1>7, <1>11, VerdictEnd
<1> QED
  BY <1>7, <1>9, <1>11, <1>12 DEF Accepts

-----------------------------------------------------------------------------
(* Writing *)

LEMMA FramedFacts ==
  ASSUME NEW key, NEW q, NEW record
  PROVE  /\ IsSeq(FramedRecord(key, q, record)) /\ Len(FramedRecord(key, q, record)) = Frame
         /\ \A r \in 1..Frame : FramedRecord(key, q, record)[r] = RecordCell(key, q, record, r)
<1>1. PICK framed : /\ framed = FramedRecord(key, q, record)
                    /\ framed = [r \in 1..Frame |-> RecordCell(key, q, record, r)]
  BY DEF FramedRecord, RecordCell
<1>2. DOMAIN framed = 1..Frame /\ framed = [r \in 1..Frame |-> framed[r]] /\ Frame \in Nat
  BY <1>1, FrameFacts
<1>3. IsSeq(framed) /\ Len(framed) = Frame
  BY <1>2, FunctionIsSeq
<1> QED
  BY <1>1, <1>3

LEMMA EmptyStream ==
  ASSUME NEW key PROVE Stream(<<>>, key, 0, <<>>) /\ Sound(<<>>, 0)
<1>1. Frame \in Nat \ {0} /\ Len(<<>>) = 0 /\ IsSeq(<<>>)
  BY FrameFacts, EmptySeq DEF IsSeq
<1>2. 0 < (0 + 1) * Frame /\ 0 \in 0..0 /\ ~(0 < 0)
  BY <1>1
<1>3. \A q \in Nat : \A r \in 1..Frame : ~(q * Frame + r <= 0)
  BY <1>1, TimesStep
<1> QED
  BY <1>1, <1>2, <1>3 DEF Stream, Sound

\* A record, or the first part of one, behind the n whole records of a log.
GrowsBy(bytes, key, records, n, piece, record, more) ==
  /\ Stream(bytes, key, Len(bytes), records)
  /\ n \in Nat /\ n = Len(records) /\ Len(bytes) = n * Frame
  /\ IsSeq(piece) /\ Len(piece) \in 0..Frame
  /\ \A r \in 1..Len(piece) : piece[r] = RecordCell(key, n, record, r)
  /\ IsSeq(more) /\ \A i \in 1..n : more[i] = records[i]
  /\ Len(more) \in {n, n + 1} /\ (Len(piece) = Frame => Len(more) = n + 1)
  /\ RecordAt(more, n + 1) = record

LEMMA StreamGrows ==
  ASSUME NEW bytes, NEW key, NEW records, NEW n, NEW piece, NEW record, NEW more,
         GrowsBy(bytes, key, records, n, piece, record, more)
  PROVE  Stream(bytes \o piece, key, Len(bytes \o piece), more) /\ Len(bytes \o piece) = n * Frame + Len(piece)
<1> SUFFICES
      ASSUME Stream(bytes, key, Len(bytes), records),
             n \in Nat, n = Len(records), Len(bytes) = n * Frame,
             IsSeq(piece), Len(piece) \in 0..Frame,
             \A r \in 1..Len(piece) : piece[r] = RecordCell(key, n, record, r),
             IsSeq(more), \A i \in 1..n : more[i] = records[i],
             Len(more) \in {n, n + 1}, Len(piece) = Frame => Len(more) = n + 1,
             RecordAt(more, n + 1) = record
      PROVE  Stream(bytes \o piece, key, Len(bytes \o piece), more) /\ Len(bytes \o piece) = n * Frame + Len(piece)
  BY Zenon DEF GrowsBy
<1>1. Frame \in Nat \ {0} /\ n + 1 \in Nat
  BY FrameFacts
<1>2. PICK from \in Nat, len \in 0..Frame : from = n * Frame /\ len = Len(piece) /\ (n + 1) * Frame = from + Frame
  BY <1>1, TimesStep
<1>3. PICK longer : longer = bytes \o piece
  OBVIOUS
<1>4. /\ IsSeq(longer) /\ Len(longer) = from + len
      /\ \A i \in 1..from : longer[i] = bytes[i]
      /\ \A i \in 1..len : longer[from + i] = piece[i]
  <2>1. IsSeq(bytes)
    BY DEF Stream
  <2>2. IsSeq(piece)
    OBVIOUS
  <2>3. /\ IsSeq(bytes \o piece) /\ Len(bytes \o piece) = Len(bytes) + Len(piece)
        /\ \A i \in 1..Len(bytes) : (bytes \o piece)[i] = bytes[i]
        /\ \A i \in 1..Len(piece) : (bytes \o piece)[Len(bytes) + i] = piece[i]
    BY ONLY <2>1, <2>2, BehindFacts
  <2> QED
    BY <1>2, <1>3, <2>3
<1>5. Len(longer) \in 0..Len(longer) /\ Len(longer) < (Len(more) + 1) * Frame
  <2>1. CASE Len(more) = n
    BY <1>1, <1>2, <1>4, <2>1
  <2>2. CASE Len(more) = n + 1
    <3>1. ((n + 1) + 1) * Frame = (n + 1) * Frame + Frame
      BY <1>1, TimesStep
    <3> QED
      BY <1>1, <1>2, <1>4, <2>2, <3>1
  <2> QED
    BY <2>1, <2>2
<1>6. ASSUME NEW q \in Nat, NEW r \in 1..Frame, q * Frame + r <= Len(longer)
      PROVE  longer[q * Frame + r] = RecordCell(key, q, RecordAt(more, q + 1), r)
  <2>1. PICK at \in Nat : at = q * Frame
    BY <1>1, TimesStep
  <2>2. CASE q < n
    <3>1. at + Frame <= from
      BY <1>1, <1>2, <2>1, <2>2, TimesMonotonic
    <3>2. at + r \in 1..from
      BY <1>1, <3>1
    <3>3. longer[at + r] = bytes[at + r]
      BY <1>4, <3>2
    <3>4. q * Frame + r <= Len(bytes)
      BY <1>2, <2>1, <3>2
    <3>5. bytes[q * Frame + r] = RecordCell(key, q, RecordAt(records, q + 1), r)
      BY <3>4, KeptCells
    <3>6. q + 1 \in 1..n /\ q + 1 <= Len(more) /\ q + 1 <= Len(records)
      BY <2>2
    <3>7. RecordAt(more, q + 1) = RecordAt(records, q + 1)
      BY <3>6 DEF RecordAt
    <3> QED
      BY <2>1, <3>3, <3>5, <3>7
  <2>3. CASE q = n
    <3>1. r \in 1..len /\ at = from
      BY <1>1, <1>2, <1>4, <1>6, <2>1, <2>3
    <3> QED
      BY <1>2, <1>4, <2>1, <2>3, <3>1
  <2>4. CASE n < q
    <3>1. from + Frame <= at
      BY <1>1, <1>2, <2>1, <2>4, TimesMonotonic
    <3> QED
      BY <1>1, <1>2, <1>4, <1>6, <2>1, <3>1
  <2> QED
    BY <2>2, <2>3, <2>4
<1>7. ~(Len(longer) < Len(longer))
  BY <1>2, <1>4
<1>8. Stream(longer, key, Len(longer), more)
  BY <1>4, <1>5, <1>6, <1>7 DEF Stream
<1> QED
  BY <1>2, <1>3, <1>4, <1>8

\* What a crash makes of a log without zeros: its first len cells without the lost ones;
\* kept is the number of cells before the first that is missing.
CutTo(bytes, key, records, len, kept, lost, left) ==
  /\ Stream(bytes, key, Len(bytes), records)
  /\ len \in 0..Len(bytes) /\ kept \in 0..len /\ \A i \in lost : kept < i
  /\ kept < len => kept + 1 \in lost
  /\ left = [i \in 1..len |-> IF i \in lost THEN Zero ELSE bytes[i]]

LEMMA StreamCut ==
  ASSUME NEW bytes, NEW key, NEW records, NEW len, NEW kept, NEW lost, NEW left,
         CutTo(bytes, key, records, len, kept, lost, left)
  PROVE  Stream(left, key, kept, records) /\ Len(left) = len
<1> SUFFICES
      ASSUME Stream(bytes, key, Len(bytes), records),
             len \in 0..Len(bytes), kept \in 0..len, \A i \in lost : kept < i,
             kept < len => kept + 1 \in lost,
             left = [i \in 1..len |-> IF i \in lost THEN Zero ELSE bytes[i]]
      PROVE  Stream(left, key, kept, records) /\ Len(left) = len
  BY Zenon DEF CutTo
<1>1. Frame \in Nat \ {0} /\ Len(bytes) \in Nat /\ len \in Nat /\ kept \in Nat /\ IsSeq(bytes)
  BY SeqIsFunction, FrameFacts DEF Stream
<1>2. IsSeq(left) /\ Len(left) = len
  <2>1. DOMAIN left = 1..len /\ left = [i \in 1..len |-> left[i]]
    OBVIOUS
  <2> QED
    BY <1>1, <2>1, FunctionIsSeq
<1>3. kept \in 0..Len(left) /\ Len(left) < (Len(records) + 1) * Frame
  <2>1. Len(bytes) < (Len(records) + 1) * Frame /\ Len(records) \in Nat
    BY SeqIsFunction DEF Stream
  <2>2. (Len(records) + 1) * Frame \in Nat
    BY <1>1, <2>1, TimesStep
  <2> QED
    BY <1>1, <1>2, <2>1, <2>2
<1>4. ASSUME NEW q \in Nat, NEW r \in 1..Frame, q * Frame + r <= len
      PROVE  \/ left[q * Frame + r] = RecordCell(key, q, RecordAt(records, q + 1), r)
             \/ kept < q * Frame + r /\ left[q * Frame + r] = Zero
  <2>1. PICK at \in Nat : at = q * Frame
    BY <1>1, TimesStep
  <2>2. at + r \in 1..len /\ at + r <= Len(bytes)
    BY <1>1, <1>4, <2>1
  <2>3. bytes[at + r] = RecordCell(key, q, RecordAt(records, q + 1), r)
    BY <2>1, <2>2, KeptCells
  <2>4. CASE at + r \in lost
    BY <2>1, <2>2, <2>4
  <2>5. CASE at + r \notin lost
    BY <2>1, <2>2, <2>3, <2>5
  <2> QED
    BY <2>4, <2>5
<1>5. kept < len => left[kept + 1] = Zero
  <2>1. kept < len => kept + 1 \in 1..len
    BY <1>1
  <2> QED
    BY <2>1
<1>6. IsSeq(records)
  BY DEF Stream
<1>7. \A q \in Nat : \A r \in 1..Frame : q * Frame + r <= Len(left) =>
        \/ left[q * Frame + r] = RecordCell(key, q, RecordAt(records, q + 1), r)
        \/ kept < q * Frame + r /\ left[q * Frame + r] = Zero
  BY <1>2, <1>4
<1>8. kept < Len(left) => left[kept + 1] = Zero
  BY <1>2, <1>5
<1> QED
  BY <1>2, <1>3, <1>6, <1>7, <1>8, Zenon DEF Stream

-----------------------------------------------------------------------------
(* The log *)

\* What the log is: under a key of the program, records, of which those that were synced
\* are there and on disk, and behind them what a crash may leave.
LogFound(key, kept) ==
  /\ Stream(cells, key, kept, appended)
  /\ durable * Frame <= kept /\ durable * Frame <= onDisk
  /\ ~holed => Sound(cells, kept)
  /\ kept < Len(cells) => onDisk = Len(cells)

\* An open writer is at the end of whole records of the current key.
WriterKnows ==
  /\ writer = [open |-> writer.open, key |-> writer.key, next |-> writer.next]
  /\ writer.open =>
       /\ header = "whole" /\ writer.key = cipher.current /\ writer.next = Len(appended)
       /\ Len(cells) = Len(appended) * Frame
       /\ LogFound(cipher.current, Len(cells))

LogInv ==
  /\ header \in {"absent", "unsynced", "short", "whole"}
  /\ onDisk \in 0..Len(cells) /\ durable \in 0..Len(appended) /\ holed \in BOOLEAN
  /\ \E key \in CandidateKeys : \E kept : LogFound(key, kept)
  /\ WriterKnows
  /\ header # "whole" => cells = <<>> /\ appended = <<>>

LEMMA LogSequences ==
  ASSUME LogInv
  PROVE  /\ IsSeq(cells) /\ Len(cells) \in Nat /\ IsSeq(appended) /\ Len(appended) \in Nat
         /\ onDisk \in Nat /\ durable \in Nat /\ Frame \in Nat \ {0}
<1>1. IsSeq(cells) /\ IsSeq(appended)
  BY DEF LogInv, LogFound, Stream
<1>2. Len(cells) \in Nat /\ Len(appended) \in Nat /\ Frame \in Nat \ {0}
  BY <1>1, SeqIsFunction, FrameFacts
<1> QED
  BY <1>1, <1>2 DEF LogInv

\* What is read back of a log: whole records from the first one on, and those of the log's
\* own key when there are any.
LEMMA RecoveredFacts ==
  ASSUME NEW key, NEW kept, Stream(cells, key, kept, appended)
  PROVE  \E k \in Nat :
           /\ k * Frame = ScanWith(cells, OpenedKey).end
           /\ ~TornTail => k * Frame = Len(cells)
           /\ k * Frame \in 0..Len(cells) /\ k * Frame <= kept /\ k <= Len(appended)
           /\ k > 0 => OpenedKey = key
           /\ IsSeq(Committed) /\ Len(Committed) = k * Frame
           /\ \A i \in 1..(k * Frame) : Committed[i] = cells[i]
           /\ \A q \in 0..(k - 1) : \A r \in 1..Frame :
                cells[q * Frame + r] = RecordCell(key, q, appended[q + 1], r)
           /\ IsSeq(Recovered) /\ Len(Recovered) = k
           /\ \A i \in 1..k : Recovered[i] = appended[i]
<1>1. Frame \in Nat \ {0}
  BY FrameFacts
<1>2. PICK k \in Nat :
        /\ ScanWith(cells, OpenedKey).end = k * Frame
        /\ ScanWith(cells, OpenedKey).tail = "clean" => k * Frame = Len(cells)
        /\ k * Frame \in 0..Len(cells) /\ k * Frame <= kept /\ k <= Len(appended)
        /\ k > 0 => OpenedKey = key
        /\ \A q \in 0..(k - 1) : \A r \in 1..Frame :
             cells[q * Frame + r] = RecordCell(key, q, appended[q + 1], r)
  <2>1. PICK other : other = OpenedKey
    OBVIOUS
  <2>2. Stream(cells, key, kept, appended)
    OBVIOUS
  <2>3. \E k \in Nat :
          /\ StopsAfter(cells, other, 0, k) /\ ScanWith(cells, other) = Verdict(cells, other, k * Frame)
          /\ ScanWith(cells, other).end = k * Frame
          /\ ScanWith(cells, other).tail = "clean" => k * Frame = Len(cells)
          /\ k * Frame \in 0..Len(cells) /\ k * Frame <= kept /\ k <= Len(appended)
          /\ k > 0 => other = key
          /\ \A q \in 0..(k - 1) : \A r \in 1..Frame :
               cells[q * Frame + r] = RecordCell(key, q, appended[q + 1], r)
    BY ONLY <2>2, ScanFinds
  <2>4. \E k \in Nat :
          /\ ScanWith(cells, other).end = k * Frame
          /\ ScanWith(cells, other).tail = "clean" => k * Frame = Len(cells)
          /\ k * Frame \in 0..Len(cells) /\ k * Frame <= kept /\ k <= Len(appended)
          /\ k > 0 => other = key
          /\ \A q \in 0..(k - 1) : \A r \in 1..Frame :
               cells[q * Frame + r] = RecordCell(key, q, appended[q + 1], r)
    BY ONLY <2>3, Zenon
  <2> QED
    BY ONLY <2>1, <2>4, Zenon
<1>3. PICK end \in Nat : end = k * Frame /\ ScanWith(cells, OpenedKey).end = end
  BY <1>1, <1>2, TimesStep
<1>4. PICK committed : committed = Committed
  OBVIOUS
<1>5. IsSeq(committed) /\ Len(committed) = end /\ \A i \in 1..end : committed[i] = cells[i]
  <2>1. committed = SubSeq(cells, 1, end)
    BY <1>3, <1>4 DEF Committed
  <2>2. PICK zero \in Nat : zero = 0
    OBVIOUS
  <2>3. zero <= end
    BY <2>2
  <2>4. /\ IsSeq(SubSeq(cells, zero + 1, end)) /\ Len(SubSeq(cells, zero + 1, end)) = end - zero
        /\ \A i \in 1..(end - zero) : SubSeq(cells, zero + 1, end)[i] = cells[zero + i]
    BY ONLY <2>3, PartFacts
  <2>5. end - zero = end /\ zero + 1 = 1 /\ \A i \in 1..end : zero + i = i
    BY <2>2
  <2> QED
    BY <2>1, <2>4, <2>5
<1>6. end \div Frame = k
  <2>1. end \in Nat /\ Frame \in Nat \ {0} /\ end = k * Frame + 0 /\ 0 \in 0..(Frame - 1)
    BY <1>1, <1>3
  <2> QED
    BY <2>1, DividedOnce
<1>7. PICK recovered : recovered = Recovered
  OBVIOUS
<1>8. recovered = [i \in 1..k |-> committed[i * Frame].of[3]]
  BY <1>4, <1>5, <1>6, <1>7, Zenon DEF Recovered
<1>9. IsSeq(recovered) /\ Len(recovered) = k
  <2>1. DOMAIN recovered = 1..k /\ recovered = [i \in 1..k |-> recovered[i]]
    BY <1>8
  <2> QED
    BY <2>1, FunctionIsSeq
<1>10. ASSUME NEW i \in 1..k PROVE recovered[i] = appended[i]
  <2>1. PICK q \in Nat : i = q + 1 /\ q \in 0..(k - 1)
    <3>1. i - 1 \in Nat /\ i = (i - 1) + 1 /\ i - 1 \in 0..(k - 1)
      OBVIOUS
    <3> QED
      BY <3>1
  <2>2. i * Frame = q * Frame + Frame /\ q * Frame \in Nat
    BY <1>1, <2>1, TimesStep
  <2>3. i * Frame \in 1..end
    <3>1. q < k
      BY <2>1
    <3>2. q * Frame + Frame <= k * Frame
      BY <1>1, <2>1, <3>1, TimesMonotonic
    <3> QED
      BY <1>1, <1>3, <2>2, <3>2
  <2>4. committed[i * Frame] = cells[q * Frame + Frame]
    BY <1>5, <2>2, <2>3
  <2>5. cells[q * Frame + Frame] = RecordCell(key, q, appended[q + 1], Frame)
    <3>1. Frame \in 1..Frame
      BY <1>1
    <3> QED
      BY <1>2, <2>1, <3>1
  <2>6. RecordCell(key, q, appended[q + 1], Frame).of[3] = appended[q + 1]
    BY DEF RecordCell
  <2>7. recovered[i] = committed[i * Frame].of[3]
    BY <1>8
  <2> QED
    BY <2>1, <2>4, <2>5, <2>6, <2>7
<1>11. ~TornTail => k * Frame = Len(cells)
  BY <1>2 DEF TornTail
<1> QED
  BY <1>2, <1>3, <1>4, <1>5, <1>7, <1>9, <1>10, <1>11

\* A key that a log is opened under is one of the program's, and is taken for its own.
LEMMA OpenedFacts ==
  ASSUME Opens PROVE header = "whole" /\ OpenedKey \in CandidateKeys /\ Accepts(cells, OpenedKey)
<1>1. header = "whole" /\ \E key \in CandidateKeys : Accepts(cells, key)
  BY DEF Opens, ParsesHeader
<1>2. CASE Accepts(cells, cipher.current)
  BY <1>1, <1>2 DEF OpenedKey, CandidateKeys
<1>3. CASE ~Accepts(cells, cipher.current)
  <2>1. \E key \in cipher.retired : Accepts(cells, key)
    BY <1>1, <1>3 DEF CandidateKeys
  <2>2. OpenedKey = CHOOSE key \in cipher.retired : Accepts(cells, key)
    BY <1>3 DEF OpenedKey
  <2> QED
    BY <1>1, <2>1, <2>2 DEF CandidateKeys
<1> QED
  BY <1>2, <1>3

\* The invariant says what the runs check.
LEMMA LogInvSurvives == LogInv => SyncedRecordsSurvive
<1> SUFFICES ASSUME LogInv PROVE SyncedRecordsSurvive
  OBVIOUS
<1>1. PICK key \in CandidateKeys : \E kept : LogFound(key, kept)
  BY DEF LogInv
<1>2. PICK kept : LogFound(key, kept)
  BY <1>1
<1>3. /\ Stream(cells, key, kept, appended) /\ durable * Frame <= kept
      /\ ~holed => Sound(cells, kept)
  BY <1>2 DEF LogFound
<1>4. PICK k \in Nat :
        /\ k * Frame = ScanWith(cells, OpenedKey).end
        /\ k <= Len(appended)
        /\ IsSeq(Recovered) /\ Len(Recovered) = k /\ \A i \in 1..k : Recovered[i] = appended[i]
  BY <1>3, RecoveredFacts
<1>5. IsPrefix(Recovered, appended)
  <2>1. PICK found : found = Recovered
    OBVIOUS
  <2>2. IsSeq(found) /\ Len(found) = k /\ \A i \in 1..k : found[i] = appended[i]
    BY <1>4, <2>1
  <2>3. SubSeq(found, 1, k) = found
    BY <2>2, SubSeqFull DEF IsSeq
  <2>4. SubSeq(appended, 1, k) = found
    <3>1. PICK zero \in Nat : zero = 0
      OBVIOUS
    <3>2. zero <= k
      BY <3>1
    <3>3. /\ IsSeq(SubSeq(appended, zero + 1, k)) /\ Len(SubSeq(appended, zero + 1, k)) = k - zero
          /\ \A i \in 1..(k - zero) : SubSeq(appended, zero + 1, k)[i] = appended[zero + i]
      BY ONLY <3>2, PartFacts
    <3>4. k - zero = k /\ zero + 1 = 1 /\ \A i \in 1..k : zero + i = i
      BY <3>1
    <3>5. /\ IsSeq(SubSeq(appended, 1, k)) /\ Len(SubSeq(appended, 1, k)) = k
          /\ \A i \in 1..k : SubSeq(appended, 1, k)[i] = found[i]
      BY <2>2, <3>3, <3>4
    <3> QED
      BY <2>2, <3>5, SameSeq
  <2> QED
    BY <1>4, <2>1, <2>2, <2>3, <2>4 DEF IsPrefix
<1>6. ASSUME durable > 0, ~holed PROVE Opens /\ Len(Recovered) >= durable
  <2>1. durable \in Nat /\ Frame \in Nat \ {0} /\ Sound(cells, kept)
    BY <1>3, <1>6, LogSequences
  <2>2. Accepts(cells, key) /\ ScanWith(cells, key).end >= durable * Frame
    BY <1>3, <1>6, <2>1, OwnScan
  <2>3. header = "whole"
    <3>1. appended # <<>>
      <4>1. Len(appended) # 0 /\ Len(<<>>) = 0
        BY <1>6, LogSequences DEF LogInv
      <4> QED
        BY <4>1
    <3> QED
      BY <3>1 DEF LogInv
  <2>4. Opens
    BY <1>1, <2>2, <2>3 DEF Opens, ParsesHeader
  <2>5. OpenedKey = key
    <3>1. PICK m \in Nat : durable = m + 1
      <4>1. durable - 1 \in Nat /\ durable = (durable - 1) + 1
        BY <1>6, <2>1
      <4> QED
        BY <4>1
    <3>2. durable * Frame = m * Frame + Frame /\ m * Frame \in Nat
      BY <2>1, <3>1, TimesStep
    <3>3. kept \in Nat
      BY <1>3, LogSequences DEF Stream
    <3>4. Frame <= kept
      BY <1>3, <2>1, <3>2, <3>3
    <3> QED
      BY <1>3, <2>4, <3>4, OpenedFacts, AcceptsOwn
  <2>6. durable * Frame <= k * Frame
    BY <1>4, <2>1, <2>2, <2>5
  <2>7. ~(k < durable)
    <3>1. k < durable => k * Frame + Frame <= durable * Frame
      BY <2>1, TimesMonotonic
    <3>2. k * Frame \in Nat /\ durable * Frame \in Nat
      BY <2>1, TimesStep
    <3> QED
      BY <2>1, <2>6, <3>1, <3>2
  <2> QED
    BY <1>4, <2>1, <2>4, <2>7
<1> QED
  BY <1>5, <1>6 DEF SyncedRecordsSurvive
-----------------------------------------------------------------------------
(* The steps of a log *)

\* A log whose writer is closed is as it was found.
LEMMA ClosedLog ==
  ASSUME LogInv, UNCHANGED <<cells, onDisk, appended, durable, holed>>,
         CandidateKeys \subseteq CandidateKeys', writer' \in {writer, NoWriter}, ~writer'.open,
         header' \in {"absent", "unsynced", "short", "whole"}, header = "whole" => header' = "whole"
  PROVE  LogInv'
<1>1. PICK key, kept : key \in CandidateKeys /\ LogFound(key, kept)
  BY DEF LogInv
<1>2. LogFound(key, kept)' /\ key \in CandidateKeys'
  BY <1>1 DEF LogFound
<1>3. WriterKnows'
  <2>1. writer' = [open |-> writer'.open, key |-> writer'.key, next |-> writer'.next]
    BY DEF LogInv, WriterKnows, NoWriter
  <2> QED
    BY <2>1 DEF WriterKnows
<1> QED
  BY <1>2, <1>3 DEF LogInv

LEMMA LogInitially == LogInit => LogInv
<1> SUFFICES ASSUME LogInit PROVE LogInv
  OBVIOUS
<1>1. /\ header = "absent" /\ cells = <<>> /\ appended = <<>> /\ onDisk = 0 /\ durable = 0
      /\ holed = FALSE /\ writer = NoWriter /\ Len(<<>>) = 0
  BY EmptySeq DEF LogInit
<1>2. PICK key : key = cipher.current
  OBVIOUS
<1>3. Stream(cells, key, 0, appended) /\ Sound(cells, 0)
  BY <1>1, EmptyStream
<1>4. LogFound(key, 0)
  <2>1. 0 * Frame = 0 /\ ~(0 < 0) /\ 0 <= 0
    BY FrameFacts
  <2> QED
    BY <1>1, <1>3, <2>1 DEF LogFound
<1>5. key \in CandidateKeys
  BY <1>2 DEF CandidateKeys
<1>6. WriterKnows
  BY <1>1 DEF WriterKnows, NoWriter
<1>7. onDisk \in 0..Len(cells) /\ durable \in 0..Len(appended)
  BY <1>1
<1>8. \E other \in CandidateKeys : \E kept : LogFound(other, kept)
  BY <1>4, <1>5
<1> QED
  BY <1>1, <1>6, <1>7, <1>8, Zenon DEF LogInv

LEMMA CreatedKeepsLog == LogInv /\ LogCreated => LogInv'
<1> SUFFICES ASSUME LogInv, LogCreated PROVE LogInv'
  OBVIOUS
<1>1. /\ cells = <<>> /\ appended = <<>> /\ onDisk = 0 /\ durable = 0 /\ holed \in BOOLEAN
      /\ Len(<<>>) = 0
  <2>1. header = "unsynced"
    BY DEF LogCreated
  <2>2. cells = <<>> /\ appended = <<>> /\ Len(<<>>) = 0
    BY <2>1, EmptySeq DEF LogInv
  <2> QED
    BY <2>2 DEF LogInv
<1>2. /\ header' = "whole" /\ UNCHANGED <<fileVars, cells, onDisk, appended, durable, holed>>
      /\ writer' = [open |-> TRUE, key |-> cipher.current, next |-> 0]
  BY DEF LogCreated
<1>3. PICK key : key = cipher.current /\ key = cipher'.current
  BY <1>2 DEF fileVars
<1>4. LogFound(key, 0)'
  <2>1. 0 * Frame = 0 /\ ~(0 < 0) /\ 0 <= 0
    BY FrameFacts
  <2>2. Stream(<<>>, key, 0, <<>>) /\ Sound(<<>>, 0)
    BY EmptyStream
  <2>3. cells' = <<>> /\ appended' = <<>> /\ onDisk' = 0 /\ durable' = 0
    BY <1>1, <1>2
  <2> QED
    BY <1>1, <2>1, <2>2, <2>3 DEF LogFound
<1>5. key \in CandidateKeys'
  BY <1>3 DEF CandidateKeys
<1>6. WriterKnows'
  <2>1. /\ writer' = [open |-> writer'.open, key |-> writer'.key, next |-> writer'.next]
        /\ writer'.key = key /\ writer'.next = 0
    BY <1>2, <1>3
  <2>2. Len(appended') = 0 /\ Len(cells') = 0 /\ 0 = 0 * Frame
    BY <1>1, <1>2, FrameFacts
  <2> QED
    BY <1>2, <1>3, <1>4, <2>1, <2>2 DEF WriterKnows
<1> QED
  BY <1>1, <1>2, <1>4, <1>5, <1>6 DEF LogInv

\* What is read back is the log's from then on, under the current key.
LEMMA ReopensKeepsLog == LogInv /\ LogReopens => LogInv'
<1> SUFFICES ASSUME LogInv, LogReopens PROVE LogInv'
  OBVIOUS
<1>1. PICK key, kept : key \in CandidateKeys /\ LogFound(key, kept)
  BY DEF LogInv
<1>2. PICK own : own = cipher.current /\ own = OpenedKey
  BY DEF LogReopens
<1>3. PICK k \in Nat :
        /\ k > 0 => OpenedKey = key
        /\ ~TornTail => k * Frame = Len(cells)
        /\ IsSeq(Committed) /\ Len(Committed) = k * Frame
        /\ \A i \in 1..(k * Frame) : Committed[i] = cells[i]
        /\ \A q \in 0..(k - 1) : \A r \in 1..Frame :
             cells[q * Frame + r] = RecordCell(key, q, appended[q + 1], r)
        /\ IsSeq(Recovered) /\ Len(Recovered) = k
        /\ \A i \in 1..k : Recovered[i] = appended[i]
  <2>1. Stream(cells, key, kept, appended)
    BY <1>1 DEF LogFound
  <2> QED
    BY <2>1, RecoveredFacts
<1>4. PICK bytes, records : bytes = Committed /\ records = Recovered
  OBVIOUS
<1>5. /\ IsSeq(bytes) /\ Len(bytes) = k * Frame /\ \A i \in 1..(k * Frame) : bytes[i] = cells[i]
      /\ IsSeq(records) /\ Len(records) = k /\ \A i \in 1..k : records[i] = appended[i]
  BY <1>3, <1>4
<1>6. Frame \in Nat \ {0}
  BY FrameFacts
<1>7. Stream(bytes, own, Len(bytes), records)
  <2>1. PICK end \in Nat : end = k * Frame /\ Len(bytes) = end /\ (k + 1) * Frame = end + Frame
    BY <1>5, <1>6, TimesStep
  <2>2. end \in 0..end /\ end < end + Frame
    BY <1>6, <2>1
  <2>3. ASSUME NEW q \in Nat, NEW r \in 1..Frame, q * Frame + r <= end
        PROVE  bytes[q * Frame + r] = RecordCell(own, q, RecordAt(records, q + 1), r)
    <3>1. PICK from \in Nat : from = q * Frame
      BY <1>6, TimesStep
    <3>2. q < k
      <4>1. k < q => end + Frame <= from
        BY <1>6, <2>1, <3>1, TimesMonotonic
      <4>2. k = q => end = from
        BY <2>1, <3>1
      <4> QED
        BY <1>6, <2>1, <2>3, <3>1, <4>1, <4>2
    <3>3. q \in 0..(k - 1) /\ q + 1 \in 1..k /\ q + 1 <= k /\ k > 0
      BY <3>2
    <3>4. own = key
      BY <1>2, <1>3, <3>3
    <3>5. RecordAt(records, q + 1) = appended[q + 1]
      BY <1>5, <3>3 DEF RecordAt
    <3>6. cells[q * Frame + r] = RecordCell(key, q, appended[q + 1], r)
      BY <1>3, <3>3
    <3>7. q * Frame + r \in 1..end
      BY <2>3, <3>1
    <3>8. bytes[q * Frame + r] = cells[q * Frame + r]
      BY <1>5, <2>1, <3>7
    <3> QED
      BY <3>4, <3>5, <3>6, <3>8
  <2>4. ~(end < end)
    BY <2>1
  <2> QED
    BY <1>5, <2>1, <2>2, <2>3, <2>4 DEF Stream
<1>8. /\ cells' = bytes /\ appended' = records
      /\ TornTail => onDisk' = Len(bytes) /\ durable' = Len(records)
      /\ ~TornTail => onDisk' = onDisk /\ durable' = durable
      /\ holed' = holed /\ header' = header /\ cipher' = cipher
      /\ writer' = [open |-> TRUE, key |-> own, next |-> Len(records)]
  BY <1>2, <1>4 DEF LogReopens, fileVars
<1>9. PICK end : end = Len(bytes)
  OBVIOUS
<1>10. end \in Nat /\ end = k * Frame
  BY <1>5, <1>6, <1>9, TimesStep
<1>onDisk. /\ durable' * Frame <= end /\ durable' * Frame <= onDisk'
       /\ onDisk' \in 0..Len(cells') /\ durable' \in 0..Len(appended')
  <2>1. CASE TornTail
    <3>1. onDisk' = end /\ durable' = k /\ Len(cells') = end /\ Len(appended') = k
      BY <1>5, <1>8, <1>9, <2>1
    <3> QED
      BY <1>10, <3>1
  <2>2. CASE ~TornTail
    <3>1. /\ onDisk' = onDisk /\ durable' = durable /\ Len(cells) = end /\ Len(cells') = end
          /\ Len(appended') = k
      BY <1>3, <1>5, <1>8, <1>9, <1>10, <2>2
    <3>2. /\ durable * Frame <= onDisk /\ onDisk \in 0..Len(cells) /\ durable \in Nat
          /\ durable * Frame \in Nat /\ k * Frame \in Nat
      BY <1>1, <1>6, LogSequences, TimesStep DEF LogFound, LogInv
    <3>3. ~(k < durable)
      <4>1. k < durable => k * Frame + Frame <= durable * Frame
        BY <1>6, <3>2, TimesMonotonic
      <4> QED
        BY <1>6, <1>10, <3>1, <3>2, <4>1
    <3> QED
      BY <1>10, <3>1, <3>2, <3>3
  <2> QED
    BY <2>1, <2>2
<1>11. LogFound(own, end)'
  <2>1. Stream(cells', own, end, appended')
    BY <1>7, <1>8, <1>9
  <2>2. durable' * Frame <= end /\ durable' * Frame <= onDisk'
    BY <1>onDisk
  <2>3. ~(end < Len(cells'))
    BY <1>8, <1>9, <1>10
  <2> QED
    BY <2>1, <2>2, <2>3 DEF LogFound, Sound
<1>12. own \in CandidateKeys'
  BY <1>2, <1>8 DEF CandidateKeys
<1>13. header = "whole"
  BY DEF LogReopens, Opens, ParsesHeader
<1>14. WriterKnows'
  <2>1. /\ writer' = [open |-> writer'.open, key |-> writer'.key, next |-> writer'.next]
        /\ writer'.key = cipher'.current /\ writer'.next = Len(appended')
    BY <1>2, <1>8
  <2>2. Len(cells') = Len(appended') * Frame
    BY <1>5, <1>8
  <2>3. Len(cells') = end /\ cipher'.current = own
    BY <1>2, <1>8, <1>9
  <2> QED
    BY <1>8, <1>11, <1>13, <2>1, <2>2, <2>3 DEF WriterKnows
<1>15. onDisk' \in 0..Len(cells') /\ durable' \in 0..Len(appended') /\ holed' \in BOOLEAN
  BY <1>8, <1>onDisk DEF LogInv
<1> QED
  BY <1>8, <1>11, <1>12, <1>13, <1>14, <1>15 DEF LogInv

\* The log that a writer is at the end of.
LEMMA OpenLog ==
  ASSUME LogInv, writer.open
  PROVE  \E key \in CandidateKeys : \E n \in Nat :
           /\ key = cipher.current /\ n = Len(appended) /\ header = "whole"
           /\ writer = [open |-> writer.open, key |-> key, next |-> n]
           /\ Len(cells) = n * Frame /\ Stream(cells, key, Len(cells), appended)
           /\ durable * Frame <= onDisk /\ durable * Frame <= Len(cells)
<1>1. PICK key, n : key = cipher.current /\ n = Len(appended)
  OBVIOUS
<1>2. n \in Nat
  BY <1>1, LogSequences
<1>3. /\ writer = [open |-> writer.open, key |-> writer.key, next |-> writer.next]
      /\ writer.key = key /\ writer.next = n /\ header = "whole" /\ Len(cells) = n * Frame
      /\ LogFound(key, Len(cells))
  BY <1>1, Zenon DEF LogInv, WriterKnows
<1>4. key \in CandidateKeys
  BY <1>1 DEF CandidateKeys
<1>5. writer = [open |-> writer.open, key |-> key, next |-> n]
  BY <1>3
<1>6. /\ Stream(cells, key, Len(cells), appended)
      /\ durable * Frame <= onDisk /\ durable * Frame <= Len(cells)
  BY <1>3 DEF LogFound
<1> QED
  BY <1>1, <1>2, <1>3, <1>4, <1>5, <1>6

LEMMA AppendsKeepsLog == LogInv /\ LogAppends => LogInv'
<1> SUFFICES ASSUME LogInv, LogAppends PROVE LogInv'
  OBVIOUS
<1>1. writer.open
  BY DEF LogAppends
<1>2. PICK key \in CandidateKeys, n \in Nat :
        /\ key = cipher.current /\ n = Len(appended) /\ header = "whole"
        /\ writer = [open |-> writer.open, key |-> key, next |-> n]
        /\ Len(cells) = n * Frame /\ Stream(cells, key, Len(cells), appended)
        /\ durable * Frame <= onDisk /\ durable * Frame <= Len(cells)
  BY <1>1, OpenLog
<1>3. PICK record : /\ cells' = cells \o FramedRecord(writer.key, writer.next, record)
                    /\ appended' = Append(appended, record)
  BY DEF LogAppends
<1>4. writer.key = key /\ writer.next = n
  BY <1>2
<1>5. PICK piece, more : piece = FramedRecord(key, n, record) /\ more = Append(appended, record)
  OBVIOUS
<1>6. cells' = cells \o piece /\ appended' = more
  BY <1>3, <1>4, <1>5
<1>7. /\ UNCHANGED <<fileVars, header, onDisk, durable, holed>>
      /\ writer' = [writer EXCEPT !.next = @ + 1]
  BY DEF LogAppends
<1>8. Frame \in Nat \ {0} /\ IsSeq(cells) /\ IsSeq(appended) /\ Len(cells) \in Nat /\ onDisk \in Nat /\ durable \in Nat
  BY LogSequences
<1>9. IsSeq(piece) /\ Len(piece) = Frame /\ \A r \in 1..Frame : piece[r] = RecordCell(key, n, record, r)
  BY <1>5, FramedFacts
<1>10. /\ IsSeq(more) /\ Len(more) = n + 1 /\ \A i \in 1..n : more[i] = appended[i]
       /\ more[n + 1] = record
  <2>1. IsSeq(appended)
    BY <1>8
  <2>2. /\ IsSeq(Append(appended, record)) /\ Len(Append(appended, record)) = Len(appended) + 1
        /\ \A i \in 1..Len(appended) : Append(appended, record)[i] = appended[i]
        /\ Append(appended, record)[Len(appended) + 1] = record
    BY ONLY <2>1, AppendFacts
  <2> QED
    BY <1>2, <1>5, <2>2
<1>11. /\ Stream(cells \o piece, key, Len(cells \o piece), more)
       /\ Len(cells \o piece) = n * Frame + Len(piece)
  <2>1. Stream(cells, key, Len(cells), appended) /\ n \in Nat /\ n = Len(appended) /\ Len(cells) = n * Frame
    BY <1>2
  <2>2. IsSeq(piece) /\ Len(piece) \in 0..Frame /\ \A r \in 1..Len(piece) : piece[r] = RecordCell(key, n, record, r)
    BY <1>8, <1>9
  <2>3. /\ IsSeq(more) /\ \A i \in 1..n : more[i] = appended[i]
        /\ Len(more) \in {n, n + 1} /\ (Len(piece) = Frame => Len(more) = n + 1)
        /\ RecordAt(more, n + 1) = record
    BY <1>10 DEF RecordAt
  <2>4. GrowsBy(cells, key, appended, n, piece, record, more)
    BY <2>1, <2>2, <2>3, Zenon DEF GrowsBy
  <2> QED
    BY <2>4, StreamGrows
<1>12. Len(cells') = (n + 1) * Frame /\ Len(appended') = n + 1 /\ Len(cells') = Len(cells) + Frame
  <2>1. (n + 1) * Frame = n * Frame + Frame
    BY <1>8, TimesStep
  <2> QED
    BY <1>2, <1>6, <1>9, <1>10, <1>11, <2>1
<1>13. PICK end : end = Len(cells')
  OBVIOUS
<1>14. LogFound(key, end)'
  <2>1. Stream(cells', key, end, appended')
    BY <1>6, <1>11, <1>13
  <2>2. durable' * Frame <= end /\ durable' * Frame <= onDisk'
    <3>1. durable * Frame \in Nat
      BY <1>8, TimesStep
    <3> QED
      BY <1>2, <1>7, <1>8, <1>12, <1>13, <3>1
  <2>3. end \in Nat /\ ~(end < Len(cells'))
    BY <1>8, <1>12, <1>13
  <2> QED
    BY <2>1, <2>2, <2>3 DEF LogFound, Sound
<1>15. key \in CandidateKeys' /\ key = cipher'.current
  BY <1>2, <1>7 DEF CandidateKeys, fileVars
<1>16. WriterKnows'
  <2>1. writer' = [open |-> writer.open, key |-> key, next |-> n + 1]
    BY <1>2, <1>7
  <2>2. /\ writer' = [open |-> writer'.open, key |-> writer'.key, next |-> writer'.next]
        /\ writer'.key = cipher'.current /\ writer'.next = Len(appended')
    BY <1>12, <1>15, <2>1
  <2>3. header' = "whole" /\ Len(cells') = Len(appended') * Frame /\ Len(cells') = end
    BY <1>2, <1>7, <1>12, <1>13
  <2> QED
    BY <1>14, <1>15, <2>2, <2>3 DEF WriterKnows
<1>17. onDisk' \in 0..Len(cells') /\ durable' \in 0..Len(appended') /\ holed' \in BOOLEAN
  BY <1>2, <1>7, <1>8, <1>12 DEF LogInv
<1>18. header' = "whole"
  BY <1>2, <1>7
<1> QED
  BY <1>14, <1>15, <1>16, <1>17, <1>18 DEF LogInv

\* Part of a record is the last thing in a log whose writer is gone.
LEMMA AppendFailsKeepsLog == LogInv /\ LogAppendFails => LogInv'
<1> SUFFICES ASSUME LogInv, LogAppendFails PROVE LogInv'
  OBVIOUS
<1>1. writer.open
  BY DEF LogAppendFails
<1>2. PICK key \in CandidateKeys, n \in Nat :
        /\ key = cipher.current /\ n = Len(appended) /\ header = "whole"
        /\ writer = [open |-> writer.open, key |-> key, next |-> n]
        /\ Len(cells) = n * Frame /\ Stream(cells, key, Len(cells), appended)
        /\ durable * Frame <= onDisk /\ durable * Frame <= Len(cells)
  BY <1>1, OpenLog
<1>3. PICK m \in 0..(Frame - 1) :
        cells' = cells \o SubSeq(FramedRecord(writer.key, writer.next, "x"), 1, m)
  BY DEF LogAppendFails
<1>4. writer.key = key /\ writer.next = n
  BY <1>2
<1>5. PICK framed, piece : framed = FramedRecord(key, n, "x") /\ piece = SubSeq(framed, 1, m)
  OBVIOUS
<1>6. cells' = cells \o piece
  BY <1>3, <1>4, <1>5
<1>7. /\ UNCHANGED <<fileVars, header, onDisk, appended, durable, holed>> /\ writer' = NoWriter
  BY DEF LogAppendFails
<1>8. Frame \in Nat \ {0} /\ IsSeq(appended) /\ Len(cells) \in Nat /\ onDisk \in Nat /\ durable \in Nat /\ m \in Nat
  BY LogSequences
<1>9. \A r \in 1..Frame : framed[r] = RecordCell(key, n, "x", r)
  BY <1>5, FramedFacts
<1>10. IsSeq(piece) /\ Len(piece) = m /\ \A r \in 1..m : piece[r] = RecordCell(key, n, "x", r)
  <2>1. PICK zero \in Nat : zero = 0
    OBVIOUS
  <2>2. zero <= m
    BY <1>8, <2>1
  <2>3. m \in Nat
    BY <1>8
  <2>4. /\ IsSeq(SubSeq(framed, zero + 1, m)) /\ Len(SubSeq(framed, zero + 1, m)) = m - zero
        /\ \A i \in 1..(m - zero) : SubSeq(framed, zero + 1, m)[i] = framed[zero + i]
    BY ONLY <2>2, <2>3, PartFacts
  <2>5. m - zero = m /\ zero + 1 = 1 /\ \A i \in 1..m : zero + i = i /\ i \in 1..Frame
    BY <1>8, <2>1
  <2> QED
    BY <1>5, <1>9, <2>4, <2>5
<1>11. /\ Stream(cells \o piece, key, Len(cells \o piece), appended)
       /\ Len(cells \o piece) = n * Frame + Len(piece)
  <2>1. Stream(cells, key, Len(cells), appended) /\ n \in Nat /\ n = Len(appended) /\ Len(cells) = n * Frame
    BY <1>2
  <2>2. IsSeq(piece) /\ Len(piece) \in 0..Frame /\ \A r \in 1..Len(piece) : piece[r] = RecordCell(key, n, "x", r)
    BY <1>8, <1>10
  <2>3. /\ IsSeq(appended) /\ \A i \in 1..n : appended[i] = appended[i]
        /\ Len(appended) \in {n, n + 1} /\ (Len(piece) = Frame => Len(appended) = n + 1)
        /\ RecordAt(appended, n + 1) = "x"
    BY <1>2, <1>8, <1>10 DEF RecordAt
  <2>4. GrowsBy(cells, key, appended, n, piece, "x", appended)
    BY <2>1, <2>2, <2>3, Zenon DEF GrowsBy
  <2> QED
    BY <2>4, StreamGrows
<1>12. Len(cells') = Len(cells) + m
  BY <1>2, <1>6, <1>10, <1>11
<1>13. PICK end : end = Len(cells')
  OBVIOUS
<1>14. LogFound(key, end)'
  <2>1. Stream(cells', key, end, appended')
    BY <1>6, <1>7, <1>11, <1>13
  <2>2. durable' * Frame <= end /\ durable' * Frame <= onDisk'
    <3>1. durable * Frame \in Nat
      BY <1>8, TimesStep
    <3> QED
      BY <1>2, <1>7, <1>8, <1>12, <1>13, <3>1
  <2>3. end \in Nat /\ ~(end < Len(cells'))
    BY <1>8, <1>12, <1>13
  <2> QED
    BY <2>1, <2>2, <2>3 DEF LogFound, Sound
<1>15. key \in CandidateKeys'
  BY <1>2, <1>7 DEF CandidateKeys, fileVars
<1>16. WriterKnows'
  BY <1>7 DEF WriterKnows, NoWriter
<1>17. onDisk' \in 0..Len(cells') /\ durable' \in 0..Len(appended') /\ holed' \in BOOLEAN
  BY <1>2, <1>7, <1>8, <1>12 DEF LogInv
<1>18. header' = "whole"
  BY <1>2, <1>7
<1> QED
  BY <1>14, <1>15, <1>16, <1>17, <1>18 DEF LogInv

LEMMA SyncsKeepsLog == LogInv /\ LogSyncs => LogInv'
<1> SUFFICES ASSUME LogInv, LogSyncs PROVE LogInv'
  OBVIOUS
<1>1. writer.open
  BY DEF LogSyncs
<1>2. PICK key \in CandidateKeys, n \in Nat :
        /\ key = cipher.current /\ n = Len(appended) /\ header = "whole"
        /\ writer = [open |-> writer.open, key |-> key, next |-> n]
        /\ Len(cells) = n * Frame /\ Stream(cells, key, Len(cells), appended)
        /\ durable * Frame <= onDisk /\ durable * Frame <= Len(cells)
  BY <1>1, OpenLog
<1>3. /\ UNCHANGED <<fileVars, header, cells, writer, appended, holed>>
      /\ onDisk' = Len(cells) /\ durable' = n
  BY <1>2 DEF LogSyncs
<1>4. Len(cells) \in Nat /\ n \in Nat /\ holed \in BOOLEAN
  BY LogSequences DEF LogInv
<1>5. PICK end : end = Len(cells')
  OBVIOUS
<1>6. LogFound(key, end)'
  <2>1. Stream(cells', key, end, appended')
    BY <1>2, <1>3, <1>5
  <2>2. durable' * Frame <= end /\ durable' * Frame <= onDisk'
    BY <1>2, <1>3, <1>4, <1>5
  <2>3. end \in Nat /\ ~(end < Len(cells'))
    BY <1>3, <1>4, <1>5
  <2> QED
    BY <2>1, <2>2, <2>3 DEF LogFound, Sound
<1>7. key \in CandidateKeys' /\ key = cipher'.current
  BY <1>2, <1>3 DEF CandidateKeys, fileVars
<1>8. WriterKnows'
  <2>1. /\ writer' = [open |-> writer'.open, key |-> writer'.key, next |-> writer'.next]
        /\ writer'.key = cipher'.current /\ writer'.next = Len(appended')
    BY <1>2, <1>3, <1>7
  <2>2. header' = "whole" /\ Len(cells') = Len(appended') * Frame /\ Len(cells') = end
    BY <1>2, <1>3, <1>5
  <2> QED
    BY <1>6, <1>7, <2>1, <2>2 DEF WriterKnows
<1>9. onDisk' \in 0..Len(cells') /\ durable' \in 0..Len(appended')
  BY <1>2, <1>3, <1>4
<1>10. header' = "whole" /\ holed' \in BOOLEAN
  BY <1>2, <1>3, <1>4
<1> QED
  BY <1>6, <1>7, <1>8, <1>9, <1>10 DEF LogInv

\* A crash leaves the synced records, under the same key, and no hole that it does not
\* leave a note of.
LEMMA CrashesKeepLog == LogInv /\ LogCrashes => LogInv'
<1> SUFFICES ASSUME LogInv, LogCrashes PROVE LogInv'
  OBVIOUS
<1>1. PICK key, whole : key \in CandidateKeys /\ LogFound(key, whole)
  BY DEF LogInv
<1>0. PICK len \in onDisk..Len(cells) : \E lost \in SUBSET ((onDisk + 1)..len) :
        /\ \A i \in 1..(len - 1) :
             i % Frame \in 1..(LenCells - 1) => (i \in lost <=> i + 1 \in lost)
        /\ cells' = Left(len, lost) /\ onDisk' = len
        /\ holed' = (holed \/ LeavesHole(len, lost))
  BY Zenon DEF LogCrashes
<1>2. PICK lost \in SUBSET ((onDisk + 1)..len) :
        /\ \A i \in 1..(len - 1) :
             i % Frame \in 1..(LenCells - 1) => (i \in lost <=> i + 1 \in lost)
        /\ cells' = Left(len, lost) /\ onDisk' = len
        /\ holed' = (holed \/ LeavesHole(len, lost))
  BY <1>0, Zenon
<1>3. PICK left : /\ left = [i \in 1..len |-> IF i \in lost THEN Zero ELSE cells[i]]
                  /\ cells' = left
  BY <1>2 DEF Left
<1>4. /\ header # "absent" /\ header' \in {"short", "whole", header} /\ header' # "unsynced"
      /\ header = "whole" => header' = "whole"
      /\ writer' = NoWriter /\ UNCHANGED <<fileVars, appended, durable>>
  BY DEF LogCrashes, LogInv
<1>5. /\ Frame \in Nat \ {0} /\ LenCells \in Nat /\ IsSeq(cells) /\ Len(cells) \in Nat /\ onDisk \in Nat
      /\ durable \in 0..Len(appended) /\ holed \in BOOLEAN /\ len \in Nat /\ durable \in Nat
  BY LogSequences, SealedLogAssumption DEF LogInv
<1>6. /\ Stream(cells, key, whole, appended) /\ whole \in 0..Len(cells)
      /\ durable * Frame <= whole /\ durable * Frame <= onDisk
      /\ ~holed => Sound(cells, whole)
      /\ whole < Len(cells) => onDisk = Len(cells)
  BY <1>1 DEF LogFound, Stream
<1>7. holed' \in BOOLEAN
  BY <1>2, <1>5 DEF LeavesHole
<1>8. WriterKnows'
  BY <1>4 DEF WriterKnows, NoWriter
<1>9. key \in CandidateKeys'
  BY <1>1, <1>4 DEF CandidateKeys, fileVars
<1>10. durable * Frame \in Nat
  BY <1>5, TimesStep
<1>11. CASE whole < Len(cells)
  <2>1. len = Len(cells) /\ lost = {}
    BY <1>5, <1>6, <1>11
  <2>2. cells' = cells
    <3>1. left = [i \in 1..Len(cells) |-> cells[i]]
      BY <1>3, <2>1
    <3>2. cells = [i \in 1..Len(cells) |-> cells[i]]
      BY <1>5 DEF IsSeq
    <3> QED
      BY <1>3, <3>1, <3>2
  <2>3. onDisk' = Len(cells') /\ (~holed' => ~holed)
    BY <1>2, <1>5, <2>1, <2>2
  <2>4. LogFound(key, whole)'
    <3>1. Stream(cells', key, whole, appended') /\ (~holed' => Sound(cells', whole))
      BY <1>4, <1>6, <2>2, <2>3
    <3>2. durable' * Frame <= whole /\ durable' * Frame <= onDisk'
      BY <1>2, <1>4, <1>5, <1>6, <1>10, <2>1, <2>2
    <3> QED
      BY <2>3, <3>1, <3>2 DEF LogFound
  <2>5. onDisk' \in 0..Len(cells') /\ durable' \in 0..Len(appended')
    BY <1>4, <1>5, <2>2, <2>3
  <2>6. header' # "whole" => cells' = <<>> /\ appended' = <<>>
    BY <1>4, <2>2 DEF LogInv
  <2> QED
    BY <1>4, <1>7, <1>8, <1>9, <2>4, <2>5, <2>6 DEF LogInv
<1>12. CASE whole = Len(cells)
  <2>1. PICK kept \in onDisk..len :
          /\ \A i \in lost : kept < i
          /\ kept < len => /\ kept + 1 \in lost
                           /\ ~holed' => \/ kept % Frame = 0 /\ (kept + 1)..len \subseteq lost
                                         \/ /\ kept % Frame >= LenCells
                                            /\ (kept % Frame) + (len - kept) <= Frame
    <3>1. CASE lost = {}
      <4>1. len \in onDisk..len /\ ~(len < len)
        BY <1>5
      <4> QED
        BY <3>1, <4>1
    <3>2. CASE lost # {}
      <4>1. lost \in SUBSET Nat
        BY <1>5
      <4>2. PICK f \in lost : \A i \in lost : f <= i
        BY <3>2, <4>1, LeastOf
      <4>3. f \in (onDisk + 1)..len
        BY <4>2
      <4>4. PICK kept \in onDisk..len : kept = f - 1 /\ kept + 1 = f /\ kept < len /\ kept \in Nat
        <5>1. f - 1 \in onDisk..len /\ (f - 1) + 1 = f /\ f - 1 < len /\ f - 1 \in Nat
          BY <1>5, <4>3
        <5> QED
          BY <5>1
      <4>5. \A i \in lost : kept < i
        <5>1. \A i \in lost : i \in Nat /\ f <= i
          BY <4>1, <4>2
        <5> QED
          BY <4>4, <5>1
      <4>6. PICK torn : torn = kept % Frame /\ torn = (f - 1) % Frame /\ torn \in 0..(Frame - 1)
        <5>1. kept \in Nat /\ Frame \in Nat \ {0}
          BY <1>5, <4>4
        <5>2. kept % Frame \in 0..(Frame - 1)
          BY ONLY <5>1, Divided
        <5> QED
          BY <4>4, <5>2
      <4>7. torn \notin 1..(LenCells - 1)
        <5>1. ASSUME torn \in 1..(LenCells - 1) PROVE FALSE
          <6>1. kept # 0
            <7>1. kept = 0 => kept % Frame = 0
              BY <1>5
            <7> QED
              BY <4>6, <5>1, <7>1
          <6>2. kept \in 1..(len - 1)
            BY <1>5, <4>4, <6>1
          <6>3. kept \in lost
            BY <1>2, <4>2, <4>4, <4>6, <5>1, <6>2
          <6>4. kept < kept
            BY <4>5, <6>3
          <6> QED
            BY <4>4, <6>4
        <5> QED
          BY <5>1
      <4>8. ASSUME ~holed'
            PROVE  \/ torn = 0 /\ (kept + 1)..len \subseteq lost
                   \/ torn >= LenCells /\ torn + (len - kept) <= Frame
        <5>1. ~LeavesHole(len, lost)
          BY <1>2, <4>8
        <5>2. IF torn = 0 THEN f..len \subseteq lost ELSE ~(torn + (len - kept) > Frame)
          BY <4>2, <4>4, <4>6, <5>1 DEF LeavesHole
        <5>3. CASE torn = 0
          BY <4>4, <5>2, <5>3
        <5>4. CASE torn # 0
          BY <1>5, <4>4, <4>6, <4>7, <5>2, <5>4
        <5> QED
          BY <5>3, <5>4
      <4> QED
        BY <4>2, <4>4, <4>5, <4>6, <4>8
    <3> QED
      BY <3>1, <3>2
  <2>2. Stream(left, key, kept, appended) /\ Len(left) = len
    <3>1. /\ Stream(cells, key, Len(cells), appended) /\ len \in 0..Len(cells) /\ kept \in 0..len
          /\ \A i \in lost : kept < i
          /\ kept < len => kept + 1 \in lost
      BY <1>5, <1>6, <1>12, <2>1
    <3>2. CutTo(cells, key, appended, len, kept, lost, left)
      BY <1>3, <3>1, Zenon DEF CutTo
    <3> QED
      BY <3>2, StreamCut
  <2>3. ~holed' => Sound(left, kept)
    <3>1. (kept + 1)..len \subseteq lost => \A i \in (kept + 1)..len : left[i] = Zero
      <4>1. \A i \in (kept + 1)..len : i \in 1..len
        BY <1>5
      <4> QED
        BY <1>3, <4>1
    <3> QED
      BY <2>1, <2>2, <3>1 DEF Sound
  <2>4. LogFound(key, kept)'
    <3>1. durable' * Frame <= kept /\ durable' * Frame <= onDisk' /\ onDisk' = Len(left)
      BY <1>2, <1>4, <1>5, <1>6, <1>10, <2>1, <2>2
    <3> QED
      BY <1>3, <1>4, <2>2, <2>3, <3>1 DEF LogFound
  <2>5. onDisk' \in 0..Len(cells') /\ durable' \in 0..Len(appended')
    BY <1>2, <1>3, <1>4, <1>5, <2>2
  <2>6. header' # "whole" => cells' = <<>> /\ appended' = <<>>
    <3>1. ASSUME header' # "whole" PROVE cells' = <<>> /\ appended' = <<>>
      <4>1. cells = <<>> /\ appended = <<>> /\ Len(<<>>) = 0
        BY <1>4, <3>1, EmptySeq DEF LogInv
      <4>2. Len(left) = 0 /\ IsSeq(left)
        BY <1>5, <2>2, <4>1 DEF Stream
      <4>3. left = <<>>
        BY <4>2, EmptySeq DEF IsSeq
      <4> QED
        BY <1>3, <1>4, <4>1, <4>3
    <3> QED
      BY <3>1
  <2> QED
    BY <1>4, <1>7, <1>8, <1>9, <2>4, <2>5, <2>6 DEF LogInv
<1> QED
  BY <1>5, <1>6, <1>11, <1>12

\* Rotated keys stay candidates, and a job leaves the keys and the log alone.
LEMMA CandidatesStay ==
  ASSUME JobNext \/ KeysRotated \/ UNCHANGED fileVars PROVE CandidateKeys \subseteq CandidateKeys'
<1>1. CASE KeysRotated
  BY <1>1 DEF KeysRotated, CandidateKeys
<1>2. CASE JobNext
  <2>1. UNCHANGED cipher
    BY <1>2 DEF JobNext, InPlaceStarts, JobWrites, JobFinishes, JobVerifies, JobFails, JobRenames,
                JobEnds, JobCrashes
  <2> QED
    BY <2>1 DEF CandidateKeys
<1>3. CASE UNCHANGED fileVars
  BY <1>3 DEF fileVars, CandidateKeys
<1> QED
  BY <1>1, <1>2, <1>3

LEMMA RecordsStay ==
  LogInv /\ UNCHANGED recordVars /\ cipher' = cipher => LogInv'
<1> SUFFICES ASSUME LogInv, UNCHANGED recordVars, cipher' = cipher PROVE LogInv'
  OBVIOUS
<1>1. UNCHANGED <<header, cells, onDisk, writer, appended, durable, holed, cipher>>
  BY DEF recordVars
<1>2. PICK key, kept : key \in CandidateKeys /\ LogFound(key, kept)
  BY DEF LogInv
<1>3. key \in CandidateKeys' /\ LogFound(key, kept)'
  BY <1>1, <1>2 DEF CandidateKeys, LogFound
<1>4. WriterKnows'
  BY <1>1 DEF LogInv, WriterKnows, LogFound
<1> QED
  BY <1>1, <1>3, <1>4 DEF LogInv

LEMMA RotatedKeepsLog == LogInv /\ LogKeysRotated => LogInv'
<1> SUFFICES ASSUME LogInv, LogKeysRotated PROVE LogInv'
  OBVIOUS
<1>1. ~writer.open /\ KeysRotated /\ UNCHANGED recordVars
  BY DEF LogKeysRotated
<1>2. UNCHANGED <<header, cells, onDisk, writer, appended, durable, holed>>
  BY <1>1 DEF recordVars
<1>3. CandidateKeys \subseteq CandidateKeys'
  BY <1>1, CandidatesStay
<1>4. ~writer'.open /\ header' \in {"absent", "unsynced", "short", "whole"}
  BY <1>1, <1>2 DEF LogInv
<1> QED
  BY <1>2, <1>3, <1>4, ClosedLog

LEMMA CreatesKeepsLog == LogInv /\ (LogCreates \/ LogCloses) => LogInv'
<1> SUFFICES ASSUME LogInv, LogCreates \/ LogCloses PROVE LogInv'
  OBVIOUS
<1>1. UNCHANGED <<cells, onDisk, appended, durable, holed, cipher>>
  BY DEF LogCreates, LogCloses, fileVars
<1>2. CandidateKeys \subseteq CandidateKeys'
  BY <1>1 DEF CandidateKeys
<1>3. /\ writer' \in {writer, NoWriter} /\ ~writer'.open
      /\ header' \in {header, "unsynced"} /\ (header = "whole" => header' = "whole")
  BY DEF LogCreates, LogCloses, NoWriter
<1>4. header' \in {"absent", "unsynced", "short", "whole"}
  BY <1>3 DEF LogInv
<1> QED
  BY <1>1, <1>2, <1>3, <1>4, ClosedLog

LEMMA LogInvIsInductive == LogInv /\ [LogNext]_logVars => LogInv'
<1> SUFFICES ASSUME LogInv, [LogNext]_logVars PROVE LogInv'
  OBVIOUS
<1>1. CASE JobNext /\ UNCHANGED recordVars
  <2>1. cipher' = cipher
    BY <1>1 DEF JobNext, InPlaceStarts, JobWrites, JobFinishes, JobVerifies, JobFails, JobRenames,
                JobEnds, JobCrashes
  <2> QED
    BY <1>1, <2>1, RecordsStay
<1>2. CASE LogKeysRotated
  BY <1>2, RotatedKeepsLog
<1>3. CASE LogCreates \/ LogCloses
  BY <1>3, CreatesKeepsLog
<1>4. CASE LogCreated
  BY <1>4, CreatedKeepsLog
<1>5. CASE LogReopens
  BY <1>5, ReopensKeepsLog
<1>6. CASE LogAppends
  BY <1>6, AppendsKeepsLog
<1>7. CASE LogAppendFails
  BY <1>7, AppendFailsKeepsLog
<1>8. CASE LogSyncs
  BY <1>8, SyncsKeepsLog
<1>9. CASE LogCrashes
  BY <1>9, CrashesKeepLog
<1>10. CASE CompactStarts
  BY <1>10, RecordsStay DEF CompactStarts
<1>11. CASE UNCHANGED logVars
  BY <1>11, RecordsStay DEF logVars, fileVars
<1> QED
  BY <1>1, <1>2, <1>3, <1>4, <1>5, <1>6, <1>7, <1>8, <1>9, <1>10, <1>11 DEF LogNext

-----------------------------------------------------------------------------
(* Theorems *)

LogSpec == LogInit /\ [][LogNext]_logVars

\* A log has its types at every step, through crashes and rotated keys, and the index an
\* open writer seals its next record with is the number of records before it.
THEOREM LogTypeInvariant == LogSpec => []LogTypeOK
<1>1. LogInv => LogTypeOK
  <2> SUFFICES ASSUME LogInv PROVE LogTypeOK
    OBVIOUS
  <2>1. Len(appended) \in Nat /\ Frame \in Nat
    BY LogSequences
  <2>2. Len(appended) * Frame = Frame * Len(appended)
    BY <2>1
  <2> QED
    BY <2>2 DEF LogInv, LogTypeOK, WriterKnows
<1> QED
  BY <1>1, LogInitially, LogInvIsInductive, PTL DEF LogSpec

\* Whatever a crash leaves of the records that were not synced, nothing is read that was
\* not appended, and records come back in their order. Unless it left a hole (holed), those
\* that were synced are read back, by any key the program opens the log with. It holds of
\* logs of any number of records.
THEOREM SyncedRecordsSurviveInvariant == LogSpec => []SyncedRecordsSurvive
BY LogInvSurvives, LogInitially, LogInvIsInductive, PTL DEF LogSpec

\* A log's steps are steps of its sealed file: what a compaction is handed is a sequence
\* of records, so the theorems about files hold of the files that compaction makes.
THEOREM LogHasFile == LogSpec => FileSpec
<1>1. LogInit => FileInit
  BY DEF LogInit
<1>2. LogInv /\ [LogNext]_logVars => [JobNext \/ KeysRotated \/ CompactsAny]_fileVars
  <2> SUFFICES ASSUME LogInv, [LogNext]_logVars
               PROVE  [JobNext \/ KeysRotated \/ CompactsAny]_fileVars
    OBVIOUS
  <2>1. CASE JobNext
    BY <2>1
  <2>2. CASE LogKeysRotated
    BY <2>2 DEF LogKeysRotated
  <2>3. CASE CompactStarts /\ job.pc = "idle" /\ name.kind = "absent"
    <3>1. PICK key, kept : key \in CandidateKeys /\ LogFound(key, kept)
      BY DEF LogInv
    <3>2. IsSeq(Recovered)
      BY <3>1, RecoveredFacts DEF LogFound
    <3> QED
      BY <2>3, <3>2 DEF CompactStarts, CompactsAny
  <2>4. CASE LogCreates \/ LogCreated \/ LogReopens \/ LogAppends \/ LogAppendFails \/ LogSyncs
             \/ LogCloses \/ LogCrashes
    BY <2>4 DEF LogCreates, LogCreated, LogReopens, LogAppends, LogAppendFails, LogSyncs,
                LogCloses, LogCrashes
  <2>5. CASE UNCHANGED logVars
    BY <2>5 DEF logVars
  <2> QED
    BY <2>1, <2>2, <2>3, <2>4, <2>5 DEF LogNext
<1> QED
  BY <1>1, <1>2, LogInitially, LogInvIsInductive, PTL DEF LogSpec, FileSpec
================================================================================
