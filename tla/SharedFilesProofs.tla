-------------------------- MODULE SharedFilesProofs --------------------------
(***************************************************************************)
(* Proofs about the files that several processes replace.  The shared       *)
(* tables, for any number of evaluations and candidates: what a table       *)
(* loses, it loses to a replace that overwrote rows it had not read; until  *)
(* then what is published is complete, and latest.json has the newest of it *)
(* and moves forward.  The import of a legacy CSV, for any number of        *)
(* operators and of imports that overlap, are killed or meet a full disk:   *)
(* what is exposed is an initial part of a CSV with nothing wrong in it.    *)
(***************************************************************************)
EXTENDS ResultTables, LegacyImport, TLAPS, WellFoundedInduction

(* The types the argument needs: latest.json and the clock play no part.     *)
RowTypes ==
    /\ runIndex \subseteq Evaluation
    /\ history \in [Candidate -> SUBSET Evaluation]
    /\ at \in [Evaluation -> Place]
    /\ rows \in [Evaluation -> SUBSET Evaluation]
    /\ overwritten \in BOOLEAN

(* What a writer has read is still in the table when it comes to replace it.  *)
ReadIsKept ==
    ~overwritten =>
        \A e \in Evaluation : at[e] = "appending" => rows[e] \subseteq HistoryOf(e)

RowsInv == RowTypes /\ ReadIsKept /\ NothingIsLost

-----------------------------------------------------------------------------
(* Every evaluation has a candidate with a history.                          *)
LEMMA CandidateType == \A e \in Evaluation : CandidateOf[e] \in Candidate
  BY DEF Candidate

(* The tables are empty but for the evaluations that are under way.          *)
LEMMA TablesInitInv == TablesInit => RowsInv
<1> SUFFICES ASSUME TablesInit PROVE RowsInv
  OBVIOUS
<1>1. RowTypes
  BY ResultTablesAssumption DEF TablesInit, RowTypes, Place
<1>2. ReadIsKept
  BY DEF TablesInit, ReadIsKept
<1>3. NothingIsLost
  BY DEF TablesInit, NothingIsLost
<1> QED
  BY <1>1, <1>2, <1>3 DEF RowsInv

(* A step of one process keeps the types, action by action.                  *)
LEMMA RowTypesStep ==
  ASSUME RowTypes, TablesNext
  PROVE  RowTypes'
<1> USE CandidateType DEF RowTypes, Moves, Reads, Replaces, Forgets, HistoryOf, Place
<1> PICK e \in Evaluation :
       \/ ReadIndex(e) \/ WriteIndex(e) \/ WriteManifest(e)
       \/ ReadHistory(e) \/ WriteHistory(e) \/ ReadHistoryAgain(e) \/ WriteLatest(e)
       \/ Resume(e) \/ KillWriter(e)
  BY DEF TablesNext
<1>1. CASE ReadIndex(e)         BY <1>1 DEF ReadIndex
<1>2. CASE WriteIndex(e)        BY <1>2 DEF WriteIndex
<1>3. CASE WriteManifest(e)     BY <1>3 DEF WriteManifest
<1>4. CASE ReadHistory(e)       BY <1>4 DEF ReadHistory
<1>5. CASE WriteHistory(e)
  <2>1. rows[e] \cup {e} \in SUBSET Evaluation
    OBVIOUS
  <2>2. history' \in [Candidate -> SUBSET Evaluation]
    BY <1>5, <2>1 DEF WriteHistory
  <2>3. overwritten' \in BOOLEAN
    <3>1. CASE e \in rows[e]     BY <1>5, <3>1 DEF WriteHistory
    <3>2. CASE e \notin rows[e]  BY <1>5, <3>2 DEF WriteHistory
    <3> QED                      BY <3>1, <3>2
  <2>4. runIndex' = runIndex /\ at' \in [Evaluation -> Place]
    BY <1>5 DEF WriteHistory
  <2>5. rows' \in [Evaluation -> SUBSET Evaluation]
    BY <1>5 DEF WriteHistory
  <2> QED
    BY <2>2, <2>3, <2>4, <2>5
<1>6. CASE ReadHistoryAgain(e)  BY <1>6 DEF ReadHistoryAgain
<1>7. CASE WriteLatest(e)       BY <1>7 DEF WriteLatest
<1>8. CASE Resume(e)            BY <1>8 DEF Resume
<1>9. CASE KillWriter(e)        BY <1>9 DEF KillWriter
<1> QED
  BY <1>1, <1>2, <1>3, <1>4, <1>5, <1>6, <1>7, <1>8, <1>9

(* A replace that overwrites nothing unread leaves every row in its table.    *)
LEMMA RowsStep ==
  ASSUME RowsInv, TablesNext
  PROVE  ReadIsKept' /\ NothingIsLost'
<1> RowTypes'
  BY RowTypesStep DEF RowsInv
<1> USE CandidateType DEF RowsInv, RowTypes, ReadIsKept, NothingIsLost, Moves, HistoryOf
<1> PICK e \in Evaluation :
       \/ ReadIndex(e) \/ WriteIndex(e) \/ WriteManifest(e)
       \/ ReadHistory(e) \/ WriteHistory(e) \/ ReadHistoryAgain(e) \/ WriteLatest(e)
       \/ Resume(e) \/ KillWriter(e)
  BY DEF TablesNext
<1>1. CASE ReadIndex(e)
  BY <1>1 DEF ReadIndex, Reads
<1>2. CASE WriteIndex(e)
  BY <1>2 DEF WriteIndex, Replaces, Forgets
<1>3. CASE WriteManifest(e)
  BY <1>3 DEF WriteManifest
<1>4. CASE ReadHistory(e)
  BY <1>4 DEF ReadHistory, Reads
<1>5. CASE WriteHistory(e)
  <2>1. CASE e \in rows[e]
    BY <1>5, <2>1 DEF WriteHistory, Forgets
  <2>2. CASE e \notin rows[e]
    <3>1. ASSUME ~overwritten'
          PROVE  ~overwritten /\ rows[e] = history[CandidateOf[e]]
      BY <1>5, <2>2, <3>1 DEF WriteHistory, Replaces
    <3>2. history' = [history EXCEPT ![CandidateOf[e]] = rows[e] \cup {e}]
      BY <1>5, <2>2 DEF WriteHistory
    <3>3. ASSUME ~overwritten', NEW c \in Candidate
          PROVE  history[c] \subseteq history'[c]
      BY <3>1, <3>2, <3>3
    <3>4. ReadIsKept'
      BY <1>5, <3>1, <3>3 DEF WriteHistory, Forgets
    <3>5. NothingIsLost'
      BY <1>5, <3>1, <3>2, <3>3 DEF WriteHistory
    <3> QED
      BY <3>4, <3>5
  <2> QED
    BY <2>1, <2>2
<1>6. CASE ReadHistoryAgain(e)
  BY <1>6 DEF ReadHistoryAgain, Reads
<1>7. CASE WriteLatest(e)
  BY <1>7 DEF WriteLatest, Replaces, Forgets
<1>8. CASE Resume(e)
  BY <1>8 DEF Resume
<1>9. CASE KillWriter(e)
  BY <1>9 DEF KillWriter, Forgets
<1> QED
  BY <1>1, <1>2, <1>3, <1>4, <1>5, <1>6, <1>7, <1>8, <1>9

(* The invariant of registration and publication.                            *)
THEOREM RowsInvariant == TablesSpec => []RowsInv
<1>1. TablesInit => RowsInv
  BY TablesInitInv
<1>2. RowsInv /\ [TablesNext]_tableVars => RowsInv'
  <2> SUFFICES ASSUME RowsInv, [TablesNext]_tableVars
               PROVE  RowsInv'
    OBVIOUS
  <2>1. CASE TablesNext
    BY <2>1, RowTypesStep, RowsStep DEF RowsInv
  <2>2. CASE UNCHANGED tableVars
    BY <2>2 DEF tableVars, RowsInv, RowTypes, ReadIsKept, NothingIsLost, HistoryOf
  <2> QED
    BY <2>1, <2>2
<1> QED
  BY <1>1, <1>2, PTL DEF TablesSpec

(* As long as no replace overwrote a row it had not read, every evaluation     *)
(* that ran on after registering is in run_index.csv, and every one that ran   *)
(* on after publishing is in history.csv.                                     *)
THEOREM NothingIsLostUnread == TablesSpec => []NothingIsLost
<1>1. RowsInv => NothingIsLost
  BY DEF RowsInv
<1> QED
  BY RowsInvariant, <1>1, PTL


-----------------------------------------------------------------------------
(* The order of the time stamps.                                             *)

(* Division by a positive number.                                            *)
LEMMA Division ==
  ASSUME NEW t \in Nat, NEW i \in Nat \ {0}
  PROVE  /\ t \div i \in Nat /\ t % i \in 0..(i - 1)
         /\ t = i * (t \div i) + (t % i)
<1>1. t % i \in 0..(i - 1)
  OBVIOUS
<1>2. t \div i \in Int
  OBVIOUS
<1>3. t = i * (t \div i) + (t % i)
  OBVIOUS
<1>4. t \div i >= 0
  <2> DEFINE q == t \div i
             r == t % i
  <2>1. q \in Int /\ r \in 0..(i - 1) /\ t = i * q + r
    BY <1>1, <1>2, <1>3
  <2> HIDE DEF q, r
  <2>2. SUFFICES ASSUME q <= -1 PROVE FALSE
    BY <2>1 DEF q
  <2>3. i * q <= -i
    BY <2>1, <2>2
  <2> QED
    BY <2>1, <2>3
<1> QED
  BY <1>1, <1>2, <1>3, <1>4

LEMMA Products ==
  ASSUME NEW a \in Nat, NEW b \in Nat, NEW i \in Nat, a < b
  PROVE  a * i + i <= b * i
<1>1. PICK d \in Nat : b = a + 1 + d
  <2>1. b - a - 1 \in Nat /\ b = a + 1 + (b - a - 1)
    OBVIOUS
  <2> QED
    BY <2>1
<1>2. b * i = a * i + i + d * i
  BY <1>1
<1>3. d * i \in Nat /\ a * i \in Nat
  OBVIOUS
<1> QED
  BY <1>2, <1>3

(* A set of bounded numbers that is not empty has a greatest one.             *)
LEMMA Greatest ==
  ASSUME NEW n \in Nat, NEW P, P \subseteq 0..n, P # {}
  PROVE  \E m \in P : \A x \in P : x <= m
<1> DEFINE T == {n - x : x \in P}
<1>1. T \subseteq Nat
  OBVIOUS
<1>2. T # {}
  OBVIOUS
<1> HIDE DEF T
<1>3. PICK y \in T : \A z \in T : ~(<<z, y>> \in OpToRel(<, Nat))
  BY <1>1, <1>2, NatLessThanWellFounded, WFMin
<1>4. \A z \in T : ~(z < y)
  BY <1>1, <1>3 DEF OpToRel
<1>5. PICK m \in P : y = n - m
  BY DEF T
<1>6. ASSUME NEW x \in P
      PROVE  x <= m
  <2>1. n - x \in T
    BY DEF T
  <2>2. ~(n - x < n - m)
    BY <2>1, <1>4, <1>5
  <2>3. x \in Int /\ m \in Int
    OBVIOUS
  <2> QED
    BY <2>2, <2>3
<1> QED
  BY <1>6

(* What the text of a time stamp is ordered by: the second, and within it the   *)
(* fraction, a fraction of zero last.                                        *)
LEMMA StampOrder ==
  ASSUME NEW t \in Nat, NEW u \in Nat
  PROVE  /\ StampRank(t) \in Nat
         /\ StampRank(t) <= 2 * t + InstantsPerSecond
         /\ StampRank(t) = StampRank(u) => t = u
         /\ StampRank(t) > StampRank(u) =>
              \/ t >= u
              \/ /\ t % InstantsPerSecond = 0
                 /\ t \div InstantsPerSecond = u \div InstantsPerSecond
<1> DEFINE i == InstantsPerSecond
           q == t \div i
           r == t % i
           p == u \div i
           s == u % i
           g == IF r = 0 THEN i ELSE r
           h == IF s = 0 THEN i ELSE s
<1>1. i \in Nat \ {0}
  BY ResultTablesAssumption
<1>2. /\ q \in Nat /\ r \in 0..(i - 1) /\ t = i * q + r
      /\ p \in Nat /\ s \in 0..(i - 1) /\ u = i * p + s
  BY <1>1, Division
<1>3. StampRank(t) = q * (i + 1) + g /\ StampRank(u) = p * (i + 1) + h
  BY DEF StampRank
<1> HIDE DEF i, q, r, p, s
<1>4. g \in 1..i /\ h \in 1..i
  BY <1>1, <1>2
<1>5. g = h => r = s
  BY <1>1, <1>2
<1>6. g > h => r = 0 \/ r > s
  BY <1>1, <1>2
<1> HIDE DEF g, h
<1>7. q * (i + 1) = q * i + q /\ p * (i + 1) = p * i + p
      /\ t = q * i + r /\ u = p * i + s /\ q * i \in Nat /\ p * i \in Nat
  BY <1>1, <1>2
<1>8. q < p => q * i + i <= p * i
  BY <1>1, <1>2, Products
<1>9. p < q => p * i + i <= q * i
  BY <1>1, <1>2, Products
<1>10. q <= q * i
  <2>1. CASE q = 0
    BY <2>1, <1>1
  <2>2. CASE q # 0
    <3>1. 0 * q + q <= i * q
      BY <1>1, <1>2, Products
    <3>2. i * q = q * i
      BY <1>1, <1>2
    <3> QED
      BY <3>1, <3>2, <1>2
  <2> QED
    BY <2>1, <2>2
<1> DEFINE a == q * i
           b == p * i
<1>11. /\ a \in Nat /\ b \in Nat /\ t = a + r /\ u = b + s
       /\ StampRank(t) = a + q + g /\ StampRank(u) = b + p + h
       /\ q < p => a + i <= b
       /\ p < q => b + i <= a
       /\ q = p => a = b
       /\ q <= a
  BY <1>3, <1>7, <1>8, <1>9, <1>10
<1> HIDE DEF a, b
<1>12. StampRank(t) \in Nat /\ StampRank(t) <= 2 * t + i
  BY <1>1, <1>2, <1>4, <1>11
<1>13. StampRank(t) = StampRank(u) => t = u
  BY <1>1, <1>2, <1>4, <1>5, <1>11
<1>14. StampRank(t) > StampRank(u) => t >= u \/ (r = 0 /\ q = p)
  BY <1>1, <1>2, <1>4, <1>6, <1>11
<1> QED
  BY <1>12, <1>13, <1>14 DEF i, q, r, p


-----------------------------------------------------------------------------
(* What is published.                                                        *)

(* The evaluations of a candidate that may be published.                      *)
CompleteOnes(c) == {e \in Evaluation : CandidateOf[e] = c /\ completed[e] # 0}

(* A process that has written its manifest, and none before it publishes.      *)
CompleteFirst ==
    \A e \in Evaluation :
        at[e] \in {"complete", "appending", "appended", "pointing", "published"} =>
            completed[e] # 0

(* What is in a history, named by latest.json, or read for them.              *)
OnlyComplete ==
    /\ \A c \in Candidate :
         /\ history[c] \subseteq CompleteOnes(c)
         /\ latest[c] # 0 => latest[c] \in CompleteOnes(c)
    /\ \A e \in Evaluation :
         at[e] \in {"appending", "pointing"} => rows[e] \subseteq CompleteOnes(CandidateOf[e])

(* latest.json is chosen from a history that is not empty.                    *)
SomethingToChoose ==
    \A e \in Evaluation :
        /\ at[e] = "appending" /\ rows[e] # {} => HistoryOf(e) # {}
        /\ at[e] = "appended" => HistoryOf(e) # {}
        /\ at[e] = "pointing" => rows[e] # {}

(* latest.json names a row of the history.                                   *)
LatestIsListed ==
    ~overwritten => \A c \in Candidate : latest[c] # 0 => latest[c] \in history[c]

PublishedInv ==
    TablesTypeOK /\ CompleteFirst /\ OnlyComplete /\ SomethingToChoose /\ LatestIsListed

(* The newest of some evaluations is one of them, and no other is newer.       *)
LEMMA NewestIsNewest ==
  ASSUME TablesTypeOK, NEW S, S \subseteq Evaluation, S # {}
  PROVE  Newest(S) \in S /\ \A f \in S : IsNewer(Newest(S), f)
<1> DEFINE rank(e) == StampRank(completed[e])
           bound == 2 * MaxClock + InstantsPerSecond
           R == {rank(e) : e \in S}
<1>1. bound \in Nat /\ MaxClock \in Nat
  BY ResultTablesAssumption
<1>2. ASSUME NEW e \in S
      PROVE  completed[e] \in 0..MaxClock /\ rank(e) \in 0..bound
  <2>1. completed[e] \in 0..MaxClock
    BY DEF TablesTypeOK
  <2>2. /\ completed[e] \in Nat /\ StampRank(completed[e]) \in Nat
        /\ StampRank(completed[e]) <= 2 * completed[e] + InstantsPerSecond
    BY <2>1, <1>1, StampOrder
  <2>3. 2 * completed[e] + InstantsPerSecond <= bound
    BY <1>1, <2>1, ResultTablesAssumption
  <2> HIDE DEF bound
  <2> QED
    BY <1>1, <2>1, <2>2, <2>3, ResultTablesAssumption
<1>3. \A e, f \in S : rank(e) = rank(f) => completed[e] = completed[f]
  <2> TAKE e \in S, f \in S
  <2>1. completed[e] \in Nat /\ completed[f] \in Nat
    BY <1>1, <1>2
  <2> QED
    BY <2>1, StampOrder
<1> HIDE DEF bound, rank
<1>4. R \subseteq 0..bound /\ R # {}
  BY <1>2
<1>5. PICK m \in R : \A x \in R : x <= m
  BY <1>1, <1>4, Greatest
<1> DEFINE M == {e \in S : rank(e) = m}
<1>6. M \subseteq 0..NWriters /\ M # {} /\ NWriters \in Nat
  BY <1>5, ResultTablesAssumption DEF Evaluation
<1>7. PICK e \in M : \A f \in M : f <= e
  BY <1>6, Greatest
<1>8. \A f \in S : IsNewer(e, f)
  <2> TAKE f \in S
  <2>1. rank(f) <= rank(e) /\ rank(f) \in R /\ rank(e) = m
    BY <1>5, <1>7
  <2>2. rank(f) \in 0..bound /\ rank(e) \in 0..bound
    BY <1>2, <1>7
  <2>3. CASE rank(f) = rank(e)
    <3>1. f \in M
      BY <2>1, <2>3
    <3>2. f <= e /\ e \in Nat /\ f \in Nat
      BY <1>6, <1>7, <3>1
    <3>3. completed[e] = completed[f]
      BY <1>3, <1>7, <2>3
    <3> QED
      BY <3>2, <3>3 DEF IsNewer
  <2>4. CASE rank(f) # rank(e)
    BY <1>1, <2>1, <2>2, <2>4 DEF IsNewer, rank
  <2> QED
    BY <2>3, <2>4
<1>9. \E g \in S : \A f \in S : IsNewer(g, f)
  BY <1>7, <1>8
<1> QED
  BY <1>9 DEF Newest

LEMMA PublishedInit == TablesInit => PublishedInv
<1> SUFFICES ASSUME TablesInit PROVE PublishedInv
  OBVIOUS
<1>1. TablesTypeOK
  <2>1. 0 \in 0..MaxClock /\ Registered \subseteq Evaluation
    BY ResultTablesAssumption
  <2>2. /\ completed = [e \in Evaluation |-> 0] /\ runIndex = Registered
        /\ history = [c \in Candidate |-> {}] /\ latest = [c \in Candidate |-> 0]
        /\ rows = [e \in Evaluation |-> {}] /\ overwritten = FALSE
    BY DEF TablesInit
  <2>3. completed \in [Evaluation -> 0..MaxClock]
    BY <2>1, <2>2
  <2>4. at \in [Evaluation -> Place]
    BY DEF TablesInit, Place
  <2> QED
    BY <2>1, <2>2, <2>3, <2>4 DEF TablesTypeOK
<1>2. CompleteFirst /\ SomethingToChoose
  BY DEF TablesInit, CompleteFirst, SomethingToChoose
<1>3. OnlyComplete /\ LatestIsListed
  BY DEF TablesInit, OnlyComplete, LatestIsListed
<1> QED
  BY <1>1, <1>2, <1>3 DEF PublishedInv

(* A process that writes neither a history nor latest.json, nor has read one.   *)
LEMMA UnpublishedStep ==
  ASSUME PublishedInv, NEW e \in Evaluation, NEW to \in Place,
         to \notin {"appending", "pointing"},
         at' = [at EXCEPT ![e] = to],
         at[e] = "appended" \/ to # "appended",
         to \in {"complete", "appending", "appended", "pointing", "published"} =>
            completed'[e] # 0,
         UNCHANGED <<history, latest>>,
         completed' \in [Evaluation -> 0..MaxClock],
         \A f \in Evaluation : completed[f] # 0 => completed'[f] # 0,
         rows' \in [Evaluation -> SUBSET Evaluation],
         \A f \in Evaluation : f # e => rows'[f] = rows[f],
         runIndex' \subseteq Evaluation,
         overwritten' \in BOOLEAN, overwritten => overwritten'
  PROVE  PublishedInv'
<1>1. TablesTypeOK /\ CompleteFirst /\ OnlyComplete /\ SomethingToChoose /\ LatestIsListed
  BY DEF PublishedInv
<1>2. /\ at' \in [Evaluation -> Place] /\ at'[e] = to
      /\ \A f \in Evaluation : f # e => at'[f] = at[f]
  BY <1>1 DEF TablesTypeOK
<1>3. TablesTypeOK'
  BY <1>1, <1>2 DEF TablesTypeOK
<1>4. CompleteFirst'
  BY <1>1, <1>2 DEF CompleteFirst
<1>5. \A c : CompleteOnes(c) \subseteq CompleteOnes(c)'
  BY DEF CompleteOnes
<1>6. OnlyComplete'
  BY <1>1, <1>2, <1>5, CandidateType DEF OnlyComplete
<1>7. SomethingToChoose'
  BY <1>1, <1>2 DEF SomethingToChoose, HistoryOf
<1>8. LatestIsListed'
  BY <1>1 DEF LatestIsListed
<1> QED
  BY <1>3, <1>4, <1>6, <1>7, <1>8 DEF PublishedInv

(* A process that reads a history to replace it, or to choose from it.         *)
LEMMA ReadHistoryStep ==
  ASSUME PublishedInv, NEW e \in Evaluation, ReadHistory(e) \/ ReadHistoryAgain(e)
  PROVE  PublishedInv'
<1> DEFINE c == CandidateOf[e]
<1>1. TablesTypeOK /\ CompleteFirst /\ OnlyComplete /\ SomethingToChoose /\ LatestIsListed
  BY DEF PublishedInv
<1>2. c \in Candidate
  BY CandidateType
<1>3. /\ at' \in [Evaluation -> Place]
      /\ at[e] \in {"complete", "appended"}
      /\ at'[e] = IF at[e] = "complete" THEN "appending" ELSE "pointing"
      /\ \A f \in Evaluation : f # e => at'[f] = at[f]
  BY <1>1 DEF ReadHistory, ReadHistoryAgain, Moves, TablesTypeOK, Place
<1>4. /\ rows' \in [Evaluation -> SUBSET Evaluation] /\ rows'[e] = history[c]
      /\ \A f \in Evaluation : f # e => rows'[f] = rows[f]
  BY <1>1, <1>2 DEF ReadHistory, ReadHistoryAgain, Reads, TablesTypeOK, HistoryOf
<1>5. /\ runIndex' = runIndex /\ history' = history /\ latest' = latest
      /\ completed' = completed /\ overwritten' = overwritten
  BY DEF ReadHistory, ReadHistoryAgain
<1>6. \A d : CompleteOnes(d)' = CompleteOnes(d)
  BY <1>5 DEF CompleteOnes
<1>7. TablesTypeOK'
  BY <1>1, <1>3, <1>4, <1>5 DEF TablesTypeOK
<1>8. CompleteFirst'
  BY <1>1, <1>3, <1>5 DEF CompleteFirst
<1>9. OnlyComplete'
  BY <1>1, <1>2, <1>3, <1>4, <1>5, <1>6 DEF OnlyComplete
<1>10. SomethingToChoose'
  BY <1>1, <1>3, <1>4, <1>5 DEF SomethingToChoose, HistoryOf
<1>11. LatestIsListed'
  BY <1>1, <1>5 DEF LatestIsListed
<1> QED
  BY <1>7, <1>8, <1>9, <1>10, <1>11 DEF PublishedInv

(* A history is replaced by the rows that were read and the evaluation's own,   *)
(* which is complete.                                                       *)
LEMMA WriteHistoryStep ==
  ASSUME PublishedInv, NEW e \in Evaluation, WriteHistory(e)
  PROVE  PublishedInv'
<1> DEFINE c == CandidateOf[e]
           new == rows[e] \cup {e}
<1>1. TablesTypeOK /\ CompleteFirst /\ OnlyComplete /\ SomethingToChoose /\ LatestIsListed
  BY DEF PublishedInv
<1>2. c \in Candidate /\ rows[e] \subseteq Evaluation
  BY <1>1, CandidateType DEF TablesTypeOK
<1>3. /\ at' \in [Evaluation -> Place]
      /\ at[e] = "appending" /\ at'[e] = "appended"
      /\ \A f \in Evaluation : f # e => at'[f] = at[f]
  BY <1>1 DEF WriteHistory, Moves, TablesTypeOK, Place
<1>4. /\ rows' \in [Evaluation -> SUBSET Evaluation] /\ rows'[e] = {}
      /\ \A f \in Evaluation : f # e => rows'[f] = rows[f]
  BY <1>1 DEF WriteHistory, Forgets, TablesTypeOK
<1>5. runIndex' = runIndex /\ latest' = latest /\ completed' = completed
  BY DEF WriteHistory
<1>6. \A d : CompleteOnes(d)' = CompleteOnes(d)
  BY <1>5 DEF CompleteOnes
<1>7. new \subseteq CompleteOnes(c)
  BY <1>1, <1>2, <1>3 DEF CompleteFirst, OnlyComplete, CompleteOnes
<1>8. \/ /\ e \in rows[e] /\ history' = history /\ overwritten' = overwritten
      \/ /\ history' = [history EXCEPT ![c] = new]
         /\ overwritten' = (overwritten \/ history[c] # rows[e])
  <2>1. CASE e \in rows[e]
    BY <2>1 DEF WriteHistory
  <2>2. CASE e \notin rows[e]
    BY <2>2 DEF WriteHistory, Replaces, HistoryOf
  <2> QED
    BY <2>1, <2>2
<1> HIDE DEF new
<1>9. /\ history' \in [Candidate -> SUBSET Evaluation] /\ overwritten' \in BOOLEAN
      /\ history'[c] \in {history[c], new} /\ history'[c] # {}
      /\ \A d \in Candidate : d # c => history'[d] = history[d]
      /\ overwritten => overwritten'
  <2>1. history \in [Candidate -> SUBSET Evaluation] /\ overwritten \in BOOLEAN
    BY <1>1 DEF TablesTypeOK
  <2>2. e \in rows[e] => history[c] # {}
    BY <1>1, <1>3 DEF SomethingToChoose, HistoryOf
  <2>3. new \subseteq Evaluation /\ new # {}
    BY <1>2 DEF new
  <2> HIDE DEF c
  <2> QED
    BY <1>2, <1>8, <2>1, <2>2, <2>3
<1>10. ~overwritten' => history[c] \subseteq history'[c]
  <2>1. history \in [Candidate -> SUBSET Evaluation]
    BY <1>1 DEF TablesTypeOK
  <2>2. rows[e] \subseteq new
    BY DEF new
  <2> QED
    BY <1>2, <1>8, <2>1, <2>2
<1>11. TablesTypeOK'
  BY <1>1, <1>3, <1>4, <1>5, <1>9 DEF TablesTypeOK
<1>12. CompleteFirst'
  BY <1>1, <1>3, <1>5 DEF CompleteFirst
<1>13. OnlyComplete'
  <2>1. \A d \in Candidate : history'[d] \subseteq CompleteOnes(d)
    BY <1>1, <1>2, <1>7, <1>9 DEF OnlyComplete
  <2> QED
    BY <1>1, <1>3, <1>4, <1>5, <1>6, <2>1 DEF OnlyComplete
<1>14. SomethingToChoose'
  <2>1. \A f \in Evaluation : history[CandidateOf[f]] # {} => history'[CandidateOf[f]] # {}
    BY <1>9, CandidateType
  <2> QED
    BY <1>1, <1>3, <1>4, <1>9, <2>1 DEF SomethingToChoose, HistoryOf
<1>15. LatestIsListed'
  BY <1>1, <1>5, <1>9, <1>10 DEF LatestIsListed
<1> QED
  BY <1>11, <1>12, <1>13, <1>14, <1>15 DEF PublishedInv

(* latest.json names the newest row that was read.                            *)
LEMMA WriteLatestStep ==
  ASSUME PublishedInv, NEW e \in Evaluation, WriteLatest(e)
  PROVE  PublishedInv'
<1> DEFINE c == CandidateOf[e]
           new == Newest(rows[e])
<1>1. TablesTypeOK /\ CompleteFirst /\ OnlyComplete /\ SomethingToChoose /\ LatestIsListed
  BY DEF PublishedInv
<1>2. c \in Candidate /\ rows[e] \subseteq Evaluation
  BY <1>1, CandidateType DEF TablesTypeOK
<1>3. /\ at' \in [Evaluation -> Place]
      /\ at[e] = "pointing" /\ at'[e] = "published"
      /\ \A f \in Evaluation : f # e => at'[f] = at[f]
  BY <1>1 DEF WriteLatest, Moves, TablesTypeOK, Place
<1>4. /\ rows' \in [Evaluation -> SUBSET Evaluation]
      /\ \A f \in Evaluation : f # e => rows'[f] = rows[f]
  BY <1>1 DEF WriteLatest, Forgets, TablesTypeOK
<1>5. new \in rows[e]
  BY <1>1, <1>2, <1>3, NewestIsNewest DEF SomethingToChoose
<1>6. /\ runIndex' = runIndex /\ history' = history /\ completed' = completed
      /\ latest' = [latest EXCEPT ![c] = new]
      /\ overwritten' = (overwritten \/ history[c] # rows[e])
  BY DEF WriteLatest, Replaces, HistoryOf
<1> HIDE DEF new
<1>7. \A d : CompleteOnes(d)' = CompleteOnes(d)
  BY <1>6 DEF CompleteOnes
<1>8. new \in CompleteOnes(c) /\ new \in Evaluation
  BY <1>1, <1>2, <1>3, <1>5 DEF OnlyComplete
<1>9. /\ latest' \in [Candidate -> Evaluation \cup {0}] /\ latest'[c] = new
      /\ \A d \in Candidate : d # c => latest'[d] = latest[d]
  BY <1>1, <1>2, <1>6, <1>8 DEF TablesTypeOK
<1>10. TablesTypeOK'
  BY <1>1, <1>3, <1>4, <1>6, <1>9 DEF TablesTypeOK
<1>11. CompleteFirst'
  BY <1>1, <1>3, <1>6 DEF CompleteFirst
<1>12. OnlyComplete'
  BY <1>1, <1>3, <1>4, <1>6, <1>7, <1>8, <1>9 DEF OnlyComplete
<1>13. SomethingToChoose'
  BY <1>1, <1>3, <1>4, <1>6 DEF SomethingToChoose, HistoryOf
<1>14. LatestIsListed'
  BY <1>1, <1>5, <1>6, <1>9 DEF LatestIsListed
<1> QED
  BY <1>10, <1>11, <1>12, <1>13, <1>14 DEF PublishedInv

LEMMA PublishedStep ==
  ASSUME PublishedInv, TablesNext
  PROVE  PublishedInv'
<1>1. PICK e \in Evaluation :
         \/ ReadIndex(e) \/ WriteIndex(e) \/ WriteManifest(e)
         \/ ReadHistory(e) \/ WriteHistory(e) \/ ReadHistoryAgain(e) \/ WriteLatest(e)
         \/ Resume(e) \/ KillWriter(e)
  BY DEF TablesNext
<1>2. TablesTypeOK
  BY DEF PublishedInv
<1>3. CASE ReadHistory(e) \/ ReadHistoryAgain(e)
  BY <1>3, ReadHistoryStep
<1>4. CASE WriteHistory(e)
  BY <1>4, WriteHistoryStep
<1>5. CASE WriteLatest(e)
  BY <1>5, WriteLatestStep
<1>6. CASE ReadIndex(e)
  <2>1. /\ at' = [at EXCEPT ![e] = "registering"]
        /\ rows' \in [Evaluation -> SUBSET Evaluation]
        /\ \A f \in Evaluation : f # e => rows'[f] = rows[f]
        /\ UNCHANGED <<runIndex, history, latest, completed, overwritten>>
    BY <1>2, <1>6 DEF ReadIndex, Moves, Reads, TablesTypeOK
  <2> QED
    BY <1>2, <2>1, UnpublishedStep DEF TablesTypeOK, Place
<1>7. CASE WriteIndex(e)
  <2>1. /\ at' = [at EXCEPT ![e] = "running"]
        /\ rows' \in [Evaluation -> SUBSET Evaluation]
        /\ \A f \in Evaluation : f # e => rows'[f] = rows[f]
        /\ runIndex' \subseteq Evaluation
        /\ overwritten' \in BOOLEAN
        /\ overwritten => overwritten'
        /\ UNCHANGED <<history, latest, completed>>
    BY <1>2, <1>7 DEF WriteIndex, Moves, Forgets, Replaces, TablesTypeOK
  <2> QED
    BY <1>2, <2>1, UnpublishedStep DEF TablesTypeOK, Place
<1>8. CASE WriteManifest(e)
  <2>1. PICK now \in InstantsPerSecond..MaxClock : completed' = [completed EXCEPT ![e] = now]
    BY <1>8 DEF WriteManifest
  <2>2. now \in 0..MaxClock /\ now # 0
    BY ResultTablesAssumption
  <2>3. /\ completed' \in [Evaluation -> 0..MaxClock] /\ completed'[e] # 0
        /\ \A f \in Evaluation : completed[f] # 0 => completed'[f] # 0
    BY <1>2, <2>1, <2>2 DEF TablesTypeOK
  <2>4. /\ at' = [at EXCEPT ![e] = "complete"]
        /\ UNCHANGED <<runIndex, history, latest, rows, overwritten>>
    BY <1>8 DEF WriteManifest, Moves
  <2> QED
    BY <1>2, <2>3, <2>4, UnpublishedStep DEF TablesTypeOK, Place
<1>9. CASE Resume(e)
  <2>1. /\ at' = [at EXCEPT ![e] = "running"]
        /\ UNCHANGED <<runIndex, history, latest, completed, rows, overwritten>>
    BY <1>9 DEF Resume, Moves
  <2> QED
    BY <1>2, <2>1, UnpublishedStep DEF TablesTypeOK, Place
<1>10. CASE KillWriter(e)
  <2>1. /\ at' = [at EXCEPT ![e] = "killed"]
        /\ rows' \in [Evaluation -> SUBSET Evaluation]
        /\ \A f \in Evaluation : f # e => rows'[f] = rows[f]
        /\ UNCHANGED <<runIndex, history, latest, completed, overwritten>>
    BY <1>2, <1>10 DEF KillWriter, Forgets, TablesTypeOK
  <2> QED
    BY <1>2, <2>1, UnpublishedStep DEF TablesTypeOK, Place
<1> QED
  BY <1>1, <1>3, <1>4, <1>5, <1>6, <1>7, <1>8, <1>9, <1>10

(* Every variable keeps its type, only complete evaluations are published, and  *)
(* latest.json names a row of the history unless one was overwritten unread.    *)
THEOREM PublishedInvariant == TablesSpec => []PublishedInv
<1>1. PublishedInv /\ [TablesNext]_tableVars => PublishedInv'
  <2> SUFFICES ASSUME PublishedInv, [TablesNext]_tableVars
               PROVE  PublishedInv'
    OBVIOUS
  <2>1. CASE TablesNext
    BY <2>1, PublishedStep
  <2>2. CASE UNCHANGED tableVars
    <3>1. /\ runIndex' = runIndex /\ history' = history /\ latest' = latest
          /\ completed' = completed /\ at' = at /\ rows' = rows
          /\ overwritten' = overwritten
      BY <2>2 DEF tableVars
    <3>2. \A c : CompleteOnes(c)' = CompleteOnes(c)
      BY <3>1 DEF CompleteOnes
    <3>3. TablesTypeOK' /\ CompleteFirst'
      BY <3>1 DEF PublishedInv, TablesTypeOK, CompleteFirst
    <3>4. OnlyComplete'
      BY <3>1, <3>2 DEF PublishedInv, OnlyComplete
    <3>5. SomethingToChoose' /\ LatestIsListed'
      BY <3>1 DEF PublishedInv, SomethingToChoose, LatestIsListed, HistoryOf
    <3> QED
      BY <3>3, <3>4, <3>5 DEF PublishedInv
  <2> QED
    BY <2>1, <2>2
<1> QED
  BY <1>1, PublishedInit, PTL DEF TablesSpec

(* history.csv and latest.json name only complete evaluations of their          *)
(* candidate, whatever runs overlap and wherever they are killed                *)
(* (_publish_complete of artifact_writer.py).                                *)
THEOREM CompletePublished == TablesSpec => []PublishedIsComplete
<1>1. ASSUME PublishedInv
      PROVE  PublishedIsComplete
  <2> SUFFICES ASSUME NEW c \in Candidate, NEW e \in Evaluation,
                      e \in history[c] \/ latest[c] = e
               PROVE  e \in CompleteOnes(c)
    BY DEF PublishedIsComplete, CompleteOnes
  <2>1. e # 0
    BY ResultTablesAssumption DEF Evaluation
  <2> QED
    BY <1>1, <2>1 DEF PublishedInv, OnlyComplete
<1> QED
  BY <1>1, PublishedInvariant, PTL

(* Until a replace overwrites a row it has not read, latest.json never moves to  *)
(* an evaluation that completed earlier, but for the text of whole seconds       *)
(* (latest.json is rebuilt from the history by _publish_complete).             *)
THEOREM LatestOnlyMovesForward == TablesSpec => LatestMovesForward
<1>1. ASSUME PublishedInv, [TablesNext]_tableVars, ~overwritten', NEW c \in Candidate,
             latest'[c] # latest[c], latest[c] # 0
      PROVE  LET new == completed[latest'[c]]  old == completed[latest[c]]
             IN \/ new >= old
                \/ /\ new % InstantsPerSecond = 0
                   /\ new \div InstantsPerSecond = old \div InstantsPerSecond
  <2>1. PICK e \in Evaluation : WriteLatest(e)
    BY <1>1 DEF TablesNext, tableVars, ReadIndex, WriteIndex, WriteManifest, ReadHistory,
                WriteHistory, ReadHistoryAgain, Resume, KillWriter
  <2> DEFINE chosen == Newest(rows[e])
             new == completed[chosen]
             old == completed[latest[c]]
  <2>2. /\ TablesTypeOK /\ LatestIsListed /\ rows[e] # {} /\ rows[e] \subseteq Evaluation
    BY <1>1, <2>1
       DEF PublishedInv, SomethingToChoose, TablesTypeOK, WriteLatest, Moves
  <2>3. /\ latest' = [latest EXCEPT ![CandidateOf[e]] = chosen]
        /\ ~overwritten /\ history[CandidateOf[e]] = rows[e]
    BY <1>1, <2>1 DEF WriteLatest, Replaces, HistoryOf
  <2> HIDE DEF chosen
  <2>4. c = CandidateOf[e] /\ latest'[c] = chosen
    BY <1>1, <2>2, <2>3, CandidateType DEF TablesTypeOK
  <2>5. latest[c] \in rows[e]
    BY <1>1, <2>2, <2>3, <2>4 DEF LatestIsListed
  <2>6. IsNewer(chosen, latest[c]) /\ chosen \in Evaluation /\ latest[c] \in Evaluation
    BY <2>2, <2>5, NewestIsNewest DEF chosen
  <2>7. new \in Nat /\ old \in Nat
    BY <2>2, <2>6, ResultTablesAssumption DEF TablesTypeOK
  <2>8. StampRank(new) > StampRank(old) \/ new = old
    BY <2>6 DEF IsNewer
  <2> HIDE DEF new, old
  <2>9. \/ new >= old
        \/ /\ new % InstantsPerSecond = 0
           /\ new \div InstantsPerSecond = old \div InstantsPerSecond
    BY <2>7, <2>8, StampOrder
  <2> QED
    BY <2>4, <2>9 DEF new, old
<1>2. PublishedInv /\ [TablesNext]_tableVars =>
        [~overwritten' =>
          \A c \in Candidate :
              LET new == completed[latest'[c]]  old == completed[latest[c]]
              IN latest'[c] # latest[c] /\ latest[c] # 0 =>
                     \/ new >= old
                     \/ /\ new % InstantsPerSecond = 0
                        /\ new \div InstantsPerSecond = old \div InstantsPerSecond]_tableVars
  BY <1>1
<1> QED
  BY <1>2, PublishedInvariant, PTL DEF TablesSpec, LatestMovesForward

-----------------------------------------------------------------------------
(* The inductive invariant.  The CSV is given as a whole, and nobody imports *)
(* before.                                                                  *)
GivenAtOnce ==
    \/ CsvIsGiven
    \/ /\ \A o \in Op : rowsOf[o] = "unread"
       /\ \A i \in Importer : importer[i] = "idle"

(* An import that has looked at an operator.                                 *)
HasSeen(i, o) ==
    \/ importer[i] = "inspecting" /\ o < next[i]
    \/ importer[i] \in {"staging", "renaming", "done"}

(* What it saw: rows that can be imported, and a directory for each operator  *)
(* it does not list as missing.                                             *)
SeenIsRight(i) ==
    /\ importer[i] \in {"inspecting", "staging", "renaming", "done"} =>
          \A o \in Op : rowsOf[o] # "refused"
    /\ \A o \in Op : HasSeen(i, o) =>
          /\ rowsOf[o] # "colliding"
          /\ o \notin missing[i] => target[o] # "absent"
    /\ importer[i] = "inspecting" => \A o \in missing[i] : o < next[i]

(* While it stages: the missing operators it has passed are staged, whole and *)
(* without a row the tables refuse; a partial directory is the one it is at.  *)
StagedIsWhole(i) ==
    importer[i] = "staging" =>
        \A o \in Op :
            /\ o \in staged[i] <=> o \in missing[i] /\ o < next[i]
            /\ temporary[i][o] = "whole" <=> o \in staged[i]
            /\ temporary[i][o] = "partial" => IsAt(i, o)
            /\ o \in staged[i] => rowsOf[o] # "unstorable"

(* While it renames: every missing operator was staged; those it has passed   *)
(* are in place, the others wait, whole.                                    *)
StagedIsRenamed(i) ==
    importer[i] = "renaming" =>
        \A o \in Op :
            /\ o \in staged[i] <=> o \in missing[i]
            /\ o \in missing[i] => rowsOf[o] # "unstorable"
            /\ o \in missing[i] /\ o < next[i] => target[o] # "absent"
            /\ temporary[i][o] =
                  IF o \in missing[i] /\ next[i] <= o THEN "whole" ELSE "absent"

(* Outside of the two loops nothing is staged, and after them all is in place. *)
NothingStaged(i) ==
    /\ importer[i] \notin {"staging", "renaming"} =>
          staged[i] = {} /\ \A o \in Op : temporary[i][o] = "absent"
    /\ importer[i] = "done" => \A o \in Op : target[o] # "absent"

ImporterInv(i) ==
    SeenIsRight(i) /\ StagedIsWhole(i) /\ StagedIsRenamed(i) /\ NothingStaged(i)

WholeNeverLeaks == <<"whole", "failed">> \notin leaked

ImportInv ==
    /\ ImportTypeOK
    /\ GivenAtOnce
    /\ \A i \in Importer : ImporterInv(i)
    /\ RefusedExposesNothing
    /\ ExposedInOrder
    /\ WholeNeverLeaks

-----------------------------------------------------------------------------
(* The initial state.                                                       *)
LEMMA ImportInitInv == ImportInit => ImportInv
<1> SUFFICES ASSUME ImportInit PROVE ImportInv
  OBVIOUS
<1>1. ImportTypeOK
  BY LegacyImportAssumption DEF ImportInit, ImportTypeOK, RowsOfOperator, Phase, Op
<1>2. GivenAtOnce
  BY DEF ImportInit, GivenAtOnce
<1>3. \A i \in Importer : ImporterInv(i)
  BY DEF ImportInit, ImporterInv, SeenIsRight, HasSeen, StagedIsWhole, StagedIsRenamed,
         NothingStaged
<1>4. RefusedExposesNothing /\ ExposedInOrder
  BY DEF ImportInit, RefusedExposesNothing, ExposedInOrder
<1>5. WholeNeverLeaks
  BY DEF ImportInit, WholeNeverLeaks
<1> QED
  BY <1>1, <1>2, <1>3, <1>4, <1>5 DEF ImportInv

-----------------------------------------------------------------------------
(* What an exception leaves: only directories that were not staged.          *)
LEMMA CleansUpType ==
  ASSUME ImportTypeOK, NEW i \in Importer, CleansUp(i)
  PROVE  /\ importer' \in [Importer -> Phase]
         /\ staged' \in [Importer -> SUBSET Op]
         /\ temporary' \in [Importer -> [Op -> {"absent", "partial", "whole"}]]
         /\ leaked' \subseteq {"partial", "whole"} \X {"failed", "killed"}
<1>1. importer' \in [Importer -> Phase] /\ staged' \in [Importer -> SUBSET Op]
  BY DEF ImportTypeOK, CleansUp, Phase
<1>2. temporary' \in [Importer -> [Op -> {"absent", "partial", "whole"}]]
  BY DEF ImportTypeOK, CleansUp, NoTemporary
<1>3. \A o \in Op : temporary[i][o] \in {"absent", "partial", "whole"}
  BY DEF ImportTypeOK
<1> DEFINE rest == [o \in Op |-> IF o \in staged[i] THEN "absent" ELSE temporary[i][o]]
<1>4. \A o \in {p \in Op : rest[p] # "absent"} :
          <<rest[o], "failed">> \in {"partial", "whole"} \X {"failed", "killed"}
  BY <1>3
<1>5. leaked' \subseteq {"partial", "whole"} \X {"failed", "killed"}
  <2>1. leaked' = leaked \cup {<<rest[o], "failed">> : o \in {p \in Op : rest[p] # "absent"}}
    BY DEF CleansUp
  <2>2. leaked \subseteq {"partial", "whole"} \X {"failed", "killed"}
    BY DEF ImportTypeOK
  <2> HIDE DEF rest
  <2> QED
    BY ONLY <1>4, <2>1, <2>2, ZenonT(30)
<1> QED
  BY <1>1, <1>2, <1>5

(* A step of an import keeps the types.                                      *)
LEMMA ImporterTypes ==
  ASSUME ImportTypeOK, NEW i \in Importer, StagedIsRenamed(i),
         BeginImport(i) \/ Proceed(i) \/ KillImport(i)
  PROVE  ImportTypeOK'
<1> USE LegacyImportAssumption DEF ImportTypeOK
<1>1. CASE BeginImport(i)
  BY <1>1 DEF BeginImport, Phase
<1>2. CASE Inspect(i)
  BY <1>2 DEF Inspect, Phase, Op
<1>3. CASE BeginStaging(i)
  BY <1>3 DEF BeginStaging, Phase
<1>4. ASSUME NEW o \in Op, WriteDirectory(i, o) PROVE ImportTypeOK'
  BY <1>4 DEF WriteDirectory
<1>5. ASSUME NEW o \in Op, StageDirectory(i, o) PROVE ImportTypeOK'
  BY <1>5 DEF StageDirectory, Op
<1>6. ASSUME NEW o \in Op, FailStaging(i, o) PROVE ImportTypeOK'
  <2>1. importFaults' \in 0..MaxImportFaults
    BY <1>6 DEF FailStaging
  <2> QED
    BY <1>6, <2>1, CleansUpType DEF FailStaging
<1>7. CASE BeginRenaming(i)
  BY <1>7 DEF BeginRenaming, Phase
<1>8. ASSUME NEW o \in Op, Rename(i, o) PROVE ImportTypeOK'
  <2>1. temporary[i][o] = "whole"
    BY <1>8 DEF Rename, IsAt, StagedIsRenamed
  <2> QED
    BY <1>8, <2>1 DEF Rename, Op
<1>9. ASSUME NEW o \in Op, FailRename(i, o) PROVE ImportTypeOK'
  BY <1>9, CleansUpType DEF FailRename
<1>10. CASE FinishImport(i)
  BY <1>10 DEF FinishImport, Phase
<1>11. CASE KillImport(i)
  <2>1. Leftovers(i) \subseteq {"partial", "whole"}
    BY DEF Leftovers
  <2>2. temporary' \in [Importer -> [Op -> {"absent", "partial", "whole"}]]
    BY <1>11 DEF KillImport, NoTemporary
  <2>3. importer' \in [Importer -> Phase] /\ importFaults' \in 0..MaxImportFaults
    BY <1>11 DEF KillImport, Phase
  <2> QED
    BY <1>11, <2>1, <2>2, <2>3 DEF KillImport
<1> QED
  BY <1>1, <1>2, <1>3, <1>4, <1>5, <1>6, <1>7, <1>8, <1>9, <1>10, <1>11 DEF Proceed

-----------------------------------------------------------------------------
(* Nobody takes a directory away.                                            *)
Grows == \A o \in Op : target[o] # "absent" => target'[o] # "absent"

(* A step that leaves the variables of an import alone, and takes no directory *)
(* away, keeps what holds of the import.                                     *)
LEMMA UntouchedImporter ==
  ASSUME NEW j \in Importer, ImporterInv(j), Grows, UNCHANGED rowsOf,
         importer'[j] = importer[j], next'[j] = next[j], missing'[j] = missing[j],
         staged'[j] = staged[j], temporary'[j] = temporary[j]
  PROVE  ImporterInv(j)'
<1>1. SeenIsRight(j)'
  BY DEF ImporterInv, SeenIsRight, HasSeen, Grows
<1>2. StagedIsWhole(j)'
  BY DEF ImporterInv, StagedIsWhole, IsAt
<1>3. StagedIsRenamed(j)'
  BY DEF ImporterInv, StagedIsRenamed, Grows
<1>4. NothingStaged(j)'
  BY DEF ImporterInv, NothingStaged, Grows
<1> QED
  BY <1>1, <1>2, <1>3, <1>4 DEF ImporterInv

(* Nothing of an import that is not at work matters but its directories.       *)
LEMMA RestingImporter ==
  ASSUME NEW i \in Importer, importer'[i] \in {"idle", "failed", "killed"},
         staged'[i] = {}, \A o \in Op : temporary'[i][o] = "absent"
  PROVE  ImporterInv(i)'
  BY DEF ImporterInv, SeenIsRight, HasSeen, StagedIsWhole, StagedIsRenamed, NothingStaged

(* What an import knows of the CSV and of the directories, through its steps.  *)
LEMMA BeginImportStep ==
  ASSUME ImportTypeOK, NEW i \in Importer, ImporterInv(i), BeginImport(i)
  PROVE  ImporterInv(i)'
<1>1. staged[i] = {} /\ \A o \in Op : temporary[i][o] = "absent"
  BY DEF BeginImport, ImporterInv, NothingStaged
<1>2. CASE \E o \in Op : rowsOf[o] = "refused"
  BY <1>1, <1>2, RestingImporter DEF BeginImport, ImportTypeOK
<1>3. CASE ~\E o \in Op : rowsOf[o] = "refused"
  <2>1. importer'[i] = "inspecting" /\ next'[i] = 1 /\ missing'[i] = {}
    BY <1>3 DEF BeginImport, ImportTypeOK
  <2>2. SeenIsRight(i)'
    BY <1>3, <2>1 DEF BeginImport, SeenIsRight, HasSeen, Op
  <2> QED
    BY <1>1, <2>1, <2>2 DEF BeginImport, ImporterInv, StagedIsWhole, StagedIsRenamed,
                            NothingStaged
<1> QED
  BY <1>2, <1>3

LEMMA InspectStep ==
  ASSUME ImportTypeOK, NEW i \in Importer, ImporterInv(i), Inspect(i)
  PROVE  ImporterInv(i)'
<1> DEFINE bad == rowsOf[next[i]] = "colliding" \/ target[next[i]] = "altered"
<1>1. staged[i] = {} /\ \A o \in Op : temporary[i][o] = "absent"
  BY DEF Inspect, ImporterInv, NothingStaged
<1>2. CASE bad
  BY <1>1, <1>2, RestingImporter DEF Inspect, ImportTypeOK
<1>3. CASE ~bad
  <2>1. /\ importer'[i] = "inspecting"
        /\ next'[i] = next[i] + 1
        /\ missing'[i] = IF target[next[i]] = "absent" THEN missing[i] \cup {next[i]}
                         ELSE missing[i]
    BY <1>3 DEF Inspect, ImportTypeOK
  <2>2. next[i] \in Op
    BY LegacyImportAssumption DEF Inspect, ImportTypeOK, Op
  <2>3. SeenIsRight(i)'
    <3>1. \A o \in Op : rowsOf'[o] # "refused"
      BY DEF Inspect, ImporterInv, SeenIsRight
    <3>2. ASSUME NEW o \in Op, o < next[i] + 1
          PROVE  rowsOf[o] # "colliding" /\ (o \notin missing'[i] => target[o] # "absent")
      <4>1. CASE o = next[i]
        BY <1>3, <2>1, <4>1
      <4>2. CASE o < next[i]
        BY <2>1, <4>2 DEF Inspect, ImporterInv, SeenIsRight, HasSeen
      <4> QED
        BY <2>2, <3>2, <4>1, <4>2 DEF Op
    <3>3. \A o \in missing'[i] : o < next[i] + 1
      <4>1. \A o \in missing[i] : o < next[i] /\ o \in Op
        BY DEF Inspect, ImporterInv, SeenIsRight, ImportTypeOK
      <4> QED
        BY <2>1, <2>2, <4>1 DEF Op
    <3> QED
      BY <2>1, <3>1, <3>2, <3>3 DEF Inspect, SeenIsRight, HasSeen
  <2> QED
    BY <1>1, <2>1, <2>3 DEF Inspect, ImporterInv, StagedIsWhole, StagedIsRenamed,
                            NothingStaged
<1> QED
  BY <1>2, <1>3

LEMMA BeginStagingStep ==
  ASSUME ImportTypeOK, NEW i \in Importer, ImporterInv(i), BeginStaging(i)
  PROVE  ImporterInv(i)'
<1>1. importer'[i] = "staging" /\ next'[i] = 1
  BY DEF BeginStaging, ImportTypeOK
<1>2. staged'[i] = {} /\ \A o \in Op : temporary'[i][o] = "absent"
  BY DEF BeginStaging, ImporterInv, NothingStaged
<1>3. \A o \in Op : HasSeen(i, o)
  BY LegacyImportAssumption DEF BeginStaging, HasSeen, Op
<1>4. SeenIsRight(i)'
  BY <1>1, <1>3 DEF BeginStaging, ImporterInv, SeenIsRight, HasSeen
<1>5. StagedIsWhole(i)'
  BY <1>1, <1>2 DEF StagedIsWhole, Op
<1> QED
  BY <1>1, <1>4, <1>5 DEF ImporterInv, StagedIsRenamed, NothingStaged

(* What an import saw stays right through its later loops.                    *)
LEMMA SeenStays ==
  ASSUME NEW i \in Importer, SeenIsRight(i), Grows, UNCHANGED rowsOf,
         importer[i] \in {"staging", "renaming"},
         importer'[i] \in {"staging", "renaming", "done"}, missing'[i] = missing[i]
  PROVE  SeenIsRight(i)'
  BY DEF SeenIsRight, HasSeen, Grows

(* A loop is at one operator at a time.                                      *)
LEMMA OneAtATime ==
  ASSUME ImportTypeOK, NEW i \in Importer, NEW o \in Op, NEW p \in Op,
         IsAt(i, o), IsAt(i, p)
  PROVE  o = p
  BY LegacyImportAssumption DEF IsAt, Op, ImportTypeOK

LEMMA WriteDirectoryStep ==
  ASSUME ImportTypeOK, NEW i \in Importer, ImporterInv(i), NEW o \in Op, WriteDirectory(i, o)
  PROVE  ImporterInv(i)'
<1>1. SeenIsRight(i)'
  BY SeenStays DEF WriteDirectory, ImporterInv, Grows
<1>2. \A p \in Op : temporary'[i][p] = IF p = o THEN "partial" ELSE temporary[i][p]
  BY DEF WriteDirectory, ImportTypeOK
<1>3. StagedIsWhole(i)'
  BY <1>2 DEF WriteDirectory, ImporterInv, StagedIsWhole, IsAt
<1> QED
  BY <1>1, <1>3 DEF WriteDirectory, ImporterInv, StagedIsRenamed, NothingStaged

LEMMA StageDirectoryStep ==
  ASSUME ImportTypeOK, NEW i \in Importer, ImporterInv(i), NEW o \in Op, StageDirectory(i, o)
  PROVE  ImporterInv(i)'
<1>1. SeenIsRight(i)'
  BY SeenStays DEF StageDirectory, ImporterInv, Grows
<1>2. /\ \A p \in Op : temporary'[i][p] = IF p = o THEN "whole" ELSE temporary[i][p]
      /\ staged'[i] = staged[i] \cup {o}
      /\ next'[i] = o + 1
  BY DEF StageDirectory, ImportTypeOK
<1>3. ASSUME NEW p \in Op
      PROVE  /\ p \in staged'[i] <=> p \in missing[i] /\ p < o + 1
             /\ temporary'[i][p] = "whole" <=> p \in staged'[i]
             /\ temporary'[i][p] # "partial"
             /\ p \in staged'[i] => rowsOf[p] # "unstorable"
  <2>1. StagedIsWhole(i) /\ importer[i] = "staging" /\ IsAt(i, o) /\ next[i] \in Nat
    BY LegacyImportAssumption DEF StageDirectory, ImporterInv, ImportTypeOK
  <2>2. CASE p = o
    BY <1>2, <2>1, <2>2 DEF StageDirectory, IsAt, Op
  <2>3. CASE p # o
    <3>1. p < next[i] /\ p \in missing[i] <=> p \in missing[i] /\ p < o + 1
      BY <2>1, <2>3 DEF IsAt, Op
    <3>2. temporary[i][p] # "partial"
      BY <2>1, <2>3, OneAtATime DEF StagedIsWhole
    <3> QED
      BY <1>2, <2>1, <2>3, <3>1, <3>2 DEF StagedIsWhole
  <2> QED
    BY <2>2, <2>3
<1>4. StagedIsWhole(i)'
  BY <1>2, <1>3 DEF StageDirectory, StagedIsWhole
<1> QED
  BY <1>1, <1>4 DEF StageDirectory, ImporterInv, StagedIsRenamed, NothingStaged

(* An exception ends the import, whatever it staged.                          *)
LEMMA CleansUpStep ==
  ASSUME ImportTypeOK, NEW i \in Importer, CleansUp(i)
  PROVE  ImporterInv(i)'
<1>1. /\ importer'[i] = "failed"
      /\ staged'[i] = {}
      /\ \A o \in Op : temporary'[i][o] = "absent"
  BY DEF CleansUp, ImportTypeOK, NoTemporary
<1> QED
  BY <1>1, RestingImporter

LEMMA KillImportStep ==
  ASSUME ImportTypeOK, NEW i \in Importer, KillImport(i)
  PROVE  ImporterInv(i)'
<1>1. /\ importer'[i] = "killed"
      /\ staged'[i] = {}
      /\ \A o \in Op : temporary'[i][o] = "absent"
  BY DEF KillImport, ImportTypeOK, NoTemporary
<1> QED
  BY <1>1, RestingImporter

LEMMA BeginRenamingStep ==
  ASSUME ImportTypeOK, NEW i \in Importer, ImporterInv(i), BeginRenaming(i)
  PROVE  ImporterInv(i)'
<1>1. importer'[i] = "renaming" /\ next'[i] = 1
  BY DEF BeginRenaming, ImportTypeOK
<1>2. SeenIsRight(i)'
  BY <1>1, SeenStays DEF BeginRenaming, ImporterInv, Grows
<1>3. \A o \in Op :
          /\ o \in staged[i] <=> o \in missing[i]
          /\ o \in missing[i] => rowsOf[o] # "unstorable"
          /\ temporary[i][o] = IF o \in missing[i] THEN "whole" ELSE "absent"
  <2>1. StagedIsWhole(i) /\ importer[i] = "staging" /\ next[i] \in Nat
    BY LegacyImportAssumption DEF BeginRenaming, ImporterInv, ImportTypeOK
  <2>2. \A o \in Op : temporary[i][o] # "partial"
    BY <2>1 DEF BeginRenaming, StagedIsWhole, IsAt, Op
  <2>3. \A o \in Op : temporary[i][o] \in {"absent", "partial", "whole"}
    BY DEF ImportTypeOK
  <2> QED
    BY <2>1, <2>2, <2>3 DEF BeginRenaming, StagedIsWhole
<1>4. StagedIsRenamed(i)'
  BY <1>1, <1>3 DEF BeginRenaming, StagedIsRenamed, Op
<1> QED
  BY <1>1, <1>2, <1>4 DEF ImporterInv, StagedIsWhole, NothingStaged

LEMMA RenameStep ==
  ASSUME ImportTypeOK, NEW i \in Importer, ImporterInv(i), NEW o \in Op, Rename(i, o)
  PROVE  /\ ImporterInv(i)'
         /\ Grows
         /\ target' = [target EXCEPT ![o] = "whole"]
<1>1. StagedIsRenamed(i) /\ importer[i] = "renaming" /\ IsAt(i, o) /\ next[i] \in Nat
  BY LegacyImportAssumption DEF Rename, ImporterInv, ImportTypeOK
<1>2. target' = [target EXCEPT ![o] = "whole"]
  BY <1>1 DEF Rename, StagedIsRenamed, IsAt
<1>3. Grows
  BY <1>2 DEF Grows, ImportTypeOK
<1>4. SeenIsRight(i)'
  BY <1>3, SeenStays DEF Rename, ImporterInv
<1>5. /\ \A p \in Op : temporary'[i][p] = IF p = o THEN "absent" ELSE temporary[i][p]
      /\ next'[i] = o + 1
      /\ target'[o] = "whole"
  BY <1>2 DEF Rename, ImportTypeOK
<1>6. ASSUME NEW p \in Op
      PROVE  /\ p \in missing[i] /\ p < o + 1 => target'[p] # "absent"
             /\ temporary'[i][p] =
                   IF p \in missing[i] /\ o + 1 <= p THEN "whole" ELSE "absent"
  <2>1. CASE p = o
    BY <1>5, <2>1 DEF Op
  <2>2. CASE p # o
    BY <1>1, <1>3, <1>5, <2>2 DEF StagedIsRenamed, IsAt, Op, Grows
  <2> QED
    BY <2>1, <2>2
<1>7. StagedIsRenamed(i)'
  BY <1>1, <1>5, <1>6 DEF Rename, StagedIsRenamed
<1> QED
  BY <1>2, <1>3, <1>4, <1>7 DEF Rename, ImporterInv, StagedIsWhole, NothingStaged

LEMMA FinishImportStep ==
  ASSUME ImportTypeOK, NEW i \in Importer, ImporterInv(i), FinishImport(i)
  PROVE  ImporterInv(i)'
<1>1. importer'[i] = "done" /\ staged'[i] = {}
  BY DEF FinishImport, ImportTypeOK
<1>2. SeenIsRight(i)'
  BY <1>1, SeenStays DEF FinishImport, ImporterInv, Grows
<1>3. \A o \in Op : target[o] # "absent" /\ temporary[i][o] = "absent"
  <2>1. StagedIsRenamed(i) /\ SeenIsRight(i) /\ importer[i] = "renaming" /\ next[i] \in Nat
    BY LegacyImportAssumption DEF FinishImport, ImporterInv, ImportTypeOK
  <2> QED
    BY <2>1 DEF FinishImport, StagedIsRenamed, SeenIsRight, HasSeen, Op
<1> QED
  BY <1>1, <1>2, <1>3 DEF FinishImport, ImporterInv, StagedIsWhole, StagedIsRenamed,
                          NothingStaged

-----------------------------------------------------------------------------
(* A step of one import leaves the variables of the others alone, and of the  *)
(* directories only Rename touches one.                                      *)
Touches(i) ==
    /\ \A j \in Importer : j # i =>
          /\ importer'[j] = importer[j]
          /\ next'[j] = next[j]
          /\ missing'[j] = missing[j]
          /\ staged'[j] = staged[j]
          /\ temporary'[j] = temporary[j]
    /\ UNCHANGED rowsOf
    /\ UNCHANGED target \/ \E o \in Op : Rename(i, o)

LEMMA TouchesOnlyItsOwn ==
  ASSUME ImportTypeOK, NEW i \in Importer, BeginImport(i) \/ Proceed(i) \/ KillImport(i)
  PROVE  Touches(i)
<1> USE DEF ImportTypeOK, Touches
<1>1. CASE BeginImport(i) \/ KillImport(i)
  BY <1>1 DEF BeginImport, KillImport
<1>2. CASE Inspect(i) \/ BeginStaging(i)
  BY <1>2 DEF Inspect, BeginStaging
<1>3. ASSUME NEW o \in Op, WriteDirectory(i, o) \/ StageDirectory(i, o) PROVE Touches(i)
  BY <1>3 DEF WriteDirectory, StageDirectory
<1>4. ASSUME NEW o \in Op, FailStaging(i, o) PROVE Touches(i)
  BY <1>4 DEF FailStaging, CleansUp
<1>5. CASE BeginRenaming(i) \/ FinishImport(i)
  BY <1>5 DEF BeginRenaming, FinishImport
<1>6. ASSUME NEW o \in Op, Rename(i, o) PROVE Touches(i)
  BY <1>6 DEF Rename
<1>7. ASSUME NEW o \in Op, FailRename(i, o) PROVE Touches(i)
  BY <1>7 DEF FailRename, CleansUp
<1> QED
  BY <1>1, <1>2, <1>3, <1>4, <1>5, <1>6, <1>7 DEF Proceed

(* The import itself keeps what holds of it.                                 *)
LEMMA ImporterStep ==
  ASSUME ImportTypeOK, NEW i \in Importer, ImporterInv(i),
         BeginImport(i) \/ Proceed(i) \/ KillImport(i)
  PROVE  ImporterInv(i)'
<1>1. CASE BeginImport(i) \/ KillImport(i)
  BY <1>1, BeginImportStep, KillImportStep
<1>2. CASE Inspect(i) \/ BeginStaging(i)
  BY <1>2, InspectStep, BeginStagingStep
<1>3. ASSUME NEW o \in Op, WriteDirectory(i, o) \/ StageDirectory(i, o)
      PROVE  ImporterInv(i)'
  BY <1>3, WriteDirectoryStep, StageDirectoryStep
<1>4. ASSUME NEW o \in Op, FailStaging(i, o) \/ FailRename(i, o) PROVE ImporterInv(i)'
  BY <1>4, CleansUpStep DEF FailStaging, FailRename
<1>5. CASE BeginRenaming(i) \/ FinishImport(i)
  BY <1>5, BeginRenamingStep, FinishImportStep
<1>6. ASSUME NEW o \in Op, Rename(i, o) PROVE ImporterInv(i)'
  BY <1>6, RenameStep
<1> QED
  BY <1>1, <1>2, <1>3, <1>4, <1>5, <1>6 DEF Proceed

(* When a directory gets its name, all of the CSV is good: an operator that    *)
(* was found in place shows it, and if none was, every operator is staged.    *)
LEMMA RenamedIsGood ==
  ASSUME ImportTypeOK, CsvIsGiven, RefusedExposesNothing, NEW i \in Importer,
         ImporterInv(i), NEW o \in Op, Rename(i, o)
  PROVE  \A p \in Op : rowsOf[p] = "good"
<1>1. CASE \E p \in Op : target[p] # "absent"
  BY <1>1 DEF RefusedExposesNothing
<1>2. CASE \A p \in Op : target[p] = "absent"
  <2>1. importer[i] = "renaming" /\ SeenIsRight(i) /\ StagedIsRenamed(i)
    BY DEF Rename, ImporterInv
  <2>2. \A p \in Op :
            rowsOf[p] \in RowsOfOperator \ {"unread", "refused", "colliding", "unstorable"}
    BY <1>2, <2>1 DEF SeenIsRight, HasSeen, StagedIsRenamed, ImportTypeOK, CsvIsGiven
  <2> QED
    BY <2>2 DEF RowsOfOperator
<1> QED
  BY <1>1, <1>2

(* And the directories of the operators before it are in place.              *)
LEMMA RenamedInOrder ==
  ASSUME ImportTypeOK, NEW i \in Importer, ImporterInv(i), NEW o \in Op, Rename(i, o),
         NEW p \in Op, p < o
  PROVE  target[p] # "absent"
<1>1. importer[i] = "renaming" /\ SeenIsRight(i) /\ StagedIsRenamed(i)
  BY DEF Rename, ImporterInv
<1> QED
  BY <1>1 DEF SeenIsRight, HasSeen, StagedIsRenamed, Rename, IsAt

(* What an exception leaves was not staged, so it is not whole.              *)
LEMMA WholeIsCleanedUp ==
  ASSUME ImportTypeOK, WholeNeverLeaks, NEW i \in Importer, ImporterInv(i), CleansUp(i),
         importer[i] \in {"staging", "renaming"}
  PROVE  WholeNeverLeaks'
<1> DEFINE rest == [o \in Op |-> IF o \in staged[i] THEN "absent" ELSE temporary[i][o]]
<1>1. \A o \in Op : rest[o] # "whole"
  BY DEF ImporterInv, StagedIsWhole, StagedIsRenamed
<1>2. leaked' = leaked \cup {<<rest[o], "failed">> : o \in {p \in Op : rest[p] # "absent"}}
  BY DEF CleansUp
<1> HIDE DEF rest
<1> QED
  BY <1>1, <1>2 DEF WholeNeverLeaks

LEMMA LeakedStep ==
  ASSUME ImportTypeOK, WholeNeverLeaks, NEW i \in Importer, ImporterInv(i),
         BeginImport(i) \/ Proceed(i) \/ KillImport(i)
  PROVE  WholeNeverLeaks'
<1>1. CASE BeginImport(i)
  BY <1>1 DEF BeginImport, WholeNeverLeaks
<1>2. CASE KillImport(i)
  BY <1>2 DEF KillImport, WholeNeverLeaks
<1>3. CASE Inspect(i) \/ BeginStaging(i) \/ BeginRenaming(i) \/ FinishImport(i)
  BY <1>3 DEF Inspect, BeginStaging, BeginRenaming, FinishImport, WholeNeverLeaks
<1>4. ASSUME NEW o \in Op,
             WriteDirectory(i, o) \/ StageDirectory(i, o) \/ Rename(i, o)
      PROVE  WholeNeverLeaks'
  BY <1>4 DEF WriteDirectory, StageDirectory, Rename, WholeNeverLeaks
<1>5. ASSUME NEW o \in Op, FailStaging(i, o) \/ FailRename(i, o) PROVE WholeNeverLeaks'
  BY <1>5, WholeIsCleanedUp DEF FailStaging, FailRename
<1> QED
  BY <1>1, <1>2, <1>3, <1>4, <1>5 DEF Proceed
-----------------------------------------------------------------------------
(* What the directories show survives a step of an import.                    *)
LEMMA TargetsStep ==
  ASSUME ImportInv, CsvIsGiven, NEW i \in Importer, Touches(i)
  PROVE  Grows /\ RefusedExposesNothing' /\ ExposedInOrder'
<1>1. CASE UNCHANGED target
  BY <1>1 DEF ImportInv, Touches, Grows, RefusedExposesNothing, ExposedInOrder
<1>2. ASSUME NEW o \in Op, Rename(i, o)
      PROVE  Grows /\ RefusedExposesNothing' /\ ExposedInOrder'
  <2>1. Grows /\ target' = [target EXCEPT ![o] = "whole"]
    BY <1>2, RenameStep DEF ImportInv
  <2>2. RefusedExposesNothing'
    BY <1>2, RenamedIsGood DEF ImportInv, Touches, RefusedExposesNothing
  <2>3. ASSUME NEW q \in Op, target'[q] # "absent", NEW p \in 1..q
        PROVE  target'[p] # "absent"
    <3>1. p \in Op /\ (p = q \/ p < q)
      BY LegacyImportAssumption DEF Op
    <3>2. CASE q = o
      BY <1>2, <2>1, <3>1, <3>2, RenamedInOrder DEF ImportInv, ImportTypeOK, Grows
    <3>3. CASE q # o
      BY <2>1, <2>3, <3>1, <3>3 DEF ImportInv, ImportTypeOK, ExposedInOrder, Grows
    <3> QED
      BY <3>2, <3>3
  <2> QED
    BY <2>1, <2>2, <2>3 DEF ExposedInOrder
<1> QED
  BY <1>1, <1>2 DEF Touches

(* The CSV is given once, before anything was imported.                       *)
LEMMA GiveCsvStep ==
  ASSUME ImportInv, GiveCsv
  PROVE  ImportInv'
<1>1. ImportTypeOK'
  BY DEF ImportInv, GiveCsv, ImportTypeOK
<1>2. CsvIsGiven'
  BY DEF GiveCsv, CsvIsGiven, RowsOfOperator
<1>3. 1 \in Op /\ rowsOf[1] # "good"
  BY LegacyImportAssumption DEF GiveCsv, Op
<1>4. (\A o \in Op : target[o] = "absent") /\ \A i \in Importer : importer[i] = "idle"
  BY <1>3 DEF ImportInv, RefusedExposesNothing, GivenAtOnce, CsvIsGiven, GiveCsv
<1>5. ASSUME NEW i \in Importer PROVE ImporterInv(i)'
  BY <1>4 DEF ImportInv, GiveCsv, ImporterInv, SeenIsRight, HasSeen, StagedIsWhole,
              StagedIsRenamed, NothingStaged
<1> QED
  BY <1>1, <1>2, <1>4, <1>5 DEF ImportInv, GiveCsv, GivenAtOnce, RefusedExposesNothing,
                               ExposedInOrder, WholeNeverLeaks

LEMMA AlterStep ==
  ASSUME ImportInv, NEW o \in Op, Alter(o)
  PROVE  ImportInv'
<1>1. ImportTypeOK'
  BY LegacyImportAssumption DEF ImportInv, Alter, ImportTypeOK
<1>2. \A p \in Op : target[p] = "absent" <=> target'[p] = "absent"
  BY DEF ImportInv, Alter, ImportTypeOK
<1>3. \A i \in Importer : ImporterInv(i)'
  BY <1>2, UntouchedImporter DEF ImportInv, Alter, Grows
<1>4. RefusedExposesNothing'
  BY <1>2 DEF ImportInv, Alter, RefusedExposesNothing
<1>5. ExposedInOrder'
  <2>1. \A q \in Op : 1..q \subseteq Op
    BY LegacyImportAssumption DEF Op
  <2> QED
    BY <1>2, <2>1 DEF ImportInv, ExposedInOrder
<1> QED
  BY <1>1, <1>3, <1>4, <1>5 DEF ImportInv, Alter, GivenAtOnce, CsvIsGiven, WholeNeverLeaks

LEMMA ImportNextInv == ImportInv /\ [ImportNext]_importVars => ImportInv'
<1> SUFFICES ASSUME ImportInv, [ImportNext]_importVars PROVE ImportInv'
  OBVIOUS
<1>1. CASE UNCHANGED importVars
  BY <1>1 DEF importVars, ImportInv, ImportTypeOK, GivenAtOnce, CsvIsGiven, ImporterInv,
              SeenIsRight, HasSeen, StagedIsWhole, StagedIsRenamed, NothingStaged, IsAt,
              RefusedExposesNothing, ExposedInOrder, WholeNeverLeaks
<1>2. CASE GiveCsv
  BY <1>2, GiveCsvStep
<1>3. ASSUME NEW o \in Op, Alter(o) PROVE ImportInv'
  BY <1>3, AlterStep
<1>4. ASSUME CsvIsGiven, NEW i \in Importer, BeginImport(i) \/ Proceed(i) \/ KillImport(i)
      PROVE  ImportInv'
  <2>1. ImportTypeOK'
    BY <1>4, ImporterTypes DEF ImportInv, ImporterInv
  <2>2. Touches(i)
    BY <1>4, TouchesOnlyItsOwn DEF ImportInv
  <2>3. Grows /\ RefusedExposesNothing' /\ ExposedInOrder'
    BY <1>4, <2>2, TargetsStep
  <2>4. CsvIsGiven'
    BY <1>4, <2>2 DEF Touches, CsvIsGiven
  <2>5. ASSUME NEW j \in Importer PROVE ImporterInv(j)'
    <3>1. CASE j = i
      BY <1>4, <3>1, ImporterStep DEF ImportInv
    <3>2. CASE j # i
      BY <2>2, <2>3, <3>2, UntouchedImporter DEF ImportInv, Touches
    <3> QED
      BY <3>1, <3>2
  <2>6. WholeNeverLeaks'
    BY <1>4, LeakedStep DEF ImportInv
  <2> QED
    BY <2>1, <2>3, <2>4, <2>5, <2>6 DEF ImportInv, GivenAtOnce
<1> QED
  BY <1>1, <1>2, <1>3, <1>4 DEF ImportNext

-----------------------------------------------------------------------------
(* The inductive invariant holds of every behaviour: what each import staged   *)
(* and found, while others rename directories under its eyes.                *)
THEOREM ImportInvariant == ImportSpec => []ImportInv
<1> QED
  BY ImportInitInv, ImportNextInv, PTL DEF ImportSpec

(* Every variable keeps its type.                                            *)
THEOREM ImportTypes == ImportSpec => []ImportTypeOK
<1>1. ImportInv => ImportTypeOK
  BY DEF ImportInv
<1> QED
  BY <1>1, ImportInvariant, PTL

(* convert_legacy_csv exposes nothing of a CSV with anything wrong in it, the   *)
(* directories of a good one in order, and an exception leaves no directory   *)
(* that was staged: however many imports overlap, fail or are killed.         *)
THEOREM ImportsAreOrderly == ImportSpec => []ImportIsOrderly
<1>1. ASSUME ImportInv PROVE ImportIsOrderly
  <2>1. ASSUME NEW i \in Importer, importer[i] = "done"
        PROVE  Leftovers(i) = {} /\ \A o \in Op : target[o] # "absent"
    BY <1>1, <2>1 DEF ImportInv, ImporterInv, NothingStaged, Leftovers
  <2> QED
    BY <1>1, <2>1 DEF ImportInv, ImportIsOrderly, ImportCleansUp, WholeNeverLeaks
<1>2. ImportInv => ImportIsOrderly
  BY <1>1
<1> QED
  BY <1>2, ImportInvariant, PTL

(* replace_directory never changes a directory that is in place: only a user   *)
(* does.                                                                    *)
THEOREM ImportedStays == ImportSpec => ImportedIsKept
<1>1. ASSUME ImportInv, [ImportNext]_importVars, NEW o \in Op, target[o] # "absent"
      PROVE  target'[o] = target[o] \/ alterations' # alterations
  <2>1. CASE UNCHANGED importVars \/ GiveCsv
    BY <2>1 DEF importVars, GiveCsv
  <2>2. ASSUME NEW p \in Op, Alter(p) PROVE alterations' # alterations
    BY <1>1, <2>2 DEF Alter, ImportInv, ImportTypeOK
  <2>3. ASSUME NEW i \in Importer, BeginImport(i) \/ Proceed(i) \/ KillImport(i)
        PROVE  target'[o] = target[o]
    <3>1. UNCHANGED target \/ \E p \in Op : Rename(i, p)
      BY <1>1, <2>3, TouchesOnlyItsOwn DEF ImportInv, Touches
    <3> QED
      BY <1>1, <3>1 DEF Rename, ImportInv, ImportTypeOK
  <2> QED
    BY <1>1, <2>1, <2>2, <2>3 DEF ImportNext
<1>2. ImportInv /\ [ImportNext]_importVars =>
          [\A o \in Op : target[o] # "absent" =>
              target'[o] = target[o] \/ alterations' # alterations]_importVars
  BY <1>1
<1> QED
  BY <1>2, ImportInvariant, PTL DEF ImportSpec, ImportedIsKept

=============================================================================
