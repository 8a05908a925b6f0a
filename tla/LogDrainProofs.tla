--------------------------- MODULE LogDrainProofs ---------------------------
(***************************************************************************)
(* Proofs about the drained output of a worker, for every size of its log,  *)
(* of its tail, of a chunk and of the pipe, and for any number of attempts, *)
(* kills and full disks: the log keeps its limit, tells whether it is whole *)
(* and in order, and the tail is the end of the attempt.                    *)
(***************************************************************************)
EXTENDS LogDrain, TLAPS, SequenceTheorems

\* the units that the thread has dealt with
Seen == output - Len(pipe) - Len(chunk)

\* what the markers that were cut may add to the log
Slack(faults) == faults * (MarkerSize - 1)

-----------------------------------------------------------------------------
(* The pipe and the chunk hold the units that follow, in order.               *)
InTransit ==
    /\ first <= Seen
    /\ \A i \in 1..Len(chunk) : chunk[i] = Seen + i
    /\ \A i \in 1..Len(pipe) : pipe[i] = Seen + Len(chunk) + i
    /\ drain = "writing" => chunk # <<>>
    /\ drain \in {"ended", "failed"} => pipe = <<>> /\ chunk = <<>>

(* The units of the file are in order, and among those that were dealt with.   *)
FileInOrder ==
    /\ \A i \in 1..Len(file) : file[i] <= Seen
    /\ \A i, j \in 1..Len(file) :
          i < j /\ file[i] # Marker /\ file[j] # Marker => file[i] < file[j]

(* The thread knows whether the marker is there, and how much still fits.      *)
ThreadKnows ==
    PipeIsRead =>
        /\ markerWritten <=> HasMarker(file)
        /\ truncated <=> markerWritten
        /\ ~markerWritten => written = Least(Len(file), ContentLimit)

(* Beyond the content there is one marker, and parts of others.               *)
FileInv ==
    Len(file) <= ContentLimit + Slack(drainFaults)
                 + (IF HasMarker(file) THEN MarkerSize ELSE 0)

(* A marker stands for a unit that the thread left out; without one it has     *)
(* kept all of the attempt.                                                  *)
MarkerInv ==
    /\ HasMarker(file) => \E n \in 1..Seen : \A i \in 1..Len(file) : file[i] # n
    /\ drain # "failed" /\ ~HasMarker(file) =>
          \A n \in (first + 1)..Seen : \E i \in 1..Len(file) : file[i] = n

LogInv ==
    LogTypeOK /\ InTransit /\ FileInOrder /\ ThreadKnows /\ FileInv /\ MarkerInv /\ TailIsRecent

-----------------------------------------------------------------------------
(* Numbers.                                                                  *)
LEMMA Sizes ==
  /\ MarkerSize \in Nat \ {0} /\ FileLimit \in Nat
  /\ SummaryLimit \in Nat \ {0} /\ ChunkSize \in Nat \ {0} /\ PipeSize \in Nat \ {0}
  /\ MaxOutput \in Nat /\ MaxRuns \in Nat /\ MaxDrainFaults \in Nat
  /\ ContentLimit \in Nat /\ ContentLimit + MarkerSize = FileLimit
<1>1. /\ MarkerSize \in Nat \ {0} /\ FileLimit \in Nat /\ FileLimit > MarkerSize
      /\ SummaryLimit \in Nat \ {0} /\ ChunkSize \in Nat \ {0} /\ PipeSize \in Nat \ {0}
  BY LogDrainAssumption
<1>2. MaxOutput \in Nat /\ MaxRuns \in Nat /\ MaxDrainFaults \in Nat
  BY LogDrainAssumption
<1> QED
  BY <1>1, <1>2 DEF ContentLimit

LEMMA SlackGrows ==
  ASSUME NEW f \in Nat
  PROVE  /\ Slack(f) \in Nat
         /\ Slack(f + 1) = Slack(f) + (MarkerSize - 1)
<1>1. MarkerSize - 1 \in Nat
  BY Sizes
<1> DEFINE m == MarkerSize - 1
<1>2. \A k \in Nat : f * k \in Nat /\ (f + 1) * k = f * k + k
  OBVIOUS
<1>3. f * m \in Nat /\ (f + 1) * m = f * m + m
  BY <1>1, <1>2
<1> QED
  BY <1>3 DEF Slack

LEMMA Leasts ==
  ASSUME NEW a \in Nat, NEW b \in Nat
  PROVE  Least(a, b) \in Nat /\ Least(a, b) <= a /\ Least(a, b) <= b
         /\ (Least(a, b) = a \/ Least(a, b) = b)
  BY DEF Least

LEMMA UnitsAreNumbers ==
  ASSUME NEW s \in Seq(Unit \cup {Marker})
  PROVE  s \in Seq(Nat)
<1>1. Unit \cup {Marker} \subseteq Nat
  BY DEF Unit, Marker
<1>2. Len(s) \in Nat /\ s \in [1..Len(s) -> Unit \cup {Marker}]
  OBVIOUS
<1>3. s \in [1..Len(s) -> Nat]
  BY <1>1, <1>2
<1> QED
  BY <1>2, <1>3

(* What the state is made of.                                                *)
LEMMA Parts ==
  ASSUME LogTypeOK
  PROVE  /\ Len(chunk) \in Nat /\ Len(pipe) \in Nat /\ Len(file) \in Nat /\ Len(tail) \in Nat
         /\ \A i \in 1..Len(chunk) : chunk[i] \in Nat \ {Marker} /\ chunk[i] \in Unit
         /\ \A i \in 1..Len(file) : file[i] \in Nat
         /\ output \in Nat /\ first \in Nat /\ written \in Nat /\ drainFaults \in Nat
         /\ Seen \in Int
         /\ Remaining \in Nat
<1>1. Len(chunk) \in Nat /\ Len(pipe) \in Nat /\ Len(file) \in Nat /\ Len(tail) \in Nat
  BY DEF LogTypeOK
<1>2. \A i \in 1..Len(chunk) : chunk[i] \in Unit
  BY DEF LogTypeOK
<1>3. Unit \subseteq Nat \ {Marker}
  BY DEF Unit, Marker
<1>4. \A i \in 1..Len(file) : file[i] \in Unit \cup {Marker}
  BY DEF LogTypeOK
<1>5. output \in Nat /\ first \in Nat /\ drainFaults \in Nat
  BY Sizes DEF LogTypeOK
<1>6. written \in Nat /\ written <= ContentLimit
  BY Sizes DEF LogTypeOK
<1>7. Seen \in Int
  BY <1>1, <1>5 DEF Seen
<1>8. Remaining \in Nat
  BY <1>6, Sizes DEF Remaining
<1>9. \A i \in 1..Len(file) : file[i] \in Nat
  <2>1. Marker \in Nat /\ Unit \subseteq Nat
    BY DEF Marker, Unit
  <2> QED
    BY <1>4, <2>1
<1> QED
  BY <1>1, <1>2, <1>3, <1>5, <1>6, <1>7, <1>8, <1>9

-----------------------------------------------------------------------------
(* The marker in a log, unit by unit.                                        *)
MarkedAt(log, i) ==
    /\ i + MarkerSize - 1 <= Len(log)
    /\ \A j \in i..(i + MarkerSize - 1) : log[j] = Marker

LEMMA HasMarkerByUnit ==
  ASSUME NEW log \in Seq(Nat)
  PROVE  HasMarker(log) <=> \E i \in 1..Len(log) : MarkedAt(log, i)
<1> SUFFICES ASSUME NEW i \in 1..Len(log), i + MarkerSize - 1 <= Len(log)
             PROVE  SubSeq(log, i, i + MarkerSize - 1) = MarkerText
                    <=> \A j \in i..(i + MarkerSize - 1) : log[j] = Marker
  BY DEF HasMarker, MarkedAt
<1> DEFINE s == SubSeq(log, i, i + MarkerSize - 1)
<1>1. /\ MarkerSize \in Nat /\ s \in Seq(Nat) /\ Len(s) = MarkerSize
      /\ \A k \in 1..MarkerSize : s[k] = log[i + k - 1]
  <2>1. MarkerSize \in Nat \ {0} /\ i + MarkerSize - 1 \in Nat /\ i \in Nat \ {0}
        /\ Len(log) \in Nat
    BY Sizes
  <2>2. i + MarkerSize - 1 \in i-1 .. Len(log)
    BY <2>1
  <2> QED
    BY <2>1, <2>2, SubSeqProperties
<1>2. DOMAIN s = 1..MarkerSize
  BY <1>1
<1>3. ASSUME s = MarkerText, NEW j \in i..(i + MarkerSize - 1) PROVE log[j] = Marker
  <2>1. j - i + 1 \in 1..MarkerSize /\ i + (j - i + 1) - 1 = j
    BY <1>1
  <2>2. s[j - i + 1] = Marker
    BY <1>3, <2>1 DEF MarkerText
  <2> QED
    BY <1>1, <2>1, <2>2
<1>4. ASSUME \A j \in i..(i + MarkerSize - 1) : log[j] = Marker PROVE s = MarkerText
  <2>1. \A k \in 1..MarkerSize : i + k - 1 \in i..(i + MarkerSize - 1)
    BY <1>1
  <2>2. \A k \in 1..MarkerSize : s[k] = Marker
    BY <1>1, <1>4, <2>1
  <2>3. s = [k \in 1..MarkerSize |-> s[k]]
    BY <1>1, <1>2
  <2> HIDE DEF s
  <2> QED
    BY <2>2, <2>3 DEF MarkerText
<1> QED
  BY <1>3, <1>4

(* A log that grows keeps its marker, ...                                     *)
LEMMA MarkerStays ==
  ASSUME NEW log \in Seq(Nat), NEW more \in Seq(Nat), HasMarker(log),
         Len(log) <= Len(more), \A i \in 1..Len(log) : more[i] = log[i]
  PROVE  HasMarker(more)
<1>1. PICK i \in 1..Len(log) : MarkedAt(log, i)
  BY HasMarkerByUnit
<1>2. Len(log) \in Nat /\ Len(more) \in Nat /\ MarkerSize \in Nat \ {0}
  BY Sizes
<1>3. i + MarkerSize - 1 <= Len(log) /\ \A j \in i..(i + MarkerSize - 1) : log[j] = Marker
  BY <1>1 DEF MarkedAt
<1>4. \A j \in i..(i + MarkerSize - 1) : j \in 1..Len(log)
  BY <1>2, <1>3
<1>5. i \in 1..Len(more) /\ i + MarkerSize - 1 <= Len(more)
  BY <1>2, <1>3
<1>6. MarkedAt(more, i)
  BY <1>3, <1>4, <1>5 DEF MarkedAt
<1> QED
  BY <1>5, <1>6, HasMarkerByUnit

(* ... and has a new one only if a marker unit was added.                      *)
LEMMA MarkerComesFromMarker ==
  ASSUME NEW log \in Seq(Nat), NEW more \in Seq(Nat), HasMarker(more),
         Len(log) <= Len(more), \A i \in 1..Len(log) : more[i] = log[i],
         \A i \in (Len(log) + 1)..Len(more) : more[i] # Marker
  PROVE  HasMarker(log)
<1>1. PICK i \in 1..Len(more) : MarkedAt(more, i)
  BY HasMarkerByUnit
<1>2. i + MarkerSize - 1 \in i..(i + MarkerSize - 1) /\ i + MarkerSize - 1 \in Nat
  BY Sizes
<1>3. more[i + MarkerSize - 1] = Marker /\ i + MarkerSize - 1 <= Len(more)
  BY <1>1, <1>2 DEF MarkedAt
<1>4. i + MarkerSize - 1 <= Len(log)
  BY <1>2, <1>3
<1>5. i \in 1..Len(log) /\ MarkedAt(log, i)
  BY SMTT(30), <1>1, <1>4, Sizes DEF MarkedAt
<1> QED
  BY <1>5, HasMarkerByUnit

-----------------------------------------------------------------------------
(* What an iteration appends: nothing when the marker is there, otherwise what  *)
(* still fits of the chunk and, if that is not all of it, the marker.         *)
Fitting == Least(Remaining, Len(chunk))

LEMMA AdditionByUnit ==
  ASSUME LogTypeOK
  PROVE  /\ Addition \in Seq(Unit \cup {Marker})
         /\ markerWritten => Addition = <<>> /\ Part = <<>>
         /\ ~markerWritten =>
               /\ Fitting \in Nat /\ Fitting <= Len(chunk) /\ Fitting <= Remaining
               /\ Len(Part) = Fitting
               /\ Len(Addition) = Fitting + (IF Overflows(chunk) THEN MarkerSize ELSE 0)
               /\ \A i \in 1..Len(Addition) :
                     Addition[i] = IF i <= Fitting THEN chunk[i] ELSE Marker
               /\ Overflows(chunk) => Fitting = Remaining
               /\ ~Overflows(chunk) => Fitting = Len(chunk)
<1>1. /\ Len(chunk) \in Nat /\ Remaining \in Nat
      /\ \A i \in 1..Len(chunk) : chunk[i] \in Unit
  BY Parts
<1>2. MarkerText \in Seq(Unit \cup {Marker}) /\ Len(MarkerText) = MarkerSize
      /\ \A i \in 1..MarkerSize : MarkerText[i] = Marker
  BY Sizes DEF MarkerText
<1>3. CASE markerWritten
  <2>1. Part = <<>>
    BY <1>3 DEF Part
  <2>2. Addition = <<>>
    BY <1>3, <2>1 DEF Addition
  <2> QED
    BY <1>3, <2>1, <2>2
<1>4. CASE ~markerWritten
  <2>1. /\ Fitting \in Nat /\ Fitting <= Len(chunk) /\ Fitting <= Remaining
        /\ Overflows(chunk) => Fitting = Remaining
        /\ ~Overflows(chunk) => Fitting = Len(chunk)
    BY <1>1 DEF Fitting, Least, Overflows
  <2>2. Part = SubSeq(chunk, 1, Fitting)
    BY <1>4 DEF Part, FirstUnits, Fitting
  <2>3. \A i \in 1..Fitting : chunk[i] \in Unit \cup {Marker}
    BY <1>1, <2>1
  <2>4. /\ Part \in Seq(Unit \cup {Marker})
        /\ Len(Part) = Fitting
        /\ \A i \in 1..Fitting : Part[i] = chunk[i]
    BY <2>1, <2>2, <2>3, SubSeqProperties
  <2>5. CASE Overflows(chunk)
    <3>1. Addition = Part \o MarkerText
      BY <1>4, <2>5 DEF Addition
    <3>2. /\ Addition \in Seq(Unit \cup {Marker})
          /\ Len(Addition) = Fitting + MarkerSize
          /\ \A i \in 1..Fitting : Addition[i] = Part[i]
          /\ \A i \in (Fitting + 1)..(Fitting + MarkerSize) :
                Addition[i] = MarkerText[i - Fitting]
      <4> DEFINE p == Part
                 t == MarkerText
      <4>1. /\ p \in Seq(Unit \cup {Marker}) /\ Len(p) = Fitting /\ Fitting \in Nat
            /\ t \in Seq(Unit \cup {Marker}) /\ Len(t) = MarkerSize /\ Addition = p \o t
        BY <1>2, <2>1, <2>4, <3>1
      <4> HIDE DEF p, t
      <4>2. /\ Addition \in Seq(Unit \cup {Marker})
            /\ Len(Addition) = Fitting + MarkerSize
            /\ \A i \in 1..Fitting : Addition[i] = p[i]
            /\ \A i \in (Fitting + 1)..(Fitting + MarkerSize) : Addition[i] = t[i - Fitting]
        <5>1. /\ Addition \in Seq(Unit \cup {Marker})
              /\ Len(Addition) = Fitting + MarkerSize
              /\ \A i \in 1..(Fitting + MarkerSize) :
                    Addition[i] = IF i <= Fitting THEN p[i] ELSE t[i - Fitting]
          BY ONLY <4>1, ConcatProperties
        <5> HIDE DEF Addition
        <5> QED
          BY ONLY <4>1, <5>1, Sizes
      <4> QED
        BY <4>2 DEF p, t
    <3>3. \A i \in 1..Len(Addition) :
              Addition[i] = IF i <= Fitting THEN chunk[i] ELSE Marker
      <4>1. ASSUME NEW i \in 1..Len(Addition), i > Fitting PROVE Addition[i] = Marker
        <5>1. i \in (Fitting + 1)..(Fitting + MarkerSize) /\ i - Fitting \in 1..MarkerSize
          BY <2>1, <3>2, <4>1, Sizes
        <5> QED
          BY <1>2, <3>2, <5>1
      <4>2. ASSUME NEW i \in 1..Len(Addition), i <= Fitting PROVE Addition[i] = chunk[i]
        BY <2>1, <2>4, <3>2, <4>2
      <4> QED
        BY <2>1, <4>1, <4>2
    <3> QED
      BY <1>4, <2>1, <2>4, <2>5, <3>2, <3>3
  <2>6. CASE ~Overflows(chunk)
    <3>1. Addition = Part
      BY <1>4, <2>4, <2>6 DEF Addition
    <3> QED
      BY <1>4, <2>1, <2>4, <2>6, <3>1
  <2> QED
    BY <2>5, <2>6
<1> QED
  BY <1>3, <1>4

(* The file after the first n units of an addition.                           *)
Grown(n) == file \o SubSeq(Addition, 1, n)

LEMMA GrownByUnit ==
  ASSUME LogTypeOK, NEW n \in 0..Len(Addition)
  PROVE  /\ Grown(n) \in Seq(Unit \cup {Marker})
         /\ Len(Grown(n)) = Len(file) + n
         /\ \A i \in 1..Len(file) : Grown(n)[i] = file[i]
         /\ \A i \in 1..n : Grown(n)[Len(file) + i] = Addition[i]
<1>1. Addition \in Seq(Unit \cup {Marker}) /\ file \in Seq(Unit \cup {Marker})
  BY AdditionByUnit DEF LogTypeOK
<1> DEFINE s == SubSeq(Addition, 1, n)
<1>2. Len(Addition) \in Nat /\ \A i \in 1..n : Addition[i] \in Unit \cup {Marker}
  BY <1>1
<1>3. s \in Seq(Unit \cup {Marker}) /\ Len(s) = n /\ \A i \in 1..n : s[i] = Addition[i]
  BY <1>2, SubSeqProperties
<1> HIDE DEF s
<1>4. /\ file \o s \in Seq(Unit \cup {Marker})
      /\ Len(file \o s) = Len(file) + n
      /\ \A i \in 1..Len(file) : (file \o s)[i] = file[i]
      /\ \A i \in 1..n : (file \o s)[Len(file) + i] = s[i]
  BY SMTT(30), <1>1, <1>3
<1> QED
  BY <1>3, <1>4 DEF Grown, s

LEMMA GrownWhole ==
  ASSUME LogTypeOK
  PROVE  Grown(Len(Addition)) = file \o Addition
<1>1. SubSeq(Addition, 1, Len(Addition)) = Addition
  BY AdditionByUnit, SubSeqFull
<1> QED
  BY <1>1 DEF Grown

-----------------------------------------------------------------------------
(* What the units of the grown file are.                                      *)
LEMMA GrownUnits ==
  ASSUME LogTypeOK, InTransit, NEW n \in 0..Len(Addition), NEW i \in 1..Len(Grown(n))
  PROVE  \/ i \in 1..Len(file) /\ Grown(n)[i] = file[i]
         \/ /\ i > Len(file) /\ ~markerWritten
            /\ i - Len(file) \in 1..Fitting
            /\ Grown(n)[i] = Seen + (i - Len(file))
         \/ /\ i > Len(file) /\ ~markerWritten /\ Overflows(chunk)
            /\ i - Len(file) > Fitting
            /\ Grown(n)[i] = Marker
<1>1. /\ Len(file) \in Nat /\ Len(Grown(n)) = Len(file) + n /\ Len(Addition) \in Nat
      /\ \A k \in 1..Len(file) : Grown(n)[k] = file[k]
      /\ \A k \in 1..n : Grown(n)[Len(file) + k] = Addition[k]
  BY SMTT(30), GrownByUnit, AdditionByUnit, Parts
<1>2. CASE i \in 1..Len(file)
  BY <1>1, <1>2
<1>3. CASE i \notin 1..Len(file)
  <2> DEFINE k == i - Len(file)
  <2>1. k \in 1..n /\ k \in 1..Len(Addition) /\ i > Len(file) /\ i = Len(file) + k
    BY <1>1, <1>3
  <2>2. Grown(n)[i] = Addition[k]
    BY <1>1, <2>1
  <2>3. ~markerWritten
    <3>1. CASE markerWritten
      <4>1. Addition = <<>>
        BY <3>1, AdditionByUnit
      <4> QED
        BY <2>1, <4>1
    <3> QED
      BY <3>1
  <2>4. /\ Fitting \in Nat /\ Fitting <= Len(chunk)
        /\ Addition[k] = IF k <= Fitting THEN chunk[k] ELSE Marker
        /\ Len(Addition) = Fitting + (IF Overflows(chunk) THEN MarkerSize ELSE 0)
    BY <2>1, <2>3, AdditionByUnit
  <2>5. CASE k <= Fitting
    <3>1. k \in 1..Fitting /\ k \in 1..Len(chunk)
      BY <2>1, <2>4, <2>5, Parts
    <3>2. chunk[k] = Seen + k
      BY <3>1 DEF InTransit
    <3> QED
      BY <2>1, <2>2, <2>3, <2>4, <2>5, <3>1, <3>2
  <2>6. CASE k > Fitting
    <3>1. Overflows(chunk)
      BY <1>1, <2>1, <2>4, <2>6
    <3> QED
      BY <2>1, <2>2, <2>3, <2>4, <2>6, <3>1
  <2> QED
    BY <1>1, <2>1, <2>4, <2>5, <2>6
<1> QED
  BY <1>2, <1>3

LEMMA GrownInOrder ==
  ASSUME LogTypeOK, InTransit, FileInOrder, NEW n \in 0..Len(Addition)
  PROVE  /\ \A i \in 1..Len(Grown(n)) : Grown(n)[i] <= Seen + Len(chunk)
         /\ \A i, j \in 1..Len(Grown(n)) :
               i < j /\ Grown(n)[i] # Marker /\ Grown(n)[j] # Marker =>
                  Grown(n)[i] < Grown(n)[j]
<1>1. /\ Len(file) \in Nat /\ Len(chunk) \in Nat /\ Seen \in Int /\ 0 <= Seen
      /\ \A i \in 1..Len(file) : file[i] \in Nat
  BY Parts DEF InTransit
<1>2. \A i \in 1..Len(file) : file[i] <= Seen
  BY DEF FileInOrder
<1>3. ~markerWritten => Fitting \in Nat /\ Fitting <= Len(chunk)
  BY AdditionByUnit
<1>4. ASSUME NEW i \in 1..Len(Grown(n))
      PROVE  /\ i \in 1..Len(file) => Grown(n)[i] = file[i] /\ Grown(n)[i] <= Seen
             /\ i \notin 1..Len(file) =>
                   \/ Grown(n)[i] = Marker
                   \/ /\ Grown(n)[i] = Seen + (i - Len(file))
                      /\ i - Len(file) \in 1..Len(chunk)
  BY <1>1, <1>2, <1>3, GrownUnits
<1>5. \A i \in 1..Len(Grown(n)) : Grown(n)[i] <= Seen + Len(chunk)
  BY <1>1, <1>4 DEF Marker
<1>6. ASSUME NEW i \in 1..Len(Grown(n)), NEW j \in 1..Len(Grown(n)), i < j,
             Grown(n)[i] # Marker, Grown(n)[j] # Marker
      PROVE  Grown(n)[i] < Grown(n)[j]
  <2>0. Len(Grown(n)) \in Nat
    BY GrownByUnit
  <2>1. CASE j \in 1..Len(file)
    <3>1. i \in 1..Len(file)
      BY <1>1, <1>6, <2>0, <2>1
    <3> QED
      BY <1>4, <1>6, <2>1, <3>1 DEF FileInOrder
  <2>2. CASE j \notin 1..Len(file)
    <3>1. Grown(n)[j] = Seen + (j - Len(file)) /\ j - Len(file) \in 1..Len(chunk)
      BY <1>4, <1>6, <2>2
    <3>2. CASE i \in 1..Len(file)
      <4>1. Grown(n)[i] <= Seen /\ Grown(n)[i] \in Nat
        BY <1>1, <1>4, <3>2
      <4> QED
        BY <1>1, <3>1, <4>1
    <3>3. CASE i \notin 1..Len(file)
      <4>1. Grown(n)[i] = Seen + (i - Len(file))
        BY <1>4, <1>6, <3>3
      <4> QED
        BY <1>1, <1>6, <2>0, <3>1, <4>1
    <3> QED
      BY <3>2, <3>3
  <2> QED
    BY <2>1, <2>2
<1> QED
  BY <1>5, <1>6

(* The whole addition to a file without a marker has one if it overflows.       *)
LEMMA WholeMarker ==
  ASSUME LogTypeOK, ~markerWritten, Overflows(chunk)
  PROVE  HasMarker(Grown(Len(Addition)))
<1> DEFINE n == Len(Addition)
           i == Len(file) + Fitting + 1
<1>1. /\ Fitting \in Nat /\ n = Fitting + MarkerSize /\ n \in Nat
      /\ \A k \in 1..n : Addition[k] = IF k <= Fitting THEN chunk[k] ELSE Marker
  BY AdditionByUnit
<1>2. /\ Grown(n) \in Seq(Unit \cup {Marker}) /\ Len(Grown(n)) = Len(file) + n
      /\ \A k \in 1..n : Grown(n)[Len(file) + k] = Addition[k]
  <2>1. n \in 0..Len(Addition)
    BY <1>1
  <2> QED
    BY <2>1, GrownByUnit
<1>3. Grown(n) \in Seq(Nat) /\ Len(file) \in Nat /\ MarkerSize \in Nat \ {0}
  BY <1>2, UnitsAreNumbers, Sizes, Parts
<1> HIDE DEF n
<1>4. i \in 1..Len(Grown(n)) /\ i + MarkerSize - 1 <= Len(Grown(n))
  BY <1>1, <1>2, <1>3
<1>5. ASSUME NEW j \in i..(i + MarkerSize - 1) PROVE Grown(n)[j] = Marker
  <2> DEFINE k == j - Len(file)
  <2>1. k \in 1..n /\ k > Fitting /\ j = Len(file) + k
    BY <1>1, <1>3
  <2> HIDE DEF k
  <2> QED
    BY <1>1, <1>2, <2>1
<1>6. MarkedAt(Grown(n), i)
  BY <1>4, <1>5 DEF MarkedAt
<1> QED
  BY <1>3, <1>4, <1>6, HasMarkerByUnit DEF n

(* The grown file keeps a marker, and one it gets stands for the last unit of   *)
(* the chunk.                                                                *)
LEMMA GrownMarker ==
  ASSUME LogTypeOK, InTransit, FileInOrder, MarkerInv, NEW n \in 0..Len(Addition)
  PROVE  /\ HasMarker(file) => HasMarker(Grown(n))
         /\ HasMarker(Grown(n)) =>
               \E k \in 1..(Seen + Len(chunk)) : \A i \in 1..Len(Grown(n)) : Grown(n)[i] # k
<1>1. /\ Len(file) \in Nat /\ Len(chunk) \in Nat /\ Seen \in Nat /\ Remaining \in Nat
      /\ \A i \in 1..Len(file) : file[i] \in Nat /\ file[i] <= Seen
  BY Parts DEF InTransit, FileInOrder
<1>2. file \in Seq(Nat) /\ Grown(n) \in Seq(Nat)
  BY UnitsAreNumbers, GrownByUnit DEF LogTypeOK
<1>3. /\ Len(file) <= Len(Grown(n)) /\ Len(Grown(n)) \in Nat
      /\ \A i \in 1..Len(file) : Grown(n)[i] = file[i]
  BY <1>1, GrownByUnit
<1>4. HasMarker(file) => HasMarker(Grown(n))
  BY <1>2, <1>3, MarkerStays
<1>5. ASSUME HasMarker(Grown(n))
      PROVE  \E k \in 1..(Seen + Len(chunk)) : \A i \in 1..Len(Grown(n)) : Grown(n)[i] # k
  <2>1. CASE HasMarker(file)
    <3>1. PICK k \in 1..Seen : \A i \in 1..Len(file) : file[i] # k
      BY <2>1 DEF MarkerInv
    <3>2. k \in 1..(Seen + Len(chunk))
      BY <1>1
    <3>3. ASSUME NEW i \in 1..Len(Grown(n)) PROVE Grown(n)[i] # k
      <4>1. CASE i \in 1..Len(file) /\ Grown(n)[i] = file[i]
        BY <3>1, <4>1
      <4>2. CASE /\ i > Len(file) /\ i - Len(file) \in 1..Fitting
                 /\ Grown(n)[i] = Seen + (i - Len(file))
        BY <1>1, <1>3, <4>2
      <4>3. CASE Grown(n)[i] = Marker
        BY <4>3 DEF Marker
      <4> QED
        BY <4>1, <4>2, <4>3, GrownUnits
    <3> QED
      BY <3>2, <3>3
  <2>2. CASE ~HasMarker(file)
    <3>1. PICK m \in (Len(file) + 1)..Len(Grown(n)) : Grown(n)[m] = Marker
      BY <1>2, <1>3, <1>5, <2>2, MarkerComesFromMarker
    <3>2. m \in 1..Len(Grown(n)) /\ m \notin 1..Len(file)
      BY <1>1, <1>3
    <3>3. ~markerWritten /\ Overflows(chunk)
      <4>1. CASE /\ ~markerWritten /\ m - Len(file) \in 1..Fitting
                 /\ Grown(n)[m] = Seen + (m - Len(file))
        BY <1>1, <3>1, <4>1 DEF Marker
      <4> QED
        BY <3>2, <4>1, GrownUnits
    <3>4. Fitting < Len(chunk) /\ Fitting \in Nat
      BY <1>1, <3>3, AdditionByUnit DEF Overflows
    <3>5. Seen + Len(chunk) \in 1..(Seen + Len(chunk))
      BY <1>1, <3>4
    <3>6. ASSUME NEW i \in 1..Len(Grown(n)) PROVE Grown(n)[i] # Seen + Len(chunk)
      <4>1. CASE i \in 1..Len(file) /\ Grown(n)[i] = file[i]
        BY <1>1, <3>4, <4>1
      <4>2. CASE /\ i - Len(file) \in 1..Fitting
                 /\ Grown(n)[i] = Seen + (i - Len(file))
        BY <1>1, <3>4, <4>2
      <4>3. CASE Grown(n)[i] = Marker
        BY <1>1, <3>4, <4>3 DEF Marker
      <4> QED
        BY <4>1, <4>2, <4>3, GrownUnits
    <3> QED
      BY <3>5, <3>6
  <2> QED
    BY <2>1, <2>2
<1> QED
  BY <1>4, <1>5

(* The limit: what is added fits, but for a marker, whole or cut.              *)
LEMMA GrownFits ==
  ASSUME LogTypeOK, ThreadKnows, FileInv, PipeIsRead, NEW n \in 0..Len(Addition)
  PROVE  /\ Len(Grown(n)) <= ContentLimit + Slack(drainFaults + 1)
                             + (IF HasMarker(Grown(n)) THEN MarkerSize ELSE 0)
         /\ n = Len(Addition) =>
               Len(Grown(n)) <= ContentLimit + Slack(drainFaults)
                                + (IF HasMarker(Grown(n)) THEN MarkerSize ELSE 0)
<1> DEFINE s == Slack(drainFaults)
           t == Slack(drainFaults + 1)
           g == Len(Grown(n))
           f == Len(file)
<1>1. /\ s \in Nat /\ t = s + (MarkerSize - 1) /\ f \in Nat /\ Remaining \in Nat
      /\ MarkerSize \in Nat \ {0} /\ ContentLimit \in Nat
  BY SlackGrows, Parts, Sizes
<1>2. g = f + n /\ n \in Nat
  <2>1. Len(Addition) \in Nat
    BY AdditionByUnit
  <2> QED
    BY <2>1, GrownByUnit
<1>3. CASE markerWritten
  <2>1. n = 0 /\ HasMarker(file)
    <3>1. Addition = <<>>
      BY <1>3, AdditionByUnit
    <3> QED
      BY <1>3, <3>1 DEF ThreadKnows
  <2>2. HasMarker(Grown(n))
    <3>1. file \in Seq(Nat) /\ Grown(n) \in Seq(Nat)
      BY GrownByUnit, UnitsAreNumbers DEF LogTypeOK
    <3>2. \A i \in 1..Len(file) : Grown(n)[i] = file[i]
      BY GrownByUnit
    <3>3. Len(file) <= Len(Grown(n))
      BY <1>1, <1>2
    <3> QED
      BY <2>1, <3>1, <3>2, <3>3, MarkerStays
  <2>3. f <= ContentLimit + s + MarkerSize
    BY <2>1 DEF FileInv
  <2> HIDE DEF s, t, g, f
  <2>4. g <= ContentLimit + s + MarkerSize /\ g <= ContentLimit + t + MarkerSize
    BY <1>1, <1>2, <2>1, <2>3
  <2> QED
    BY <2>2, <2>4 DEF s, t, g
<1>4. CASE ~markerWritten
  <2>1. ~HasMarker(file) /\ written = Least(f, ContentLimit)
    BY <1>4 DEF ThreadKnows
  <2>2. f <= ContentLimit + s
    BY <1>1, <2>1 DEF FileInv
  <2>3. f + Remaining <= ContentLimit + s
    <3>1. Remaining = ContentLimit - written
      BY DEF Remaining
    <3>2. CASE f <= ContentLimit
      <4>1. written = f
        BY <2>1, <3>2 DEF Least
      <4> HIDE DEF s, f
      <4> QED
        BY <1>1, <3>1, <4>1
    <3>3. CASE ~(f <= ContentLimit)
      <4>1. written = ContentLimit
        BY <2>1, <3>3 DEF Least
      <4> HIDE DEF s, f
      <4> QED
        BY <1>1, <2>2, <3>1, <4>1
    <3> QED
      BY <3>2, <3>3
  <2>4. /\ Fitting \in Nat /\ Fitting <= Remaining
        /\ Len(Addition) = Fitting + (IF Overflows(chunk) THEN MarkerSize ELSE 0)
    BY <1>4, AdditionByUnit
  <2>5. n = Len(Addition) /\ Overflows(chunk) => HasMarker(Grown(n))
    BY <1>4, WholeMarker
  <2>6. n <= Len(Addition)
    BY <1>2, <2>4, <1>1
  <2>7. CASE n <= Fitting
    <3> HIDE DEF s, t, g, f
    <3>1. g <= ContentLimit + s /\ g <= ContentLimit + t
      BY <1>1, <1>2, <2>3, <2>4, <2>7
    <3>2. g \in Nat /\ t \in Nat
      BY <1>1, <1>2
    <3> QED
      BY <1>1, <3>1, <3>2 DEF s, t, g
  <2>8. CASE ~(n <= Fitting)
    <3>1. Overflows(chunk) /\ n <= Fitting + MarkerSize
      BY <1>1, <1>2, <2>4, <2>6, <2>8
    <3>2. CASE n = Len(Addition)
      <4>1. HasMarker(Grown(n))
        BY <2>5, <3>1, <3>2
      <4> HIDE DEF s, t, g, f
      <4>2. g <= ContentLimit + s + MarkerSize /\ g <= ContentLimit + t + MarkerSize
        BY <1>1, <1>2, <2>3, <2>4, <3>1
      <4> QED
        BY <4>1, <4>2 DEF s, t, g
    <3>3. CASE n # Len(Addition)
      <4> HIDE DEF s, t, g, f
      <4>1. n <= Fitting + (MarkerSize - 1)
        BY <1>1, <1>2, <2>4, <2>6, <3>1, <3>3
      <4>2. g <= ContentLimit + t /\ g \in Nat /\ t \in Nat
        BY <1>1, <1>2, <2>3, <2>4, <4>1
      <4> QED
        BY <1>1, <3>3, <4>2 DEF s, t, g
    <3> QED
      BY <3>2, <3>3
  <2> QED
    BY <2>7, <2>8
<1> QED
  BY <1>3, <1>4

(* What is added whole, and leaves no marker, is all of the chunk.             *)
LEMMA GrownKeeps ==
  ASSUME LogTypeOK, InTransit, ThreadKnows, PipeIsRead,
         ~HasMarker(Grown(Len(Addition))), NEW k \in 1..Len(chunk)
  PROVE  /\ ~HasMarker(file)
         /\ \E i \in 1..Len(Grown(Len(Addition))) : Grown(Len(Addition))[i] = Seen + k
<1> DEFINE n == Len(Addition)
<1>0. n \in Nat /\ n \in 0..Len(Addition)
  BY AdditionByUnit
<1>1. /\ file \in Seq(Nat) /\ Grown(n) \in Seq(Nat) /\ Len(Grown(n)) = Len(file) + n
      /\ \A i \in 1..Len(file) : Grown(n)[i] = file[i]
      /\ \A i \in 1..n : Grown(n)[Len(file) + i] = Addition[i]
      /\ Len(file) \in Nat
  BY <1>0, GrownByUnit, UnitsAreNumbers, Parts DEF LogTypeOK
<1>2. ~HasMarker(file)
  BY SMTT(30), <1>0, <1>1, MarkerStays
<1>3. ~markerWritten
  BY <1>2 DEF ThreadKnows
<1>4. ~Overflows(chunk)
  BY <1>3, WholeMarker
<1>5. n = Len(chunk) /\ Addition[k] = chunk[k]
  <2>1. Fitting = Len(chunk) /\ n = Len(chunk) + 0 /\ Len(chunk) \in Nat
    BY <1>3, <1>4, AdditionByUnit, Parts
  <2>2. k \in 1..Len(Addition) /\ k <= Fitting
    BY <2>1
  <2> QED
    BY <1>3, <2>1, <2>2, AdditionByUnit
<1>6. chunk[k] = Seen + k
  BY DEF InTransit
<1>7. Len(file) + k \in 1..Len(Grown(n)) /\ Grown(n)[Len(file) + k] = Seen + k
  BY <1>0, <1>1, <1>5, <1>6
<1> QED
  BY <1>2, <1>7

-----------------------------------------------------------------------------
(* The tail, unit by unit.                                                   *)
TailIs(units, seen, start) ==
    units = [i \in 1..Least(SummaryLimit, seen - start) |->
                seen - Least(SummaryLimit, seen - start) + i]

LEMMA TailGrows ==
  ASSUME NEW units, NEW more \in Seq(Nat), NEW seen \in Nat, NEW start \in 0..seen,
         TailIs(units, seen, start), \A i \in 1..Len(more) : more[i] = seen + i
  PROVE  TailIs(LastUnits(units \o more, SummaryLimit), seen + Len(more), start)
<1> DEFINE a == Least(SummaryLimit, seen - start)
           c == Len(more)
           all == units \o more
           m == Least(SummaryLimit, a + c)
<1>1. /\ a \in Nat /\ a <= seen - start /\ a <= SummaryLimit /\ c \in Nat
      /\ a = SummaryLimit \/ a = seen - start
      /\ SummaryLimit \in Nat
  <2>1. seen - start \in Nat /\ SummaryLimit \in Nat /\ c \in Nat
    BY Sizes
  <2> QED
    BY <2>1, Leasts
<1>2. units \in Seq(Nat) /\ Len(units) = a /\ \A i \in 1..a : units[i] = seen - a + i
  <2>1. units = [i \in 1..a |-> seen - a + i]
    BY DEF TailIs
  <2>2. \A i \in 1..a : seen - a + i \in Nat
    BY <1>1
  <2> HIDE DEF a
  <2> QED
    BY <1>1, <2>1, <2>2
<1>3. /\ all \in Seq(Nat) /\ Len(all) = a + c
      /\ \A i \in 1..(a + c) : all[i] = seen - a + i
  <2>1. /\ all \in Seq(Nat) /\ Len(all) = a + c
        /\ \A i \in 1..(a + c) : all[i] = IF i <= a THEN units[i] ELSE more[i - a]
    <3> HIDE DEF a
    <3> QED
      BY ZenonT(30), <1>2, ConcatProperties
  <2> HIDE DEF a, all
  <2>2. ASSUME NEW i \in 1..(a + c) PROVE all[i] = seen - a + i
    <3>1. CASE i <= a
      BY <1>1, <1>2, <2>1, <3>1
    <3>2. CASE ~(i <= a)
      <4>1. i - a \in 1..c /\ seen + (i - a) = seen - a + i
        BY <1>1, <3>2
      <4> QED
        BY <2>1, <3>2, <4>1
    <3> QED
      BY <3>1, <3>2
  <2> QED
    BY <2>1, <2>2
<1>4. m \in Nat /\ m <= a + c /\ m = Least(SummaryLimit, (seen + c) - start)
  <2>1. a + c \in Nat /\ (seen + c) - start \in Nat
    BY <1>1
  <2>2. m \in Nat /\ m <= a + c
    BY <1>1, <2>1, Leasts
  <2> HIDE DEF a
  <2>3. CASE a = seen - start
    <3>1. a + c = (seen + c) - start
      BY <1>1, <2>3
    <3> QED
      BY <2>2, <3>1
  <2>4. CASE a = SummaryLimit
    <3>1. SummaryLimit <= a + c /\ SummaryLimit <= (seen + c) - start
      BY <1>1, <2>4
    <3> QED
      BY <2>2, <3>1 DEF Least
  <2> QED
    BY <1>1, <2>3, <2>4
<1> DEFINE last == SubSeq(all, (a + c) - m + 1, a + c)
<1>5. LastUnits(units \o more, SummaryLimit) = last
  BY <1>3 DEF LastUnits
<1> HIDE DEF a, all, m
<1>6. /\ last \in Seq(Nat) /\ Len(last) = m
      /\ \A i \in 1..m : last[i] = all[(a + c) - m + i]
  <2> DEFINE from == (a + c) - m + 1
             to == a + c
  <2>1. from \in Int /\ to \in Int /\ \A i \in from..to : all[i] \in Nat
    <3>1. from \in Int /\ to \in Int /\ \A i \in from..to : i \in 1..(a + c)
      BY <1>1, <1>4
    <3>2. \A i \in 1..(a + c) : all[i] \in Nat
      BY <1>3
    <3> QED
      BY <3>1, <3>2
  <2>2. /\ SubSeq(all, from, to) \in Seq(Nat)
        /\ Len(SubSeq(all, from, to)) = IF from <= to THEN to - from + 1 ELSE 0
        /\ \A i \in 1..(to - from + 1) : SubSeq(all, from, to)[i] = all[from + i - 1]
    BY <2>1, SubSeqProperties
  <2>3. to - from + 1 = m /\ (from <= to <=> m # 0)
        /\ \A i \in 1..m : from + i - 1 = (a + c) - m + i
    BY SMTT(30), <1>1, <1>4
  <2> QED
    BY <2>2, <2>3
<1>7. \A i \in 1..m : last[i] = (seen + c) - m + i
  <2>1. ASSUME NEW i \in 1..m PROVE last[i] = (seen + c) - m + i
    <3>1. (a + c) - m + i \in 1..(a + c)
          /\ seen - a + ((a + c) - m + i) = (seen + c) - m + i
      BY SMTT(30), <1>1, <1>4
    <3> QED
      BY <1>3, <1>6, <3>1
  <2> QED
    BY <2>1
<1>8. last = [i \in 1..m |-> (seen + c) - m + i]
  <2> HIDE DEF last, c
  <2>1. DOMAIN last = 1..m
    BY <1>6
  <2>2. last = [i \in 1..m |-> last[i]]
    BY <1>6, <2>1
  <2> QED
    BY <1>7, <2>2
<1> HIDE DEF last, c
<1> QED
  BY <1>4, <1>5, <1>8 DEF TailIs, c

LEMMA TailTypes ==
  ASSUME NEW seen \in 0..MaxOutput, NEW start \in 0..seen, NEW units,
         TailIs(units, seen, start)
  PROVE  units \in Seq(Unit) /\ Len(units) <= SummaryLimit
<1> DEFINE a == Least(SummaryLimit, seen - start)
<1>1. a \in Nat /\ a <= seen - start /\ a <= SummaryLimit
  <2>1. seen - start \in Nat /\ SummaryLimit \in Nat
    BY Sizes
  <2> QED
    BY <2>1, Leasts
<1>2. units = [i \in 1..a |-> seen - a + i]
  BY DEF TailIs
<1> HIDE DEF a
<1>3. \A i \in 1..a : seen - a + i \in Unit
  BY <1>1, Sizes DEF Unit
<1> QED
  BY <1>1, <1>2, <1>3

-----------------------------------------------------------------------------
(* The part of the invariant that is not about types.                         *)
DrainInv ==
    InTransit /\ FileInOrder /\ ThreadKnows /\ FileInv /\ MarkerInv /\ TailIsRecent

LEMMA TailByUnits ==
  TailIsRecent <=> (PipeIsRead \/ drain = "ended" => TailIs(tail, Seen, first))
  BY DEF TailIsRecent, TailIs, Seen

LEMMA TailByUnitsNext ==
  TailIsRecent' <=> (PipeIsRead' \/ drain' = "ended" => TailIs(tail', Seen', first'))
  BY DEF TailIsRecent, TailIs, Seen

LEMMA LogInitInv == LogInit => LogInv
<1> SUFFICES ASSUME LogInit PROVE LogInv
  OBVIOUS
<1>0. /\ Len(pipe) = 0 /\ Len(chunk) = 0 /\ Len(file) = 0 /\ Len(tail) = 0
      /\ pipe \in Seq(Unit) /\ chunk \in Seq(Unit) /\ tail \in Seq(Unit)
      /\ file \in Seq(Unit \cup {Marker}) /\ file \in Seq(Nat)
  <2>1. pipe = <<>> /\ chunk = <<>> /\ file = <<>> /\ tail = <<>>
    BY DEF LogInit
  <2>2. Len(<<>>) = 0 /\ \A S : <<>> \in Seq(S)
    OBVIOUS
  <2> QED
    BY ONLY <2>1, <2>2
<1>1. LogTypeOK
  <2>1. /\ runs = 0 /\ holders = {} /\ output = 0 /\ first = 0 /\ written = 0
        /\ truncated = FALSE /\ markerWritten = FALSE /\ drainFaults = 0
        /\ drain = "ended" /\ waiter = "returned"
    BY DEF LogInit
  <2> QED
    <3>1. /\ 0 \in 0..MaxRuns /\ 0 \in 0..MaxOutput /\ 0 \in 0..0
          /\ 0 \in 0..ContentLimit /\ 0 \in 0..MaxDrainFaults
          /\ 0 <= PipeSize /\ 0 <= ChunkSize /\ 0 <= SummaryLimit
      BY Sizes
    <3> QED
      BY <1>0, <2>1, <3>1, Zenon DEF LogTypeOK
<1>2. Seen = 0
  <2>1. output = 0
    BY DEF LogInit
  <2> QED
    BY ONLY <1>0, <2>1 DEF Seen
<1>3. ~HasMarker(file)
  <2>1. ~\E i \in 1..Len(file) : MarkedAt(file, i)
    BY ONLY <1>0
  <2>2. file \in Seq(Nat)
    BY ONLY <1>0
  <2> QED
    BY ONLY <2>1, <2>2, HasMarkerByUnit
<1>4. InTransit /\ FileInOrder /\ ThreadKnows
  BY <1>2 DEF LogInit, InTransit, FileInOrder, ThreadKnows, PipeIsRead
<1>5. FileInv
  BY SMTT(30), <1>3, SlackGrows, Sizes DEF LogInit, FileInv
<1>6. MarkerInv
  BY <1>2, <1>3 DEF LogInit, MarkerInv
<1>7. TailIsRecent
  <2>1. Least(SummaryLimit, 0 - 0) = 0
    BY Sizes DEF Least
  <2>2. TailIs(<<>>, 0, 0)
    BY <2>1 DEF TailIs
  <2> QED
    BY <1>2, <2>2, TailByUnits DEF LogInit
<1> QED
  BY <1>1, <1>4, <1>5, <1>6, <1>7 DEF LogInv

(* Steps of the processes and of the waiter, and those of the thread that move  *)
(* no unit.                                                                  *)
LEMMA QuietStep ==
  ASSUME DrainInv,
         UNCHANGED <<output, first, pipe, chunk, file, tail, truncated, markerWritten,
                     written, drainFaults>>,
         \/ drain' = drain
         \/ drain = "reading" /\ drain' = "writing" /\ chunk # <<>>
         \/ drain = "reading" /\ drain' = "ended" /\ chunk = <<>> /\ pipe = <<>>
  PROVE  DrainInv'
<1>1. Seen' = Seen /\ (HasMarker(file)' <=> HasMarker(file))
  BY DEF Seen, HasMarker
<1>2. InTransit' /\ FileInOrder'
  BY <1>1 DEF DrainInv, InTransit, FileInOrder
<1>3. ThreadKnows'
  BY <1>1 DEF DrainInv, ThreadKnows, PipeIsRead, Least
<1>4. FileInv' /\ MarkerInv'
  BY <1>1 DEF DrainInv, FileInv, MarkerInv, Slack
<1>5. TailIsRecent'
  BY <1>1, TailByUnits, TailByUnitsNext DEF DrainInv, PipeIsRead
<1> QED
  BY <1>2, <1>3, <1>4, <1>5 DEF DrainInv

(* A new attempt looks at the file, and remembers nothing.                     *)
LEMMA StartDrainStep ==
  ASSUME LogTypeOK, DrainInv, StartDrain
  PROVE  DrainInv'
<1>1. /\ Seen <= output /\ Seen \in Int /\ output \in Nat
      /\ \A i \in 1..Len(file) : file[i] \in Nat
  BY Parts DEF Seen
<1>2. /\ file' = file /\ pipe' = <<>> /\ chunk' = <<>> /\ tail' = <<>>
      /\ first' = output /\ output' = output /\ drain' = "reading"
      /\ drainFaults' = drainFaults
  BY DEF StartDrain
<1>3. Seen' = output /\ (HasMarker(file)' <=> HasMarker(file))
  BY <1>1, <1>2 DEF Seen, HasMarker
<1>4. InTransit'
  BY <1>1, <1>2, <1>3 DEF InTransit
<1>5. FileInOrder'
  BY <1>1, <1>2, <1>3 DEF DrainInv, FileInOrder
<1>6. ThreadKnows'
  BY <1>3 DEF StartDrain, ThreadKnows, Least
<1>7. FileInv'
  BY <1>2, <1>3 DEF DrainInv, FileInv, Slack
<1>8. MarkerInv'
  BY SMTT(30), <1>1, <1>2, <1>3 DEF DrainInv, MarkerInv
<1>9. TailIsRecent'
  <2>1. Least(SummaryLimit, output - output) = 0
    BY <1>1, Sizes DEF Least
  <2>2. TailIs(<<>>, output, output)
    BY <2>1 DEF TailIs
  <2> QED
    BY <1>2, <1>3, <2>2, TailByUnitsNext
<1> QED
  BY <1>4, <1>5, <1>6, <1>7, <1>8, <1>9 DEF DrainInv

(* A unit on its way: into the pipe, and from the pipe into the chunk.          *)
LEMMA InTransitStep ==
  ASSUME DrainInv, InTransit', Seen' = Seen,
         UNCHANGED <<first, file, tail, truncated, markerWritten, written, drain,
                     drainFaults>>
  PROVE  DrainInv'
<1>1. HasMarker(file)' <=> HasMarker(file)
  BY DEF HasMarker
<1>2. FileInOrder' /\ ThreadKnows'
  BY <1>1 DEF DrainInv, FileInOrder, ThreadKnows, PipeIsRead, Least
<1>3. FileInv' /\ MarkerInv'
  BY <1>1 DEF DrainInv, FileInv, MarkerInv, Slack
<1>4. TailIsRecent'
  BY TailByUnits, TailByUnitsNext DEF DrainInv, PipeIsRead
<1> QED
  BY <1>2, <1>3, <1>4 DEF DrainInv

LEMMA ProduceStep ==
  ASSUME LogTypeOK, DrainInv, Produce
  PROVE  DrainInv'
<1>1. /\ Len(pipe) \in Nat /\ Len(chunk) \in Nat /\ output \in Nat
      /\ chunk' = chunk /\ first' = first /\ drain' = drain /\ output' = output + 1
      /\ drain \in {"reading", "writing"}
  BY Parts DEF Produce, threadVars, attemptVars, PipeIsRead
<1>2. /\ Len(pipe') = Len(pipe) + 1
      /\ \A i \in 1..Len(pipe) : pipe'[i] = pipe[i]
      /\ pipe'[Len(pipe) + 1] = output + 1
  BY DEF LogTypeOK, Produce
<1>3. Seen' = Seen /\ Seen + Len(chunk) + (Len(pipe) + 1) = output + 1
  BY <1>1, <1>2 DEF Seen
<1>4. \A i \in 1..Len(pipe') : pipe'[i] = Seen + Len(chunk) + i
  BY <1>1, <1>2, <1>3 DEF DrainInv, InTransit
<1>5. InTransit'
  BY <1>1, <1>3, <1>4 DEF DrainInv, InTransit
<1> QED
  BY <1>1, <1>3, <1>5, InTransitStep DEF Produce, threadVars, attemptVars

LEMMA FetchStep ==
  ASSUME LogTypeOK, DrainInv, Fetch
  PROVE  DrainInv'
<1>1. /\ Len(pipe) \in Nat /\ Len(chunk) \in Nat /\ output \in Nat /\ Seen \in Int
      /\ first' = first /\ drain' = drain /\ output' = output /\ drain = "reading"
  BY Parts DEF Fetch, attemptVars
<1>2. /\ pipe \in Seq(Unit) /\ pipe # <<>>
      /\ Len(pipe') = Len(pipe) - 1 /\ Len(pipe) # 0
      /\ \A i \in 1..Len(pipe') : pipe'[i] = pipe[i + 1]
      /\ Head(pipe) = pipe[1]
  <2>1. pipe \in Seq(Unit) /\ pipe # <<>> /\ pipe' = Tail(pipe)
    BY DEF LogTypeOK, Fetch
  <2> QED
    BY <2>1, HeadTailProperties
<1>3. /\ Len(chunk') = Len(chunk) + 1
      /\ \A i \in 1..Len(chunk) : chunk'[i] = chunk[i]
      /\ chunk'[Len(chunk) + 1] = pipe[1]
  <2>1. chunk \in Seq(Unit) /\ pipe[1] \in Unit /\ chunk' = Append(chunk, pipe[1])
    BY <1>2 DEF LogTypeOK, Fetch
  <2> QED
    BY <2>1
<1>4. Seen' = Seen
  BY <1>1, <1>2, <1>3 DEF Seen
<1>5. pipe[1] = Seen + Len(chunk) + 1
  BY <1>1, <1>2 DEF DrainInv, InTransit
<1>6. \A i \in 1..Len(chunk') : chunk'[i] = Seen + i
  BY SMTT(30), <1>1, <1>3, <1>5 DEF DrainInv, InTransit
<1>7. \A i \in 1..Len(pipe') : pipe'[i] = Seen + Len(chunk') + i
  <2>1. ASSUME NEW i \in 1..Len(pipe') PROVE pipe'[i] = Seen + Len(chunk') + i
    <3>1. i + 1 \in 1..Len(pipe) /\ pipe'[i] = pipe[i + 1]
      BY <1>1, <1>2
    <3>2. pipe[i + 1] = Seen + Len(chunk) + (i + 1)
      BY <3>1 DEF DrainInv, InTransit
    <3> QED
      BY <1>1, <1>3, <3>1, <3>2
  <2> QED
    BY <2>1
<1>8. InTransit'
  BY <1>1, <1>4, <1>6, <1>7 DEF DrainInv, InTransit
<1> QED
  BY <1>4, <1>8, InTransitStep DEF Fetch, attemptVars

(* The file grows by what an iteration of the loop would append, or a part of   *)
(* it: the units dealt with are at least those of the chunk.                  *)
LEMMA GrownStep ==
  ASSUME LogTypeOK, DrainInv, PipeIsRead, NEW n \in 0..Len(Addition), file' = Grown(n),
         first' = first, chunk' = <<>>, Seen' \in Int, Seen + Len(chunk) <= Seen',
         \/ drainFaults' = drainFaults /\ n = Len(Addition)
         \/ drainFaults' = drainFaults + 1
  PROVE  /\ FileInOrder' /\ FileInv'
         /\ HasMarker(file)' => \E k \in 1..Seen' : \A i \in 1..Len(file') : file'[i] # k
         /\ first' <= Seen'
<1>0. /\ Seen \in Nat /\ Len(chunk) \in Nat /\ Len(file) \in Nat /\ first \in Nat
      /\ Len(Grown(n)) \in Nat
      /\ \A i \in 1..Len(Grown(n)) : Grown(n)[i] \in Nat
  <2>1. /\ Seen \in Int /\ first \in Nat /\ Len(chunk) \in Nat /\ Len(file) \in Nat
        /\ first <= Seen
    BY Parts DEF DrainInv, InTransit
  <2>2. Grown(n) \in Seq(Nat)
    BY GrownByUnit, UnitsAreNumbers
  <2> QED
    BY <2>1, <2>2
<1>1. HasMarker(file)' <=> HasMarker(Grown(n))
  BY DEF HasMarker
<1>2. FileInOrder'
  <2>1. /\ \A i \in 1..Len(Grown(n)) : Grown(n)[i] <= Seen + Len(chunk)
        /\ \A i, j \in 1..Len(Grown(n)) :
              i < j /\ Grown(n)[i] # Marker /\ Grown(n)[j] # Marker =>
                 Grown(n)[i] < Grown(n)[j]
    BY GrownInOrder DEF DrainInv
  <2>2. \A i \in 1..Len(Grown(n)) : Grown(n)[i] <= Seen'
    BY <1>0, <2>1
  <2> HIDE DEF Grown
  <2> QED
    BY <2>1, <2>2 DEF FileInOrder
<1>3. FileInv'
  <2>1. /\ Len(Grown(n)) <= ContentLimit + Slack(drainFaults + 1)
                             + (IF HasMarker(Grown(n)) THEN MarkerSize ELSE 0)
        /\ n = Len(Addition) =>
               Len(Grown(n)) <= ContentLimit + Slack(drainFaults)
                                + (IF HasMarker(Grown(n)) THEN MarkerSize ELSE 0)
    BY GrownFits DEF DrainInv
  <2> QED
    BY <1>1, <2>1 DEF FileInv, Slack
<1>4. HasMarker(Grown(n)) =>
          \E k \in 1..Seen' : \A i \in 1..Len(Grown(n)) : Grown(n)[i] # k
  <2>1. HasMarker(Grown(n)) =>
            \E k \in 1..(Seen + Len(chunk)) : \A i \in 1..Len(Grown(n)) : Grown(n)[i] # k
    BY GrownMarker DEF DrainInv
  <2>2. 1..(Seen + Len(chunk)) \subseteq 1..Seen'
    BY <1>0
  <2> QED
    BY <2>1, <2>2
<1>5. first' <= Seen'
  <2>1. first <= Seen
    BY DEF DrainInv, InTransit
  <2> QED
    BY <1>0, <2>1
<1> QED
  BY <1>1, <1>2, <1>3, <1>4, <1>5

(* The thread stops for good, on an error or with its controller.               *)
LEMMA StoppedStep ==
  ASSUME LogTypeOK, DrainInv, PipeIsRead, NEW n \in 0..Len(Addition), file' = Grown(n),
         first' = first, output' = output, chunk' = <<>>, pipe' = <<>>, drain' = "failed",
         \/ drainFaults' = drainFaults /\ n = Len(Addition)
         \/ drainFaults' = drainFaults + 1
  PROVE  DrainInv'
<1>1. Seen' = output /\ Seen' \in Int /\ Seen + Len(chunk) <= Seen'
  BY SMTT(30), Parts DEF Seen
<1>2. /\ FileInOrder' /\ FileInv' /\ first' <= Seen'
      /\ HasMarker(file)' => \E k \in 1..Seen' : \A i \in 1..Len(file') : file'[i] # k
  BY <1>1, GrownStep
<1>3. InTransit'
  BY <1>1, <1>2 DEF InTransit
<1>4. ThreadKnows' /\ TailIsRecent'
  BY TailByUnitsNext DEF ThreadKnows, PipeIsRead
<1>5. MarkerInv'
  BY <1>2 DEF MarkerInv
<1> QED
  BY <1>2, <1>3, <1>4, <1>5 DEF DrainInv

(* An iteration of the loop.                                                  *)
LEMMA WriteChunkStep ==
  ASSUME LogTypeOK, DrainInv, WriteChunk
  PROVE  DrainInv'
<1> DEFINE n == Len(Addition)
<1>1. /\ drain = "writing" /\ drain' = "reading" /\ file' = Grown(n) /\ n \in 0..n
      /\ first' = first /\ output' = output /\ chunk' = <<>> /\ pipe' = pipe
      /\ drainFaults' = drainFaults /\ tail' = Remembers(chunk)
  BY GrownWhole, AdditionByUnit DEF WriteChunk, pipeVars, attemptVars
<1>2. /\ Seen' = Seen + Len(chunk) /\ Seen \in Nat /\ first \in 0..Seen
      /\ Len(chunk) \in Nat /\ Len(chunk) # 0 /\ Len(file) \in Nat
  <2>1. /\ Seen \in Int /\ Len(chunk) \in Nat /\ Len(pipe) \in Nat /\ first \in Nat
        /\ Len(file) \in Nat
    BY Parts
  <2>2. first <= Seen
    BY DEF DrainInv, InTransit
  <2>3. Seen' = Seen + Len(chunk)
    <3>1. Len(chunk') = 0
      <4>1. Len(<<>>) = 0
        OBVIOUS
      <4> QED
        BY ONLY <1>1, <4>1
    <3>2. Seen' = output - Len(pipe) - 0
      BY ONLY <1>1, <3>1 DEF Seen
    <3>3. output \in Nat
      BY Parts
    <3> QED
      BY <2>1, <3>2, <3>3 DEF Seen
  <2>4. Len(chunk) # 0
    BY <1>1 DEF DrainInv, InTransit, LogTypeOK
  <2> QED
    BY <2>1, <2>2, <2>3, <2>4
<1>3. PipeIsRead /\ PipeIsRead'
  BY <1>1 DEF PipeIsRead
<1>4. /\ FileInOrder' /\ FileInv' /\ first' <= Seen'
      /\ HasMarker(file)' => \E k \in 1..Seen' : \A i \in 1..Len(file') : file'[i] # k
  BY <1>1, <1>2, <1>3, GrownStep
<1>5. InTransit'
  <2>1. \A i \in 1..Len(pipe) : pipe[i] = Seen + Len(chunk) + i
    BY DEF DrainInv, InTransit
  <2> QED
    BY <1>1, <1>2, <1>4, <2>1 DEF InTransit
<1>6. HasMarker(file)' <=> HasMarker(Grown(n))
  BY <1>1 DEF HasMarker
<1>7. ThreadKnows'
  <2>1. markerWritten <=> HasMarker(file)
    BY <1>3 DEF DrainInv, ThreadKnows
  <2>2. CASE markerWritten
    <3>1. HasMarker(Grown(n))
      BY <1>1, <2>1, <2>2, GrownMarker DEF DrainInv
    <3>2. truncated
      BY <1>3, <2>2 DEF DrainInv, ThreadKnows
    <3>3. markerWritten' = TRUE /\ truncated' = TRUE
      BY <2>2, <3>2 DEF WriteChunk
    <3> QED
      BY <1>6, <3>1, <3>3 DEF ThreadKnows
  <2>3. CASE ~markerWritten /\ Overflows(chunk)
    <3>1. HasMarker(Grown(n))
      BY <2>3, WholeMarker
    <3> QED
      BY <1>6, <2>3, <3>1 DEF WriteChunk, ThreadKnows
  <2>4. CASE ~markerWritten /\ ~Overflows(chunk)
    <3>1. ~truncated /\ written = Least(Len(file), ContentLimit)
      BY <1>3, <2>4 DEF DrainInv, ThreadKnows
    <3>2. ~markerWritten' /\ ~truncated' /\ written' = written + Len(Part)
      BY <2>4, <3>1 DEF WriteChunk
    <3>3. Len(Part) = Len(chunk) /\ n = Len(chunk) /\ Fitting = Len(chunk)
      BY <1>2, <2>4, AdditionByUnit
    <3>4. ~HasMarker(Grown(n))
      <4>1. /\ file \in Seq(Nat) /\ Grown(n) \in Seq(Nat) /\ Len(Grown(n)) = Len(file) + n
            /\ \A i \in 1..Len(file) : Grown(n)[i] = file[i]
        BY <1>1, GrownByUnit, UnitsAreNumbers DEF LogTypeOK
      <4>2. ASSUME NEW i \in (Len(file) + 1)..Len(Grown(n)) PROVE Grown(n)[i] # Marker
        <5>1. i \in 1..Len(Grown(n)) /\ i > Len(file) /\ i - Len(file) \in 1..Len(chunk)
          BY <1>2, <3>3, <4>1
        <5>2. Grown(n)[i] = Seen + (i - Len(file))
          BY <1>1, <2>4, <5>1, GrownUnits DEF DrainInv
        <5> HIDE DEF n
        <5> QED
          BY <1>2, <5>1, <5>2 DEF Marker
      <4>3. Len(file) <= Len(Grown(n))
        BY <1>2, <3>3, <4>1
      <4>4. ~HasMarker(file)
        BY <2>1, <2>4
      <4> HIDE DEF n
      <4> QED
        BY <4>1, <4>2, <4>3, <4>4, MarkerComesFromMarker
    <3>5. written' = Least(Len(file'), ContentLimit)
      <4>1. Len(file') = Len(file) + Len(chunk)
        BY <1>1, <3>3, GrownByUnit
      <4>2. Len(chunk) <= ContentLimit - written /\ written \in Nat /\ ContentLimit \in Nat
        BY <1>2, <2>4, Parts, Sizes DEF Overflows, Remaining
      <4>3. written = Len(file)
        BY <1>2, <3>1, <4>2 DEF Least
      <4>4. written' = Len(file')
        BY <3>2, <3>3, <4>1, <4>3
      <4>5. Len(file') <= ContentLimit
        BY <4>1, <4>2, <4>3, <1>2
      <4> QED
        BY <4>4, <4>5 DEF Least
    <3> QED
      BY <1>6, <3>2, <3>4, <3>5 DEF ThreadKnows
  <2> QED
    BY <2>2, <2>3, <2>4
<1>8. MarkerInv'
  <2>1. ASSUME ~HasMarker(Grown(n)), NEW k \in (first + 1)..(Seen + Len(chunk))
        PROVE  \E i \in 1..Len(Grown(n)) : Grown(n)[i] = k
    <3>1. CASE k <= Seen
      <4>1. ~HasMarker(file)
        BY <1>1, <2>1, GrownMarker DEF DrainInv
      <4>2. k \in (first + 1)..Seen
        BY <1>2, <3>1
      <4>3. PICK i \in 1..Len(file) : file[i] = k
        BY <1>1, <4>1, <4>2 DEF DrainInv, MarkerInv
      <4>4. i \in 1..Len(Grown(n)) /\ Grown(n)[i] = file[i]
        BY <1>1, <1>2, GrownByUnit
      <4> QED
        BY <4>3, <4>4
    <3>2. CASE k > Seen
      <4>1. k - Seen \in 1..Len(chunk) /\ Seen + (k - Seen) = k
        BY <1>2, <3>2
      <4> QED
        BY <1>3, <2>1, <4>1, GrownKeeps DEF DrainInv
    <3> QED
      BY <1>2, <3>1, <3>2
  <2> HIDE DEF n
  <2> QED
    BY <1>1, <1>2, <1>4, <1>6, <2>1 DEF MarkerInv
<1>9. TailIsRecent'
  <2>1. TailIs(tail, Seen, first)
    BY <1>3, TailByUnits DEF DrainInv
  <2>2. chunk \in Seq(Nat) /\ \A i \in 1..Len(chunk) : chunk[i] = Seen + i
    <3>1. chunk \in Seq(Unit \cup {Marker})
      BY DEF LogTypeOK
    <3> QED
      BY <3>1, UnitsAreNumbers DEF DrainInv, InTransit
  <2>3. TailIs(LastUnits(tail \o chunk, SummaryLimit), Seen + Len(chunk), first)
    BY <1>2, <2>1, <2>2, TailGrows
  <2> QED
    BY <1>1, <1>2, <2>3, TailByUnitsNext DEF Remembers
<1> QED
  BY <1>4, <1>5, <1>7, <1>8, <1>9 DEF DrainInv

(* What the thread keeps of the end of the output, also when it then stops.     *)
LEMMA RemembersTypes ==
  ASSUME LogTypeOK, DrainInv, PipeIsRead
  PROVE  Remembers(chunk) \in Seq(Unit) /\ Len(Remembers(chunk)) <= SummaryLimit
<1>1. /\ Seen \in Nat /\ first \in 0..Seen /\ Len(chunk) \in Nat
      /\ Seen + Len(chunk) \in 0..MaxOutput /\ first \in 0..(Seen + Len(chunk))
  <2>1. /\ Seen \in Int /\ first \in Nat /\ Len(chunk) \in Nat /\ Len(pipe) \in Nat
        /\ output \in Nat /\ MaxOutput \in Nat
    BY Parts, Sizes
  <2>2. first <= Seen
    BY DEF DrainInv, InTransit
  <2>3. output <= MaxOutput
    BY <2>1 DEF LogTypeOK
  <2>4. Seen + Len(chunk) <= output
    BY <2>1 DEF Seen
  <2> QED
    BY <2>1, <2>2, <2>3, <2>4
<1>2. TailIs(tail, Seen, first)
  BY TailByUnits DEF DrainInv
<1>3. chunk \in Seq(Nat) /\ \A i \in 1..Len(chunk) : chunk[i] = Seen + i
  <2>1. chunk \in Seq(Unit \cup {Marker})
    BY DEF LogTypeOK
  <2> QED
    BY <2>1, UnitsAreNumbers DEF DrainInv, InTransit
<1>4. TailIs(Remembers(chunk), Seen + Len(chunk), first)
  BY <1>1, <1>2, <1>3, TailGrows DEF Remembers
<1> QED
  BY <1>1, <1>4, TailTypes

-----------------------------------------------------------------------------
(* Every step keeps the types, ...                                            *)
LEMMA LogTypesNext ==
  ASSUME LogTypeOK, DrainInv, LogNext
  PROVE  LogTypeOK'
<1>0. /\ <<>> \in Seq(Unit) /\ Len(<<>>) = 0 /\ 0 <= ChunkSize /\ 0 <= PipeSize
      /\ 0 <= SummaryLimit
  <2>1. Len(<<>>) = 0 /\ \A S : <<>> \in Seq(S)
    OBVIOUS
  <2>2. 0 <= ChunkSize /\ 0 <= PipeSize /\ 0 <= SummaryLimit
    BY Sizes
  <2> QED
    BY ONLY <2>1, <2>2
<1>00. /\ output \in Nat /\ first \in Nat /\ runs \in Nat /\ drainFaults \in Nat
       /\ output \in 0..output
  BY Parts, Sizes DEF LogTypeOK
<1>1. ASSUME StartDrain PROVE LogTypeOK'
  <2>1. runs' \in 0..MaxRuns
    BY <1>1, Sizes DEF LogTypeOK, StartDrain
  <2>2. written' \in 0..ContentLimit
    <3>1. Least(Len(file), ContentLimit) \in 0..ContentLimit
      <4>1. Least(Len(file), ContentLimit) \in Nat
            /\ Least(Len(file), ContentLimit) <= ContentLimit
        BY Parts, Sizes, Leasts
      <4> QED
        BY <4>1, Sizes
    <3> QED
      BY <1>1, <3>1 DEF StartDrain
  <2>3. HasMarker(file) \in BOOLEAN
    BY DEF HasMarker
  <2> QED
    BY <1>0, <1>00, <1>1, <2>1, <2>2, <2>3, Zenon DEF LogTypeOK, StartDrain
<1>2. ASSUME Produce PROVE LogTypeOK'
  <2>1. /\ output' \in 0..MaxOutput /\ first' \in 0..output'
        /\ pipe' \in Seq(Unit) /\ Len(pipe') <= PipeSize
    <3>1. output + 1 \in Unit /\ output' = output + 1 /\ first' = first /\ first \in 0..output
      BY <1>2, Sizes, <1>00 DEF LogTypeOK, Produce, Unit, attemptVars
    <3>2. pipe' = Append(pipe, output + 1) /\ pipe \in Seq(Unit) /\ Len(pipe) < PipeSize
      BY <1>2 DEF LogTypeOK, Produce
    <3>3. pipe' \in Seq(Unit) /\ Len(pipe') = Len(pipe) + 1 /\ Len(pipe) \in Nat
      BY <3>1, <3>2
    <3>4. output' \in 0..MaxOutput /\ first' \in 0..output'
      BY ONLY <1>00, <3>1, Sizes DEF Unit
    <3>5. Len(pipe') <= PipeSize
      BY <3>2, <3>3, Sizes
    <3> QED
      BY <3>3, <3>4, <3>5
  <2> QED
    BY <1>2, <2>1, Zenon DEF LogTypeOK, Produce, threadVars, attemptVars
<1>3. ASSUME NEW p \in {"child", "escaped"}, Fork(p) PROVE LogTypeOK'
  <2>1. holders' \subseteq {"leader", "child", "escaped"}
    BY <1>3 DEF LogTypeOK, Fork
  <2> QED
    BY <1>3, <2>1, Zenon DEF LogTypeOK, Fork, threadVars, attemptVars
<1>4. ASSUME NEW p \in holders, ProcessEnds(p) PROVE LogTypeOK'
  <2>1. holders' \subseteq {"leader", "child", "escaped"}
    BY <1>4 DEF LogTypeOK, ProcessEnds
  <2> QED
    BY <1>4, <2>1, Zenon DEF LogTypeOK, ProcessEnds, threadVars, attemptVars
<1>5. ASSUME Fetch PROVE LogTypeOK'
  <2>1. /\ pipe' \in Seq(Unit) /\ Len(pipe') <= PipeSize
        /\ chunk' \in Seq(Unit) /\ Len(chunk') <= ChunkSize
    <3>1. /\ pipe \in Seq(Unit) /\ pipe # <<>> /\ Len(pipe) <= PipeSize /\ pipe' = Tail(pipe)
          /\ chunk \in Seq(Unit) /\ Len(chunk) < ChunkSize
          /\ chunk' = Append(chunk, Head(pipe))
      BY <1>5 DEF LogTypeOK, Fetch
    <3>2. Head(pipe) \in Unit /\ Tail(pipe) \in Seq(Unit) /\ Len(Tail(pipe)) = Len(pipe) - 1
      BY <3>1, HeadTailProperties
    <3>3. /\ chunk' \in Seq(Unit) /\ Len(chunk') = Len(chunk) + 1 /\ Len(chunk) \in Nat
          /\ Len(pipe) \in Nat
      BY <3>1, <3>2
    <3> QED
      BY <3>1, <3>2, <3>3, Sizes
  <2> QED
    BY <1>5, <2>1, Zenon DEF LogTypeOK, Fetch, attemptVars
<1>6. ASSUME ReadReturns \/ EndDrain PROVE LogTypeOK'
  <2>1. drain' \in {"reading", "writing", "ended", "failed"}
    BY <1>6 DEF ReadReturns, EndDrain
  <2> QED
    BY <1>6, <2>1, Zenon DEF LogTypeOK, ReadReturns, EndDrain, pipeVars, attemptVars
<1>7. ASSUME WriteChunk PROVE LogTypeOK'
  <2>1. file' \in Seq(Unit \cup {Marker})
    <3>1. Len(Addition) \in 0..Len(Addition)
      BY AdditionByUnit
    <3> QED
      BY <1>7, <3>1, GrownByUnit, GrownWhole DEF WriteChunk
  <2>2. tail' \in Seq(Unit) /\ Len(tail') <= SummaryLimit
    BY <1>7, RemembersTypes DEF WriteChunk, PipeIsRead
  <2>3. written' \in 0..ContentLimit
    <3>1. Len(Part) \in Nat /\ Len(Part) <= Remaining
      <4>1. CASE markerWritten
        <5>1. Len(Part) = 0
          BY ONLY <1>0, <4>1, LogTypeOK, AdditionByUnit
        <5> QED
          BY <5>1, Parts
      <4>2. CASE ~markerWritten
        BY <4>2, AdditionByUnit
      <4> QED
        BY <4>1, <4>2
    <3>2. written' = written + Len(Part)
      BY <1>7 DEF WriteChunk
    <3> QED
      BY <3>1, <3>2, Parts, Sizes DEF Remaining
  <2>4. /\ truncated' \in BOOLEAN /\ markerWritten' \in BOOLEAN
        /\ drain' \in {"reading", "writing", "ended", "failed"}
    BY <1>7 DEF WriteChunk
  <2>5. chunk' \in Seq(Unit) /\ Len(chunk') <= ChunkSize
    BY ONLY <1>0, <1>7 DEF WriteChunk
  <2> QED
    BY <1>7, <2>1, <2>2, <2>3, <2>4, <2>5, Zenon DEF LogTypeOK, WriteChunk, pipeVars, attemptVars
<1>8. ASSUME WriteChunkFails PROVE LogTypeOK'
  <2>1. file' \in Seq(Unit \cup {Marker})
    <3>1. PICK n \in 0..(Len(Addition) - 1) : file' = Grown(n)
      BY <1>8 DEF WriteChunkFails, Grown
    <3>2. n \in 0..Len(Addition)
      BY AdditionByUnit
    <3> QED
      BY <3>1, <3>2, GrownByUnit
  <2>2. tail' \in Seq(Unit) /\ Len(tail') <= SummaryLimit
    BY <1>8, RemembersTypes DEF WriteChunkFails, PipeIsRead
  <2>3. drainFaults' \in 0..MaxDrainFaults
    BY <1>8, <1>00, Sizes DEF WriteChunkFails
  <2>4. /\ chunk' \in Seq(Unit) /\ Len(chunk') <= ChunkSize
        /\ pipe' \in Seq(Unit) /\ Len(pipe') <= PipeSize
    BY ONLY <1>0, <1>8 DEF WriteChunkFails
  <2>5. drain' = "failed"
    BY <1>8 DEF WriteChunkFails
  <2> QED
    BY <1>8, <2>1, <2>2, <2>3, <2>4, <2>5, Zenon DEF LogTypeOK, WriteChunkFails
<1>9. ASSUME Terminate \/ Join \/ JoinTimesOut PROVE LogTypeOK'
  <2>1. waiter' \in {"running", "killing", "joining", "closing", "returned", "dead"}
    BY <1>9 DEF Terminate, Join, JoinTimesOut
  <2> QED
    BY <1>9, <2>1, Zenon DEF LogTypeOK, Terminate, Join, JoinTimesOut, pipeVars, threadVars,
                             attemptVars
<1>10. ASSUME KillGroup PROVE LogTypeOK'
  <2>1. /\ holders' \subseteq {"leader", "child", "escaped"}
        /\ waiter' \in {"running", "killing", "joining", "closing", "returned", "dead"}
    BY <1>10 DEF KillGroup
  <2> QED
    BY <1>10, <2>1, Zenon DEF LogTypeOK, KillGroup, threadVars, attemptVars
<1>11. ASSUME CloseSource PROVE LogTypeOK'
  <2>1. waiter' \in {"running", "killing", "joining", "closing", "returned", "dead"}
    BY <1>11 DEF CloseSource
  <2>2. CASE UNCHANGED <<pipeVars, threadVars>>
    BY <1>11, <2>1, <2>2, Zenon DEF LogTypeOK, CloseSource, pipeVars, threadVars, attemptVars
  <2>3. CASE /\ PipeIsRead
             /\ tail' = Remembers(chunk)
             /\ file' = file \o Addition
             /\ chunk' = <<>>
             /\ pipe' = <<>>
             /\ drain' = "failed"
             /\ UNCHANGED <<holders, output, truncated, markerWritten, written>>
    <3>1. file' \in Seq(Unit \cup {Marker})
      <4>1. Len(Addition) \in 0..Len(Addition)
        BY AdditionByUnit
      <4> QED
        BY <2>3, <4>1, GrownByUnit, GrownWhole
    <3>2. tail' \in Seq(Unit) /\ Len(tail') <= SummaryLimit
      BY <2>3, RemembersTypes
    <3>3. /\ chunk' \in Seq(Unit) /\ Len(chunk') <= ChunkSize
          /\ pipe' \in Seq(Unit) /\ Len(pipe') <= PipeSize
      BY ONLY <1>0, <2>3
    <3>4. UNCHANGED <<runs, first, drainFaults>>
      BY <1>11 DEF CloseSource, attemptVars
    <3> QED
      BY <2>1, <2>3, <3>1, <3>2, <3>3, <3>4, Zenon DEF LogTypeOK
  <2> QED
    BY <1>11, <2>2, <2>3, Zenon DEF CloseSource
<1>12. ASSUME KillDrain PROVE LogTypeOK'
  <2>1. file' \in Seq(Unit \cup {Marker})
    <3>1. PICK n \in 0..(IF drain = "writing" THEN Len(Addition) ELSE 0) : file' = Grown(n)
      BY <1>12 DEF KillDrain, Grown
    <3>2. n \in 0..Len(Addition)
      BY AdditionByUnit
    <3> QED
      BY <3>1, <3>2, GrownByUnit
  <2>2. drainFaults' \in 0..MaxDrainFaults
    BY <1>12, <1>00, Sizes DEF KillDrain
  <2>3. /\ chunk' \in Seq(Unit) /\ Len(chunk') <= ChunkSize
        /\ pipe' \in Seq(Unit) /\ Len(pipe') <= PipeSize
    BY ONLY <1>0, <1>12 DEF KillDrain
  <2>4. /\ drain' \in {"reading", "writing", "ended", "failed"}
        /\ waiter' \in {"running", "killing", "joining", "closing", "returned", "dead"}
    BY <1>12 DEF KillDrain, LogTypeOK
  <2> QED
    BY <1>12, <2>1, <2>2, <2>3, <2>4, Zenon DEF LogTypeOK, KillDrain
<1> QED
  BY <1>1, <1>2, <1>3, <1>4, <1>5, <1>6, <1>7, <1>8, <1>9, <1>10, <1>11, <1>12
     DEF LogNext, Thread, Waiter

(* ... and what the log says.                                                  *)
LEMMA DrainInvNext ==
  ASSUME LogTypeOK, DrainInv, LogNext
  PROVE  DrainInv'
<1>1. ASSUME Fork("child") \/ Fork("escaped") \/ (\E p \in holders : ProcessEnds(p)) \/ Terminate
             \/ KillGroup \/ Join \/ JoinTimesOut
      PROVE  DrainInv'
  <2>1. /\ UNCHANGED <<output, first, pipe, chunk, file, tail, truncated, markerWritten,
                       written, drainFaults>>
        /\ drain' = drain
    BY <1>1, Zenon DEF Fork, ProcessEnds, Terminate, KillGroup, Join, JoinTimesOut,
                       pipeVars, threadVars, attemptVars
  <2> QED
    BY <2>1, QuietStep
<1>2. ASSUME ReadReturns \/ EndDrain PROVE DrainInv'
  <2>1. /\ UNCHANGED <<output, first, pipe, chunk, file, tail, truncated, markerWritten,
                       written, drainFaults>>
        /\ \/ drain = "reading" /\ drain' = "writing" /\ chunk # <<>>
           \/ drain = "reading" /\ drain' = "ended" /\ chunk = <<>> /\ pipe = <<>>
    BY <1>2, Zenon DEF ReadReturns, EndDrain, EndOfPipe, pipeVars, attemptVars
  <2> QED
    BY <2>1, QuietStep
<1>3. ASSUME WriteChunkFails PROVE DrainInv'
  <2>1. PICK n \in 0..(Len(Addition) - 1) : file' = Grown(n)
    BY <1>3 DEF WriteChunkFails, Grown
  <2>2. n \in 0..Len(Addition)
    BY AdditionByUnit
  <2>3. /\ PipeIsRead /\ first' = first /\ output' = output /\ chunk' = <<>> /\ pipe' = <<>>
        /\ drain' = "failed" /\ drainFaults' = drainFaults + 1
    BY <1>3 DEF WriteChunkFails, PipeIsRead
  <2> QED
    BY <2>1, <2>2, <2>3, StoppedStep
<1>4. ASSUME CloseSource PROVE DrainInv'
  <2>1. CASE UNCHANGED <<pipeVars, threadVars>>
    <3>1. /\ UNCHANGED <<output, first, pipe, chunk, file, tail, truncated, markerWritten,
                         written, drainFaults>>
          /\ drain' = drain
      BY <1>4, <2>1, Zenon DEF CloseSource, pipeVars, threadVars, attemptVars
    <3> QED
      BY <3>1, QuietStep
  <2>2. CASE PipeIsRead /\ file' = file \o Addition /\ chunk' = <<>> /\ pipe' = <<>>
             /\ drain' = "failed" /\ output' = output
    <3>1. Len(Addition) \in 0..Len(Addition) /\ file' = Grown(Len(Addition))
      BY <2>2, AdditionByUnit, GrownWhole
    <3>2. first' = first /\ drainFaults' = drainFaults
      BY <1>4 DEF CloseSource, attemptVars
    <3> QED
      BY <2>2, <3>1, <3>2, StoppedStep
  <2> QED
    BY <1>4, <2>1, <2>2, Zenon DEF CloseSource
<1>5. ASSUME KillDrain, PipeIsRead PROVE DrainInv'
  <2>1. PICK n \in 0..(IF drain = "writing" THEN Len(Addition) ELSE 0) : file' = Grown(n)
    BY <1>5 DEF KillDrain, Grown
  <2>2. n \in 0..Len(Addition)
    BY AdditionByUnit
  <2>3. /\ first' = first /\ output' = output /\ chunk' = <<>> /\ pipe' = <<>>
        /\ drain' = "failed" /\ drainFaults' = drainFaults + 1
    BY <1>5 DEF KillDrain
  <2> QED
    BY <1>5, <2>1, <2>2, <2>3, StoppedStep
<1>6. ASSUME KillDrain, ~PipeIsRead PROVE DrainInv'
  <2>1. file' = Grown(0)
    BY <1>6 DEF KillDrain, PipeIsRead, Grown
  <2>2. file' = file
    <3>1. Addition \in Seq(Unit \cup {Marker}) /\ file \in Seq(Unit \cup {Marker})
      BY AdditionByUnit DEF LogTypeOK
    <3>2. SubSeq(Addition, 1, 0) = <<>>
      BY <3>1, SubSeqEmpty
    <3> QED
      BY <2>1, <3>1, <3>2, ConcatEmptySeq DEF Grown
  <2>3. /\ first' = first /\ output' = output /\ chunk' = <<>> /\ pipe' = <<>>
        /\ drain' = drain /\ drainFaults' = drainFaults + 1 /\ tail' = tail
        /\ drain \in {"ended", "failed"}
    BY <1>6 DEF KillDrain, PipeIsRead, LogTypeOK
  <2>4. chunk' = chunk /\ pipe' = pipe
    BY <2>3 DEF DrainInv, InTransit
  <2>5. Seen' = Seen /\ (HasMarker(file)' <=> HasMarker(file))
    BY <2>2, <2>3, <2>4 DEF Seen, HasMarker
  <2>6. InTransit' /\ FileInOrder'
    BY <2>2, <2>3, <2>4, <2>5 DEF DrainInv, InTransit, FileInOrder
  <2>7. ThreadKnows'
    BY <2>3 DEF ThreadKnows, PipeIsRead
  <2>8. FileInv'
    <3> DEFINE s == Slack(drainFaults)
               t == Slack(drainFaults + 1)
               more == IF HasMarker(file) THEN MarkerSize ELSE 0
    <3>1. /\ s \in Nat /\ t = s + (MarkerSize - 1) /\ MarkerSize - 1 \in Nat
          /\ ContentLimit \in Nat /\ Len(file) \in Nat /\ more \in Nat
      <4>1. drainFaults \in Nat /\ Len(file) \in Nat
        BY Parts
      <4>2. s \in Nat /\ t = s + (MarkerSize - 1)
        BY ONLY <4>1, SlackGrows
      <4> HIDE DEF s, t
      <4> QED
        BY <4>1, <4>2, Sizes
    <3>2. Len(file) <= ContentLimit + s + more
      BY DEF DrainInv, FileInv
    <3>3. FileInv' <=> Len(file) <= ContentLimit + t + more
      BY <2>2, <2>3, <2>5 DEF FileInv, Slack
    <3> HIDE DEF s, t, more
    <3> QED
      BY ONLY <3>1, <3>2, <3>3
  <2>9. MarkerInv'
    BY <2>2, <2>3, <2>5 DEF DrainInv, MarkerInv
  <2>10. TailIsRecent'
    BY <2>3, <2>5, TailByUnits, TailByUnitsNext DEF DrainInv, PipeIsRead
  <2> QED
    BY <2>6, <2>7, <2>8, <2>9, <2>10 DEF DrainInv
<1>7. (\E p \in {"child", "escaped"} : Fork(p)) <=> Fork("child") \/ Fork("escaped")
  OBVIOUS
<1> QED
  BY <1>1, <1>2, <1>3, <1>4, <1>5, <1>6, <1>7, StartDrainStep, ProduceStep, FetchStep,
     WriteChunkStep, Zenon DEF LogNext, Thread, Waiter

-----------------------------------------------------------------------------
(* The pipe, the file and the tail agree on what was written, for any number   *)
(* of attempts, of kills and of full disks.                                   *)
THEOREM LogInvariant == LogSpec => []LogInv
<1>1. LogInv <=> LogTypeOK /\ DrainInv
  BY Zenon DEF LogInv, DrainInv
<1>2. LogInv' <=> LogTypeOK' /\ DrainInv'
  BY Zenon DEF LogInv, DrainInv
<1>3. ASSUME LogInv, UNCHANGED drainVars PROVE LogInv'
  <2>1. UNCHANGED <<output, first, pipe, chunk, file, tail, truncated, markerWritten,
                    written, drainFaults>> /\ drain' = drain
    BY <1>3, Zenon DEF drainVars
  <2>2. DrainInv'
    BY <1>1, <1>3, <2>1, QuietStep
  <2>3. LogTypeOK'
    BY <1>3, Zenon DEF LogInv, LogTypeOK, drainVars
  <2> QED
    BY <1>2, <2>2, <2>3
<1>4. LogInv /\ [LogNext]_drainVars => LogInv'
  BY <1>1, <1>2, <1>3, LogTypesNext, DrainInvNext
<1> QED
  BY <1>4, LogInitInv, PTL DEF LogSpec

(* The log of a worker keeps its limit however many attempts append to it,      *)
(* tells whether it is whole, and its tail is the end of the attempt          *)
(* (BoundedLogDrain._drain, and run that joins it).                           *)
THEOREM LogStaysHonest == LogSpec => []LogIsHonest
<1> SUFFICES ASSUME LogInv PROVE LogIsHonest
  BY LogInvariant, PTL
<1>0. LogTypeOK /\ InTransit /\ FileInOrder /\ FileInv /\ MarkerInv /\ TailIsRecent
  BY DEF LogInv
<1>1. LogIsBounded
  <2> DEFINE s == Slack(drainFaults)
             more == IF HasMarker(file) THEN MarkerSize ELSE 0
  <2>1. /\ s \in Nat /\ Len(file) \in Nat /\ more \in Nat /\ more <= MarkerSize
        /\ ContentLimit \in Nat /\ ContentLimit + MarkerSize = FileLimit
        /\ MarkerSize \in Nat /\ FileLimit \in Nat
    <3>1. drainFaults \in Nat /\ Len(file) \in Nat
      BY <1>0, Parts
    <3>2. s \in Nat
      BY ONLY <3>1, SlackGrows
    <3> HIDE DEF s
    <3> QED
      BY <3>1, <3>2, Sizes
  <2>2. Len(file) <= ContentLimit + s + more
    BY <1>0 DEF FileInv
  <2>3. LogIsBounded <=> Len(file) <= FileLimit + s
    BY DEF LogIsBounded, Slack
  <2> HIDE DEF s, more
  <2> QED
    BY ONLY <2>1, <2>2, <2>3
<1>2. MarkerTellsTruncation
  <2>0. /\ Seen \in Int /\ Seen <= output /\ output \in Nat /\ Len(file) \in Nat
        /\ first \in Nat
    BY <1>0, Parts DEF Seen
  <2>1. InFile = {file[i] : i \in 1..Len(file)} \ {Marker}
    <3>1. DOMAIN file = 1..Len(file)
      BY <1>0 DEF LogTypeOK
    <3> QED
      BY <3>1 DEF InFile, Range
  <2>2. ASSUME drain = "ended", ~HasMarker(file) PROVE (first + 1)..output \subseteq InFile
    <3>1. Seen = output
      <4>1. pipe = <<>> /\ chunk = <<>>
        BY <1>0, <2>2 DEF InTransit
      <4>2. Len(<<>>) = 0
        OBVIOUS
      <4>3. Len(pipe) = 0 /\ Len(chunk) = 0
        BY ONLY <4>1, <4>2
      <4> QED
        BY <2>0, <4>3 DEF Seen
    <3>2. ASSUME NEW n \in (first + 1)..output PROVE n \in InFile
      <4>1. PICK i \in 1..Len(file) : file[i] = n
        BY <1>0, <2>2, <3>1, <3>2 DEF MarkerInv
      <4>2. n # Marker
        BY <2>0 DEF Marker
      <4> QED
        BY <2>1, <4>1, <4>2
    <3> QED
      BY <3>2
  <2>3. ASSUME HasMarker(file) PROVE \E n \in 1..output : n \notin InFile
    <3>1. PICK n \in 1..Seen : \A i \in 1..Len(file) : file[i] # n
      BY <1>0, <2>3 DEF MarkerInv
    <3>2. n \in 1..output
      BY <2>0
    <3> QED
      BY <2>1, <3>1, <3>2
  <2> QED
    BY <1>0, <2>2, <2>3 DEF MarkerTellsTruncation, FileInOrder
<1> QED
  BY <1>0, <1>1, <1>2 DEF LogIsHonest

=============================================================================
