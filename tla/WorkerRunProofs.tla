-------------------------- MODULE WorkerRunProofs --------------------------
(***************************************************************************)
(* What the engine records of a job, for any number of attempts, heartbeats, *)
(* torn lines and kills: the types, whose response run returns, what a       *)
(* measured performance stands on, and the order of the log.                *)
(***************************************************************************)
EXTENDS WorkerRun, TLAPS, FiniteSetTheorems, SequenceTheorems, WellFoundedInduction

Lines == [event : Garbled..WorkerExited, stage : 0..Sampling, seq : Nat]

Clean(lines) == \A i \in DOMAIN lines : ~IsBroken(lines[i])

Reached(lines) == LastEvent(lines, DOMAIN lines)

(* Every line has its place for a number, and the lifecycle is kept up to the  *)
(* first line that cannot be read.                                          *)
InOrder(lines) ==
    \A i \in DOMAIN lines :
        /\ lines[i].seq = i
        /\ (\A j \in 1..i : ~IsBroken(lines[j])) => Follows(lines, i)

(* Only the last line may be unfinished.                                     *)
IsReadable(lines) ==
    \A i \in DOMAIN lines :
        IsBroken(lines[i]) => i = Len(lines) /\ lines[i].event = Torn

DiscoveredIn(lines) == {i \in DOMAIN lines : lines[i].event = Discovered}

(* No worker but that of the last attempt writes, and it goes on where the log *)
(* ends: run starts on a log whose attempts have all exited.                 *)
OneWriter ==
    \A k \in Attempt :
        Alive(k) /\ w[k].at < WorkerExited =>
            /\ k = attempt
            /\ Clean(log)
            /\ w[k].at \in Lifecycle /\ w[k].at = Reached(log)
            /\ w[k].seq = Len(log) + 1

(* What a controller knows of its attempt, from place to place.               *)
ControllerInv ==
    /\ pc # "idle" => attempt \in Attempt /\ result = "none"
    /\ pc = "discover" =>
         /\ log = <<>> \/ Valid(log)
         /\ w[attempt] = [NewWorker EXCEPT !.token = AttemptNumber]
    /\ pc \in {"spawn", "poll", "check", "collect", "close"} =>
         /\ IsReadable(log)
         /\ w[attempt].at \in Lifecycle /\ w[attempt].at = Reached(log)
         /\ w[attempt].at = WorkerExited => Clean(log)
    /\ pc = "spawn" =>
         /\ Clean(log)
         /\ w[attempt].seq = Len(log) + 1
         /\ w[attempt].life = "none" /\ ~w[attempt].wrote
    /\ pc \in {"collect", "close", "return"} => ~Alive(attempt)
    /\ result \in {"returned", "interrupted", "failed"} => attempt \in Attempt /\ ~Alive(attempt)

(* The tokens that have been used count the attempts that were discovered.   *)
TokenInv ==
    /\ Cardinality(DiscoveredIn(log)) <= attempt
    /\ pc = "discover" => Cardinality(DiscoveredIn(log)) < attempt
    /\ \A k \in Attempt :
         w[k].at # 0 => w[k].token \in 1..Cardinality(DiscoveredIn(log))
    /\ \A t \in Attempt :
         responses[t] # NoResponse => t <= Cardinality(DiscoveredIn(log))

(* The response in an attempt's file is the one its worker wrote.             *)
OwnResponse ==
    pc \in {"spawn", "poll", "check", "collect"} =>
        LET found == responses[w[attempt].token] IN
        found # NoResponse =>
            /\ w[attempt].wrote
            /\ found = Response(attempt, "worker", w[attempt].outcome, w[attempt].failed,
                                w[attempt].verdict, w[attempt].perf)

(* What a worker has measured, it was allowed to.                            *)
IsAllowed(worker) ==
    /\ worker.wrote => worker.at >= FinishOf(Sampling)
    /\ worker.verdict # "none" /\ ~worker.skip =>
         measure # "never" /\ (worker.verdict = "pass" \/ measure = "always")
    /\ worker.perf = "measured" =>
         /\ worker.at >= FinishOf(Sampling)
         /\ worker.verdict # "none" /\ ~worker.skip

WorkerInv == \A k \in Attempt : IsAllowed(w[k])

(* The response that is returned, and the log it leaves.                      *)
IsAnswered == pc = "return" \/ result \in {"returned", "interrupted"}

ReplyInv ==
    /\ pc = "close" \/ IsAnswered =>
         /\ reply.of = attempt
         /\ reply.by = "controller" => reply.perf = "none"
    /\ pc = "close" => reply.by = "controller"
    /\ IsAnswered =>
         /\ reply.by \in {"worker", "controller"}
         /\ reply.by = "worker" =>
              reply.verdict = w[attempt].verdict /\ reply.perf = w[attempt].perf
         /\ reply.by = "controller" /\ Clean(log) =>
              log # <<>> /\ Reached(log) = WorkerExited
    /\ result \in {"returned", "interrupted"} /\ reply.outcome = "success" => Valid(log)

AttemptInv ==
    /\ TypeOK
    /\ InOrder(log)
    /\ OneWriter
    /\ ControllerInv
    /\ TokenInv
    /\ OwnResponse
    /\ WorkerInv
    /\ ReplyInv

-----------------------------------------------------------------------------
(* Lines of a log: their latest position, their last event.                  *)

(* Positions in a log, and those of them that are not heartbeats or broken.    *)
IsPositions(P) == \E n \in Nat : P \subseteq 1..n

Significant(lines, P) == {i \in P : lines[i].event \in Lifecycle}

IsLast(lines, P, m) ==
    /\ m \in P /\ lines[m].event \in Lifecycle
    /\ \A j \in P : lines[j].event \in Lifecycle => j <= m

(* A set of positions that is not empty has a latest one.                    *)
LEMMA LatestIsLast ==
  ASSUME NEW P, IsPositions(P), P # {}
  PROVE  /\ Latest(P) \in P /\ Latest(P) \in Nat
         /\ \A j \in P : j <= Latest(P)
<1>0. PICK n \in Nat : P \subseteq 1..n
  BY DEF IsPositions
<1> DEFINE T == {n - i : i \in P}
<1>1. T \subseteq Nat
  BY <1>0 DEF T
<1>2. T # {}
  <2>1. PICK i \in P : TRUE
    OBVIOUS
  <2>2. n - i \in T
    BY DEF T
  <2> QED
    BY <2>2
<1>3. PICK x \in T : \A y \in T : ~(<<y, x>> \in OpToRel(<, Nat))
  BY <1>1, <1>2, NatLessThanWellFounded, WFMin
<1>4. \A y \in T : ~(y < x)
  BY <1>1, <1>3 DEF OpToRel
<1>5. PICK i \in P : x = n - i
  BY DEF T
<1>6. ASSUME NEW j \in P
      PROVE  j <= i
  <2>1. n - j \in T
    BY DEF T
  <2>2. ~(n - j < n - i)
    BY <2>1, <1>4, <1>5
  <2>3. i \in Int /\ j \in Int
    BY <1>0
  <2> QED
    BY <2>2, <2>3
<1>7. \A j \in P : j \in Nat
  BY <1>0
<1> QED
  BY <1>6, <1>7 DEF Latest

(* It is the only one.                                                       *)
LEMMA LatestIs ==
  ASSUME NEW P, IsPositions(P), NEW i \in P, \A j \in P : j <= i
  PROVE  Latest(P) = i
<1>1. /\ Latest(P) \in P /\ Latest(P) \in Nat
      /\ i <= Latest(P) /\ Latest(P) <= i
  BY LatestIsLast
<1>2. i \in Nat
  BY DEF IsPositions
<1> QED
  BY <1>1, <1>2

(* The last event is that of a position no other one comes after.             *)
LEMMA LastEventIs ==
  ASSUME NEW P, IsPositions(P), NEW lines, NEW m, IsLast(lines, P, m)
  PROVE  LastEvent(lines, P) = lines[m].event
<1> DEFINE significant == Significant(lines, P)
<1>1. m \in significant /\ \A j \in significant : j <= m
  BY DEF IsLast, Significant
<1>2. IsPositions(significant)
  BY DEF IsPositions, Significant
<1>3. Latest(significant) = m
  BY <1>1, <1>2, LatestIs
<1>4. LastEvent(lines, P) = IF significant = {} THEN 0 ELSE lines[Latest(significant)].event
  BY DEF LastEvent, Significant
<1> QED
  BY <1>1, <1>3, <1>4

(* An event of the lifecycle is the last of some position.                   *)
LEMMA LastEventOf ==
  ASSUME NEW P, IsPositions(P), NEW lines
  PROVE  \/ LastEvent(lines, P) = 0 /\ Significant(lines, P) = {}
         \/ /\ LastEvent(lines, P) \in Lifecycle
            /\ \E m \in Nat : IsLast(lines, P, m) /\ LastEvent(lines, P) = lines[m].event
<1> DEFINE significant == Significant(lines, P)
           m == Latest(significant)
<1>1. LastEvent(lines, P) = IF significant = {} THEN 0 ELSE lines[m].event
  BY DEF LastEvent, Significant
<1>2. CASE significant = {}
  BY <1>1, <1>2
<1>3. CASE significant # {}
  <2>1. IsPositions(significant)
    BY DEF IsPositions, Significant
  <2>2. m \in significant /\ m \in Nat /\ \A j \in significant : j <= m
    BY <1>3, <2>1, LatestIsLast
  <2>3. IsLast(lines, P, m) /\ lines[m].event \in Lifecycle
    BY <2>2 DEF IsLast, Significant
  <2> QED
    BY <1>1, <1>3, <2>2, <2>3
<1> QED
  BY <1>2, <1>3

(* It is a matter of the significant lines alone.                            *)
LEMMA LastEventSame ==
  ASSUME NEW P, IsPositions(P), NEW Q, NEW lines, NEW other,
         Significant(other, Q) = Significant(lines, P),
         \A i \in Significant(lines, P) : other[i].event = lines[i].event
  PROVE  LastEvent(other, Q) = LastEvent(lines, P)
<1> DEFINE significant == Significant(lines, P)
<1>1. /\ LastEvent(lines, P) = IF significant = {} THEN 0 ELSE lines[Latest(significant)].event
      /\ LastEvent(other, Q) = IF significant = {} THEN 0 ELSE other[Latest(significant)].event
  BY DEF LastEvent, Significant
<1>2. CASE significant = {}
  BY <1>1, <1>2
<1>3. CASE significant # {}
  <2>1. IsPositions(significant)
    BY DEF IsPositions, Significant
  <2>2. Latest(significant) \in significant
    BY <1>3, <2>1, LatestIsLast
  <2> QED
    BY <1>1, <1>3, <2>2
<1> QED
  BY <1>2, <1>3

-----------------------------------------------------------------------------
(* What an append does to a log.                                            *)

(* Without a torn line at the end, an append adds a line.                    *)
LEMMA AppendedToClean ==
  ASSUME NEW lines \in Seq(Lines), Clean(lines), NEW line
  PROVE  Appended(lines, line) = Append(lines, line)
<1>1. lines # <<>> => Len(lines) \in DOMAIN lines
  BY LenProperties, EmptySeq
<1> QED
  BY <1>1 DEF Appended, Clean, IsBroken

BeginAlike(lines, after, m) == \A j \in 1..m : after[j] = lines[j]

(* Logs that begin alike have the same last events there.                    *)
LEMMA PriorKept ==
  ASSUME NEW m \in Nat, NEW lines, NEW after, BeginAlike(lines, after, m), NEW n \in 0..m
  PROVE  LastEvent(after, 1..n) = LastEvent(lines, 1..n)
<1> DEFINE P == 1..n
<1>1. IsPositions(P) /\ \A j \in P : after[j] = lines[j]
  BY DEF BeginAlike, IsPositions
<1> HIDE DEF P
<1>2. Significant(after, P) = Significant(lines, P)
  BY <1>1 DEF Significant
<1>3. \A j \in Significant(lines, P) : after[j].event = lines[j].event
  BY <1>1 DEF Significant
<1>4. LastEvent(after, P) = LastEvent(lines, P)
  BY <1>1, <1>2, <1>3, LastEventSame
<1> QED
  BY <1>4 DEF P

(* A log stays in order as long as its new lines are.                        *)
LEMMA InOrderExtended ==
  ASSUME NEW lines \in Seq(Lines), NEW after \in Seq(Lines), InOrder(lines),
         NEW m \in 0..Len(lines), m <= Len(after),
         BeginAlike(lines, after, m),
         \A j \in (m + 1)..Len(after) :
            /\ after[j].seq = j
            /\ (\A h \in 1..j : ~IsBroken(after[h])) => Follows(after, j)
  PROVE  InOrder(after)
<1>1. /\ Len(lines) \in Nat /\ DOMAIN lines = 1..Len(lines)
      /\ Len(after) \in Nat /\ DOMAIN after = 1..Len(after)
  BY LenProperties
<1> SUFFICES ASSUME NEW i \in 1..Len(after)
             PROVE  /\ after[i].seq = i
                    /\ (\A h \in 1..i : ~IsBroken(after[h])) => Follows(after, i)
  BY <1>1 DEF InOrder
<1>2. CASE i > m
  <2>1. i \in (m + 1)..Len(after)
    BY <1>1, <1>2
  <2> QED
    BY <2>1
<1>3. CASE i <= m
  <2>1. i \in 1..m /\ i \in 1..Len(lines) /\ i - 1 \in 0..m /\ m \in Nat
    BY <1>1, <1>3
  <2>2. after[i] = lines[i] /\ \A h \in 1..i : after[h] = lines[h]
    BY <1>1, <2>1 DEF BeginAlike
  <2>3. LastEvent(after, 1..(i - 1)) = LastEvent(lines, 1..(i - 1))
    BY <2>1, PriorKept
  <2>4. Follows(lines, i) => Follows(after, i)
    BY <2>2, <2>3 DEF Follows
  <2>5. lines[i].seq = i /\ ((\A h \in 1..i : ~IsBroken(lines[h])) => Follows(lines, i))
    BY <1>1, <2>1 DEF InOrder
  <2> QED
    BY <2>2, <2>4, <2>5
<1> QED
  BY <1>1, <1>2, <1>3

(* The last event of a log that grows by a line.                             *)
LEMMA ReachedAfter ==
  ASSUME NEW lines \in Seq(Lines), NEW line \in Lines
  PROVE  Reached(Append(lines, line)) =
           IF line.event \in Lifecycle THEN line.event ELSE Reached(lines)
<1> DEFINE after == Append(lines, line)
<1>1. Len(lines) \in Nat /\ DOMAIN lines = 1..Len(lines)
  BY LenProperties
<1>2. /\ after \in Seq(Lines) /\ Len(after) = Len(lines) + 1
      /\ DOMAIN after = 1..(Len(lines) + 1)
      /\ after[Len(lines) + 1] = line
      /\ \A j \in 1..Len(lines) : after[j] = lines[j]
  BY <1>1, AppendProperties, LenProperties
<1> HIDE DEF after
<1> DEFINE n == Len(lines) + 1
           P == 1..n
           Q == 1..Len(lines)
<1>3. n \in Nat /\ IsPositions(P) /\ IsPositions(Q)
  BY <1>1 DEF IsPositions
<1>4. Reached(after) = LastEvent(after, P) /\ Reached(lines) = LastEvent(lines, Q)
  BY <1>1, <1>2 DEF Reached
<1>5. CASE line.event \in Lifecycle
  <2>1. IsLast(after, P, n)
    BY <1>1, <1>2, <1>5 DEF IsLast
  <2> HIDE DEF n, P
  <2>2. LastEvent(after, P) = after[n].event
    BY <1>3, <2>1, LastEventIs
  <2> QED
    BY <1>2, <1>4, <1>5, <2>2 DEF n, after
<1>6. CASE line.event \notin Lifecycle
  <2>1. Significant(after, P) = Significant(lines, Q)
    <3>1. \A j \in P : j \in Q \/ j = n
      BY <1>1
    <3>2. \A j \in Q : j \in P /\ j # n
      BY <1>1
    <3> QED
      BY <1>2, <1>6, <3>1, <3>2 DEF Significant
  <2>2. \A j \in Significant(lines, Q) : after[j].event = lines[j].event
    BY <1>2 DEF Significant
  <2> HIDE DEF n, P, Q
  <2>3. LastEvent(after, P) = LastEvent(lines, Q)
    BY <1>3, <2>1, <2>2, LastEventSame
  <2> QED
    BY <1>4, <1>6, <2>3 DEF after
<1> QED
  BY <1>5, <1>6

(* A line that has the next number and goes on with the lifecycle, is a       *)
(* heartbeat of its stage, or cannot be read.                                *)
GoesOn(lines, line) ==
    /\ line.seq = Len(lines) + 1
    /\ \/ line.event = (Reached(lines) % WorkerExited) + 1
       \/ /\ line.event = Heartbeat
          /\ StageAt(Reached(lines)) # 0 /\ line.stage = StageAt(Reached(lines))
       \/ IsBroken(line)

(* Such a line keeps the order.                                              *)
LEMMA InOrderAfter ==
  ASSUME NEW lines \in Seq(Lines), NEW line \in Lines, InOrder(lines), GoesOn(lines, line)
  PROVE  InOrder(Append(lines, line))
<1> DEFINE after == Append(lines, line)
           m == Len(lines)
<1>1. m \in Nat /\ DOMAIN lines = 1..m
  BY LenProperties
<1>2. /\ after \in Seq(Lines) /\ Len(after) = m + 1
      /\ after[m + 1] = line
      /\ BeginAlike(lines, after, m)
  BY <1>1, AppendProperties DEF BeginAlike
<1> HIDE DEF after
<1>3. LastEvent(after, 1..m) = Reached(lines)
  BY <1>1, <1>2, PriorKept DEF Reached
<1>4. ~IsBroken(line) => Follows(after, m + 1)
  BY <1>1, <1>2, <1>3 DEF Follows, GoesOn
<1>5. \A j \in (m + 1)..Len(after) :
         /\ after[j].seq = j
         /\ (\A h \in 1..j : ~IsBroken(after[h])) => Follows(after, j)
  <2> SUFFICES ASSUME NEW j \in (m + 1)..Len(after)
               PROVE  /\ after[j].seq = j
                      /\ (\A h \in 1..j : ~IsBroken(after[h])) => Follows(after, j)
    OBVIOUS
  <2>1. j = m + 1 /\ j \in 1..j
    BY <1>1, <1>2
  <2> QED
    BY <1>2, <1>4, <2>1 DEF GoesOn
<1>6. m \in 0..Len(lines) /\ m <= Len(after)
  BY <1>1, <1>2
<1>7. InOrder(after)
  BY <1>2, <1>5, <1>6, InOrderExtended
<1> QED
  BY <1>7 DEF after

(* A clean log stays so by lines that can be read.                           *)
LEMMA CleanAfter ==
  ASSUME NEW lines \in Seq(Lines), NEW line \in Lines, Clean(lines)
  PROVE  /\ ~IsBroken(line) => Clean(Append(lines, line))
         /\ line.event = Torn => IsReadable(Append(lines, line))
<1>1. Len(lines) \in Nat /\ DOMAIN lines = 1..Len(lines)
  BY LenProperties
<1>2. /\ Append(lines, line) \in Seq(Lines)
      /\ Len(Append(lines, line)) = Len(lines) + 1
      /\ Append(lines, line)[Len(lines) + 1] = line
      /\ \A j \in 1..Len(lines) : Append(lines, line)[j] = lines[j]
  BY <1>1, AppendProperties
<1>3. \A i \in DOMAIN Append(lines, line) : i \in 1..Len(lines) \/ i = Len(lines) + 1
  BY <1>1, <1>2, LenProperties
<1> QED
  BY <1>1, <1>2, <1>3 DEF Clean, IsReadable

LEMMA LinesAreFinite ==
  ASSUME NEW lines \in Seq(Lines)
  PROVE  IsFiniteSet(DiscoveredIn(lines)) /\ Cardinality(DiscoveredIn(lines)) \in Nat
<1>1. Len(lines) \in Nat /\ DOMAIN lines = 1..Len(lines)
  BY LenProperties
<1>2. IsFiniteSet(1..Len(lines))
  BY <1>1, FS_Interval
<1>3. DiscoveredIn(lines) \subseteq 1..Len(lines)
  BY <1>1 DEF DiscoveredIn
<1> QED
  BY <1>2, <1>3, FS_Subset, FS_CardinalityType

(* A DISCOVERED line is counted, and no other.                               *)
LEMMA DiscoveredAfter ==
  ASSUME NEW lines \in Seq(Lines), NEW line \in Lines
  PROVE  /\ Cardinality(DiscoveredIn(lines)) \in Nat
         /\ Cardinality(DiscoveredIn(Append(lines, line))) =
              IF line.event = Discovered THEN Cardinality(DiscoveredIn(lines)) + 1
              ELSE Cardinality(DiscoveredIn(lines))
<1> DEFINE after == Append(lines, line)
<1>1. Len(lines) \in Nat /\ DOMAIN lines = 1..Len(lines)
  BY LenProperties
<1>2. /\ DOMAIN after = 1..(Len(lines) + 1)
      /\ after[Len(lines) + 1] = line
      /\ \A j \in 1..Len(lines) : after[j] = lines[j]
  BY <1>1, AppendProperties, LenProperties
<1> HIDE DEF after
<1>3. IsFiniteSet(DiscoveredIn(lines))
  BY LinesAreFinite
<1>4. CASE line.event = Discovered
  <2>1. DiscoveredIn(after) = DiscoveredIn(lines) \cup {Len(lines) + 1}
    BY <1>1, <1>2, <1>4 DEF DiscoveredIn
  <2>2. Len(lines) + 1 \notin DiscoveredIn(lines)
    BY <1>1 DEF DiscoveredIn
  <2> QED
    BY <1>3, <1>4, <2>1, <2>2, FS_AddElement, FS_CardinalityType DEF after
<1>5. CASE line.event # Discovered
  <2>1. DiscoveredIn(after) = DiscoveredIn(lines)
    BY <1>1, <1>2, <1>5 DEF DiscoveredIn
  <2> QED
    BY <1>3, <1>5, <2>1, FS_CardinalityType DEF after
<1> QED
  BY <1>4, <1>5

-----------------------------------------------------------------------------
(* How the controller closes the log of its attempt.                         *)

(* The lines of the lifecycle from an event on, and their numbers.            *)
LEMMA LinesFromType ==
  ASSUME NEW e \in 1..(WorkerExited + 1), NEW q \in Nat
  PROVE  /\ LinesFrom(e, q) \in Seq(Lines)
         /\ Len(LinesFrom(e, q)) = WorkerExited - e + 1
         /\ \A i \in 1..(WorkerExited - e + 1) :
              LinesFrom(e, q)[i].event = e + i - 1 /\ LinesFrom(e, q)[i].seq = q + i - 1
<1> DEFINE n == WorkerExited - e + 1
           M == LinesFrom(e, q)
<1>1. n \in Nat
  BY DEF WorkerExited
<1>2. ASSUME NEW i \in 1..n
      PROVE  M[i] \in Lines /\ M[i].event = e + i - 1 /\ M[i].seq = q + i - 1
  <2>1. e + i - 1 \in Garbled..WorkerExited /\ q + i - 1 \in Nat
    BY DEF WorkerExited, Garbled
  <2>2. ASSUME NEW s \in Stage, e + i - 1 \in {StartOf(s), FinishOf(s)}
        PROVE  (e + i - 2) \div 2 \in 0..Sampling
    BY <2>2 DEF Stage, Import, Sampling, StartOf, FinishOf
  <2> QED
    BY <2>1, <2>2 DEF LinesFrom, Line, Lines, Sampling
<1>3. M = [i \in 1..n |-> M[i]]
  BY DEF LinesFrom
<1>4. M \in [1..n -> Lines]
  BY <1>2, <1>3
<1>5. M \in Seq(Lines)
  BY <1>1, <1>4, SeqDef
<1>6. Len(M) = n
  BY <1>1, <1>4, <1>5, LenProperties
<1> QED
  BY <1>2, <1>5, <1>6

(* The last attempt is reached where the log is, and its last line is the last *)
(* one that can be read.                                                    *)
LEMMA LastAttemptIs ==
  ASSUME log \in Seq(Lines), InOrder(log), IsReadable(log), Reached(log) \in Lifecycle
  PROVE  /\ LastEvent(log, LastAttempt) = Reached(log)
         /\ Len(log) \in Nat \ {0}
         /\ Clean(log) => log[Latest(LastAttempt)].seq = Len(log)
         /\ ~Clean(log) => /\ Len(log) > 1
                           /\ log[Len(log)].event = Torn
                           /\ log[Latest(LastAttempt)].seq = Len(log) - 1
<1> DEFINE n == Len(log)
<1>1. n \in Nat /\ DOMAIN log = 1..n
  BY LenProperties
<1>2. IsPositions(1..n)
  BY <1>1 DEF IsPositions
<1>3. PICK m \in Nat : IsLast(log, 1..n, m) /\ Reached(log) = log[m].event
  BY <1>1, <1>2, LastEventOf DEF Reached, Lifecycle, Discovered
<1>4. m \in 1..n /\ log[m].event \in Lifecycle /\ ~IsBroken(log[m])
  BY <1>3 DEF IsLast, IsBroken, Lifecycle, Torn, Garbled, Discovered
<1>5. \A j \in 1..n : log[j].event \in Lifecycle => j <= m
  BY <1>3 DEF IsLast
<1>6. IsPositions(LastAttempt) /\ LastAttempt \subseteq 1..n /\ m \in LastAttempt
  BY <1>1, <1>4, <1>5 DEF LastAttempt, Lifecycle, Discovered, WorkerExited, IsPositions
<1>7. LastEvent(log, LastAttempt) = log[m].event
  <2>1. IsLast(log, LastAttempt, m)
    BY <1>4, <1>5, <1>6 DEF IsLast
  <2> QED
    BY <1>6, <2>1, LastEventIs
<1>8. Reached(log) = log[m].event
  BY <1>3
<1>9. CASE Clean(log)
  <2>1. n \in LastAttempt
    BY <1>1, <1>4, <1>9 DEF LastAttempt, Clean
  <2>2. \A j \in LastAttempt : j <= n
    BY <1>6
  <2>3. Latest(LastAttempt) = n
    BY <1>1, <1>6, <2>1, <2>2, LatestIs
  <2> QED
    BY <1>1, <1>4, <1>7, <1>8, <1>9, <2>3 DEF InOrder
<1>10. CASE ~Clean(log)
  <2>1. log[n].event = Torn
    BY <1>10 DEF Clean, IsReadable
  <2>2. m # n
    BY <1>4, <2>1 DEF IsBroken
  <2>3. n > 1 /\ n - 1 \in 1..n
    <3>1. m \in 1..n /\ m # n
      BY <1>4, <2>2
    <3> HIDE DEF n
    <3> QED
      BY <1>1, <3>1
  <2>4. \A j \in 1..n : log[j].event = Discovered => j <= n - 1
    BY <1>1, <2>1 DEF Torn, Discovered
  <2>5. ~IsBroken(log[n - 1])
    BY <1>1, <2>3 DEF IsReadable
  <2>6. n - 1 \in LastAttempt
    BY <1>1, <2>3, <2>4, <2>5 DEF LastAttempt
  <2>7. \A j \in LastAttempt : j <= n - 1
    BY <1>1, <2>1 DEF LastAttempt, IsBroken
  <2>8. Latest(LastAttempt) = n - 1
    BY <1>1, <1>6, <2>6, <2>7, LatestIs
  <2> QED
    BY <1>1, <1>7, <1>8, <1>10, <2>1, <2>3, <2>8 DEF InOrder
<1> QED
  BY <1>9, <1>10

(* The events that can still be missing.                                     *)
LEMMA EventArithmetic ==
  /\ \A e \in 0..(WorkerExited - 1) : (e % WorkerExited) + 1 = e + 1
  /\ WorkerExited % WorkerExited = 0
  /\ WorkerExited = 14 /\ Discovered = 1 /\ Lifecycle = 1..14
BY DEF WorkerExited, Discovered, Lifecycle

LEMMA IntervalIsPositions == \A n \in Nat : IsPositions(1..n)
BY DEF IsPositions

(* The first of the new lines, and then the others.                          *)
LEMMA HeadThenTail ==
  ASSUME NEW lines \in Seq(Lines), NEW M \in Seq(Lines), M # <<>>
  PROVE  Append(lines, M[1]) \o Tail(M) = lines \o M
<1>1. /\ Len(M) \in Nat \ {0} /\ M[1] \in Lines /\ Head(M) = M[1]
      /\ Tail(M) \in Seq(Lines) /\ <<M[1]>> \in Seq(Lines)
  BY EmptySeq, ElementOfSeq, HeadTailProperties, LenProperties
<1>2. M = <<M[1]>> \o Tail(M)
  BY <1>1
<1>3. Append(lines, M[1]) = lines \o <<M[1]>>
  BY <1>1, AppendIsConcat
<1>4. (lines \o <<M[1]>>) \o Tail(M) = lines \o (<<M[1]>> \o Tail(M))
  BY <1>1, ConcatAssociative
<1> QED
  BY <1>2, <1>3, <1>4

(* k lines of the lifecycle from event r, and from number n, on.               *)
IsRest(M, k, r, n) ==
    /\ M \in Seq(Lines) /\ Len(M) = k
    /\ \A i \in 1..k : M[i].event = r + i /\ M[i].seq = n + i

(* A log is completed by the events of the lifecycle it has not reached.      *)
LEMMA LifecycleCompleted ==
  ASSUME NEW lines \in Seq(Lines), InOrder(lines),
         NEW n \in Nat, Len(lines) = n, NEW r \in 1..13, Reached(lines) = r,
         NEW k \in 1..13, r + k = 14, NEW M, IsRest(M, k, r, n),
         NEW after, after = lines \o M
  PROVE  /\ after \in Seq(Lines) /\ InOrder(after)
         /\ after # <<>> /\ Reached(after) = WorkerExited
         /\ DiscoveredIn(after) = DiscoveredIn(lines)
<1>1. /\ after \in Seq(Lines) /\ Len(after) = n + k
      /\ \A i \in 1..(n + k) : after[i] = IF i <= n THEN lines[i] ELSE M[i - n]
      /\ DOMAIN lines = 1..n /\ DOMAIN after = 1..(n + k)
  <2>1. M \in Seq(Lines) /\ Len(M) = k
    BY DEF IsRest
  <2>2. /\ lines \o M \in Seq(Lines) /\ Len(lines \o M) = Len(lines) + Len(M)
        /\ \A i \in 1..(Len(lines) + Len(M)) :
              (lines \o M)[i] = IF i <= Len(lines) THEN lines[i] ELSE M[i - Len(lines)]
    BY <2>1, ConcatProperties
  <2>3. /\ after \in Seq(Lines) /\ Len(after) = n + k
        /\ \A i \in 1..(n + k) : after[i] = IF i <= n THEN lines[i] ELSE M[i - n]
    BY <2>1, <2>2
  <2> QED
    BY <2>3, LenProperties
<1>2. \A j \in 1..n : after[j] = lines[j]
  BY <1>1
<1>3. \A i \in 1..k : after[n + i].event = r + i /\ after[n + i].seq = n + i
  <2> TAKE i \in 1..k
  <2>1. n + i \in 1..(n + k) /\ ~(n + i <= n) /\ (n + i) - n = i
    OBVIOUS
  <2>2. after[n + i] = M[i]
    BY <1>1, <2>1
  <2> QED
    BY <2>2 DEF IsRest
(* Where each new line finds the lifecycle.                                  *)
<1>4. ASSUME NEW i \in 0..k
      PROVE  LastEvent(after, 1..(n + i)) = r + i
  <2>1. CASE i = 0
    <3>1. BeginAlike(lines, after, n) /\ n \in 0..n /\ n + i = n /\ r + i = r
      BY <1>2, <2>1 DEF BeginAlike
    <3>2. LastEvent(after, 1..n) = LastEvent(lines, 1..n)
      BY <3>1, PriorKept
    <3> QED
      BY <1>1, <3>1, <3>2 DEF Reached
  <2>2. CASE i # 0
    <3>1. i \in 1..k /\ r + i \in 1..14 /\ n + i \in Nat /\ n + i \in 1..(n + i)
      BY <2>2
    <3>2. after[n + i].event = r + i
      BY <1>3, <3>1
    <3>3. IsLast(after, 1..(n + i), n + i)
      BY <3>1, <3>2, EventArithmetic DEF IsLast
    <3>4. LastEvent(after, 1..(n + i)) = after[n + i].event
      <4> DEFINE P == 1..(n + i)
                 m == n + i
      <4>1. IsPositions(P) /\ IsLast(after, P, m)
        BY <3>1, <3>3, IntervalIsPositions
      <4> HIDE DEF P, m
      <4>2. LastEvent(after, P) = after[m].event
        BY ZenonT(30), <4>1, LastEventIs
      <4> QED
        BY <4>2 DEF P, m
    <3> QED
      BY <3>2, <3>4
  <2> QED
    BY <2>1, <2>2
<1>5. ASSUME NEW j \in (n + 1)..(n + k)
      PROVE  after[j].seq = j /\ Follows(after, j)
  <2> DEFINE i == j - n
  <2>1. i \in 1..k /\ j = n + i /\ i - 1 \in 0..k /\ j - 1 = n + (i - 1)
    OBVIOUS
  <2>2. r + (i - 1) \in 0..13 /\ (r + (i - 1)) + 1 = r + i
    OBVIOUS
  <2> HIDE DEF i
  <2>3. LastEvent(after, 1..(j - 1)) = r + (i - 1)
    BY <1>4, <2>1
  <2>4. ((r + (i - 1)) % WorkerExited) + 1 = r + i
    BY <2>2, EventArithmetic
  <2> QED
    BY <1>3, <2>1, <2>3, <2>4 DEF Follows
<1>6. InOrder(after)
  <2>1. BeginAlike(lines, after, n) /\ n \in 0..Len(lines) /\ n <= Len(after)
    BY <1>1, <1>2 DEF BeginAlike
  <2>2. \A j \in (n + 1)..Len(after) :
            /\ after[j].seq = j
            /\ (\A h \in 1..j : ~IsBroken(after[h])) => Follows(after, j)
    BY <1>1, <1>5
  <2> QED
    BY <1>1, <2>1, <2>2, InOrderExtended
<1>7. Reached(after) = WorkerExited
  BY <1>1, <1>4, EventArithmetic DEF Reached
<1>8. DiscoveredIn(after) = DiscoveredIn(lines)
  <2>1. ASSUME NEW j \in 1..(n + k), j \notin 1..n
        PROVE  after[j].event # Discovered
    <3>1. j - n \in 1..k /\ j = n + (j - n)
      BY <2>1
    <3>2. \A i \in 1..k : r + i # 1
      OBVIOUS
    <3>3. after[j].event = r + (j - n)
      BY <1>3, <3>1
    <3> QED
      BY <3>1, <3>2, <3>3, EventArithmetic
  <2>2. \A j \in 1..n : j \in 1..(n + k)
    OBVIOUS
  <2> QED
    BY <1>1, <1>2, <2>1, <2>2 DEF DiscoveredIn
<1>9. after # <<>>
  BY <1>1, EmptySeq
<1> QED
  BY <1>1, <1>6, <1>7, <1>8, <1>9

(* The log after _append_synthetic_lifecycle.                                *)
ClosedLog ==
    IF MissingLines = <<>> THEN log
    ELSE Appended(log, MissingLines[1]) \o Tail(MissingLines)

(* A log of readable lines is closed by the rest of the lifecycle.            *)
LEMMA CleanLogClosed ==
  ASSUME log \in Seq(Lines), InOrder(log), Clean(log), Reached(log) \in Lifecycle
  PROVE  /\ ClosedLog \in Seq(Lines) /\ InOrder(ClosedLog)
         /\ ClosedLog # <<>> /\ Reached(ClosedLog) = WorkerExited
         /\ DiscoveredIn(ClosedLog) = DiscoveredIn(log)
<1>0. IsReadable(log)
  BY DEF Clean, IsReadable
<1> DEFINE n == Len(log)
           r == Reached(log)
           M == LinesFrom(r + 1, n + 1)
           k == WorkerExited - r
<1>1. n \in Nat \ {0} /\ MissingLines = M
  BY <1>0, LastAttemptIs DEF MissingLines
<1>2. r \in 1..14 /\ k = 14 - r /\ r + 1 \in 1..(WorkerExited + 1) /\ n + 1 \in Nat
  BY <1>1, EventArithmetic
<1>3. /\ M \in Seq(Lines) /\ Len(M) = WorkerExited - (r + 1) + 1
      /\ \A i \in 1..(WorkerExited - (r + 1) + 1) :
            M[i].event = (r + 1) + i - 1 /\ M[i].seq = (n + 1) + i - 1
  BY <1>2, LinesFromType
<1>4. log # <<>>
  BY <1>1, EmptySeq
<1> HIDE DEF n, r, M, k
<1>5. Len(M) = k /\ \A i \in 1..k : M[i].event = r + i /\ M[i].seq = n + i
  <2>1. WorkerExited - (r + 1) + 1 = k
    BY <1>2, EventArithmetic
  <2>2. \A i \in 1..k : (r + 1) + i - 1 = r + i /\ (n + 1) + i - 1 = n + i
    BY <1>1, <1>2
  <2> QED
    BY <1>3, <2>1, <2>2
<1>6. CASE k = 0
  <2>1. ClosedLog = log
    BY <1>1, <1>3, <1>5, <1>6, EmptySeq DEF ClosedLog
  <2> QED
    BY <1>2, <1>4, <1>6, <2>1, EventArithmetic DEF r
<1>7. CASE k # 0
  <2>1. k \in 1..13 /\ r \in 1..13 /\ r + k = 14 /\ M # <<>> /\ n \in Nat
    BY SMTT(30), <1>1, <1>2, <1>5, <1>7, EmptySeq
  <2>2. ClosedLog = log \o M
    BY ZenonT(30), <1>1, <1>3, <2>1, AppendedToClean, HeadThenTail DEF ClosedLog
  <2>3. Len(log) = n /\ Reached(log) = r
    BY DEF n, r
  <2>4. IsRest(M, k, r, n)
    BY <1>3, <1>5 DEF IsRest
  <2> QED
    BY ZenonT(30), <2>1, <2>2, <2>3, <2>4, LifecycleCompleted
<1> QED
  BY <1>2, <1>6, <1>7

(* A log whose last line, number n, was torn and is garbled.                  *)
IsGarbled(lines, base, n) ==
    /\ Len(lines) = n /\ lines[n].event = Torn
    /\ base \in Seq(Lines) /\ Len(base) = n
    /\ BeginAlike(lines, base, n - 1)
    /\ base[n].event = Garbled /\ base[n].seq = n

(* What an append makes of a torn line.                                      *)
LEMMA TornIsGarbled ==
  ASSUME NEW lines \in Seq(Lines), InOrder(lines),
         NEW n \in Nat \ {0}, Len(lines) = n, lines[n].event = Torn
  PROVE  IsGarbled(lines, [lines EXCEPT ![n].event = Garbled], n)
<1> DEFINE line == [lines[n] EXCEPT !.event = Garbled]
           base == [lines EXCEPT ![n] = line]
<1>1. /\ n \in 1..Len(lines) /\ DOMAIN lines = 1..n
      /\ lines[n] \in Lines /\ lines[n].seq = n
  BY LenProperties, ElementOfSeq DEF InOrder
<1>2. line \in Lines /\ line.event = Garbled /\ line.seq = n
  BY <1>1 DEF Lines, Garbled, WorkerExited
<1>3. [lines EXCEPT ![n].event = Garbled] = base
  OBVIOUS
<1> HIDE DEF line
<1>4. /\ base \in Seq(Lines) /\ Len(base) = Len(lines)
      /\ \A j \in 1..Len(lines) : base[j] = IF j = n THEN line ELSE lines[j]
  BY <1>1, <1>2, ExceptSeq
<1> HIDE DEF base
<1>5. base[n] = line
  BY <1>1, <1>4
<1>6. BeginAlike(lines, base, n - 1)
  <2>1. \A j \in 1..(n - 1) : j \in 1..n /\ j # n
    OBVIOUS
  <2> QED
    BY <1>4, <2>1 DEF BeginAlike
<1> QED
  BY <1>2, <1>3, <1>4, <1>5, <1>6 DEF IsGarbled

(* Lines after a garbled one.                                                *)
IsContinuation(lines, base, n, k, r, T) ==
    /\ lines \in Seq(Lines) /\ InOrder(lines)
    /\ n \in Nat \ {0} /\ IsGarbled(lines, base, n)
    /\ k \in Nat /\ r \in 1..14 /\ IsRest(T, k, r, n)

(* The lines that close a torn log: they keep the numbers, of what follows     *)
(* the garbled line there is no saying, and no attempt is discovered.         *)
LEMMA GarbledContinued ==
  ASSUME NEW lines, NEW base, NEW n, NEW k, NEW r, NEW T,
         IsContinuation(lines, base, n, k, r, T)
  PROVE  /\ base \o T \in Seq(Lines) /\ InOrder(base \o T) /\ ~Clean(base \o T)
         /\ DiscoveredIn(base \o T) = DiscoveredIn(lines)
<1> DEFINE after == base \o T
<1>0. /\ lines \in Seq(Lines) /\ InOrder(lines)
      /\ n \in Nat \ {0} /\ IsGarbled(lines, base, n)
      /\ k \in Nat /\ r \in 1..14 /\ IsRest(T, k, r, n)
  BY DEF IsContinuation
<1> USE <1>0
<1>1. /\ Len(lines) = n /\ DOMAIN lines = 1..n /\ lines[n].event = Torn
      /\ base \in Seq(Lines) /\ Len(base) = n
      /\ T \in Seq(Lines) /\ Len(T) = k
  BY LenProperties DEF IsGarbled, IsRest
<1>2. /\ after \in Seq(Lines) /\ Len(after) = Len(base) + Len(T)
      /\ \A i \in 1..(Len(base) + Len(T)) :
            after[i] = IF i <= Len(base) THEN base[i] ELSE T[i - Len(base)]
  BY <1>1, ConcatProperties
<1> HIDE DEF after
<1>3. /\ Len(after) = n + k /\ DOMAIN after = 1..(n + k)
      /\ \A i \in 1..(n + k) : after[i] = IF i <= n THEN base[i] ELSE T[i - n]
  BY <1>1, <1>2, LenProperties
<1>4. \A j \in 1..n : j \in 1..(n + k) /\ after[j] = base[j]
  <2> TAKE j \in 1..n
  <2>1. j \in 1..(n + k) /\ j <= n
    OBVIOUS
  <2> QED
    BY <1>3, <2>1
<1>5. BeginAlike(lines, after, n - 1)
  <2>1. \A j \in 1..(n - 1) : j \in 1..n
    OBVIOUS
  <2> QED
    BY <1>4, <2>1 DEF BeginAlike, IsGarbled
<1>6. n \in 1..n /\ after[n].event = Garbled /\ after[n].seq = n
  BY <1>4 DEF IsGarbled
<1>7. IsBroken(after[n])
  BY <1>6 DEF IsBroken
<1>8. ASSUME NEW j \in 1..(n + k), j > n
      PROVE  after[j].seq = j /\ after[j].event # Discovered
  <2>1. j - n \in 1..k /\ ~(j <= n) /\ n + (j - n) = j
    BY <1>8
  <2>2. after[j] = T[j - n]
    BY <1>3, <2>1
  <2>3. \A i \in 1..k : r + i # 1
    OBVIOUS
  <2> QED
    BY SMTT(30), <2>1, <2>2, <2>3, EventArithmetic DEF IsRest
<1>9. InOrder(after)
  <2>1. n - 1 \in 0..Len(lines) /\ n - 1 <= Len(after)
    BY <1>1, <1>3
  <2>2. ASSUME NEW j \in (n - 1 + 1)..Len(after)
        PROVE  /\ after[j].seq = j
               /\ (\A h \in 1..j : ~IsBroken(after[h])) => Follows(after, j)
    <3>1. n \in 1..j /\ j \in 1..(n + k) /\ (j = n \/ j > n)
      BY <1>3
    <3>2. after[j].seq = j
      BY <1>6, <1>8, <3>1
    <3> QED
      BY <1>7, <3>1, <3>2
  <2> QED
    BY <1>2, <1>5, <2>1, <2>2, InOrderExtended
<1>10. ~Clean(after)
  BY <1>3, <1>4, <1>6, <1>7 DEF Clean
<1>11. DiscoveredIn(after) = DiscoveredIn(lines)
  <2>1. after[n].event # Discovered /\ lines[n].event # Discovered
    BY <1>1, <1>6 DEF Garbled, Torn, Discovered
  <2>2. \A j \in 1..(n - 1) : after[j].event = lines[j].event
    BY <1>5 DEF BeginAlike
  <2>3. \A j \in 1..(n + k) : j \in 1..(n - 1) \/ j = n \/ j > n
    OBVIOUS
  <2>4. \A j \in 1..n : j \in 1..(n + k) /\ (j \in 1..(n - 1) \/ j = n)
    OBVIOUS
  <2>5. ASSUME NEW j \in DiscoveredIn(after)
        PROVE  j \in DiscoveredIn(lines)
    <3>1. j \in 1..(n + k) /\ after[j].event = Discovered
      BY <1>3 DEF DiscoveredIn
    <3>2. j \in 1..(n - 1)
      BY <1>8, <2>1, <2>3, <3>1
    <3>3. j \in 1..n
      BY <3>2
    <3> QED
      BY <1>1, <2>2, <3>1, <3>2, <3>3 DEF DiscoveredIn
  <2>6. ASSUME NEW j \in DiscoveredIn(lines)
        PROVE  j \in DiscoveredIn(after)
    <3>1. j \in 1..n /\ lines[j].event = Discovered
      BY <1>1 DEF DiscoveredIn
    <3> QED
      BY <1>3, <2>1, <2>2, <2>4, <3>1 DEF DiscoveredIn
  <2> QED
    BY <2>5, <2>6
<1> QED
  BY <1>2, <1>9, <1>10, <1>11 DEF after

(* A log with a torn line is closed and stays broken.                         *)
LEMMA TornLogClosed ==
  ASSUME log \in Seq(Lines), InOrder(log), IsReadable(log), ~Clean(log),
         Reached(log) \in Lifecycle, Reached(log) # WorkerExited
  PROVE  /\ ClosedLog \in Seq(Lines) /\ InOrder(ClosedLog) /\ ~Clean(ClosedLog)
         /\ DiscoveredIn(ClosedLog) = DiscoveredIn(log)
<1> DEFINE n == Len(log)
           r == Reached(log)
           M == LinesFrom(r + 1, (n - 1) + 1)
           base == [log EXCEPT ![n].event = Garbled]
           k == 13 - r
<1>1. /\ n \in Nat \ {0} /\ n > 1 /\ log[n].event = Torn
      /\ MissingLines = M
  BY LastAttemptIs DEF MissingLines
<1>2. r \in 1..13 /\ r + 1 \in 1..(WorkerExited + 1) /\ (n - 1) + 1 = n /\ n \in Nat
  BY <1>1, EventArithmetic
<1>3. /\ M \in Seq(Lines) /\ Len(M) = WorkerExited - (r + 1) + 1
      /\ \A i \in 1..(WorkerExited - (r + 1) + 1) :
            M[i].event = (r + 1) + i - 1 /\ M[i].seq = n + i - 1
  BY <1>2, LinesFromType
<1>4. log # <<>>
  BY <1>1, EmptySeq
<1>5. Appended(log, MissingLines[1]) = base
  BY <1>1, <1>4 DEF Appended
<1> HIDE DEF M, k, base
<1>6. k \in Nat /\ Len(M) = k + 1 /\ M # <<>>
      /\ \A i \in 1..(k + 1) : M[i].event = r + i /\ M[i].seq = n + i - 1
  <2>1. WorkerExited - (r + 1) + 1 = k + 1 /\ k \in Nat
    BY <1>2, EventArithmetic DEF k
  <2> HIDE DEF n, r
  <2>2. \A i \in 1..(k + 1) : (r + 1) + i - 1 = r + i
    BY <1>2, <2>1
  <2>3. Len(M) = k + 1 /\ M # <<>>
    BY <1>3, <2>1, EmptySeq
  <2> QED
    BY <1>3, <2>1, <2>2, <2>3
<1> HIDE DEF n, r
<1>7. IsRest(Tail(M), k, r + 1, n)
  <2>1. /\ Tail(M) \in Seq(Lines) /\ Len(Tail(M)) = k
        /\ \A i \in 1..k : Tail(M)[i] = M[i + 1]
    BY <1>3, <1>6, HeadTailProperties
  <2>2. ASSUME NEW i \in 1..k
        PROVE  Tail(M)[i].event = r + 1 + i /\ Tail(M)[i].seq = n + i
    <3>1. i + 1 \in 1..(k + 1) /\ r + (i + 1) = r + 1 + i /\ n + (i + 1) - 1 = n + i
      BY <1>2, <1>6
    <3> QED
      BY <1>6, <2>1, <3>1
  <2> QED
    BY <2>1, <2>2 DEF IsRest
<1>8. ClosedLog = base \o Tail(M)
  BY <1>1, <1>5, <1>6 DEF ClosedLog
<1>9. r + 1 \in 1..14
  BY <1>2
<1>10. IsGarbled(log, base, n)
  BY <1>1, TornIsGarbled DEF base, n
<1> DEFINE T == Tail(M)
           q == r + 1
<1>11. IsContinuation(log, base, n, k, q, T)
  BY <1>1, <1>6, <1>7, <1>9, <1>10 DEF IsContinuation
<1> HIDE DEF T, q
<1>12. /\ base \o T \in Seq(Lines) /\ InOrder(base \o T) /\ ~Clean(base \o T)
       /\ DiscoveredIn(base \o T) = DiscoveredIn(log)
  BY <1>11, GarbledContinued
<1> QED
  BY <1>8, <1>12 DEF T

-----------------------------------------------------------------------------
(* The steps of a worker that has not written WORKER_EXITED.                  *)

LEMMA CleanIsReadable ==
  ASSUME NEW lines, Clean(lines)
  PROVE  IsReadable(lines)
BY DEF Clean, IsReadable

(* Such a worker is that of the last attempt, whose controller polls or is     *)
(* gone.                                                                    *)
LEMMA RunningFacts ==
  ASSUME AttemptInv, NEW k \in Attempt, Alive(k), w[k].at < WorkerExited
  PROVE  /\ k = attempt
         /\ log \in Seq(Lines) /\ InOrder(log) /\ Clean(log)
         /\ w \in [Attempt -> Worker]
         /\ w[k].at \in Lifecycle /\ w[k].at = Reached(log)
         /\ w[k].seq = Len(log) + 1
         /\ pc \in {"idle", "poll", "check"}
         /\ result \in {"none", "refused"}
<1>1. /\ k = attempt
      /\ w[k].at \in Lifecycle /\ w[k].at = Reached(log)
      /\ w[k].seq = Len(log) + 1
      /\ Clean(log) /\ InOrder(log)
  BY DEF AttemptInv, OneWriter
<1>2. log \in Seq(Lines) /\ w \in [Attempt -> Worker]
  BY DEF AttemptInv, TypeOK, Lines
<1>3. w[k].life = "alive"
  BY DEF Alive
<1>4. pc # "discover"
  BY <1>1, <1>3 DEF AttemptInv, ControllerInv, NewWorker
<1>5. pc # "spawn"
  BY <1>1, <1>3 DEF AttemptInv, ControllerInv
<1>6. pc \notin {"collect", "close", "return"}
  BY <1>1 DEF AttemptInv, ControllerInv
<1>7. result \notin {"returned", "interrupted", "failed"}
  BY <1>1 DEF AttemptInv, ControllerInv
<1>8. /\ pc \in {"idle", "discover", "spawn", "poll", "check", "collect", "close", "return"}
      /\ result \in {"none", "refused", "failed", "interrupted", "returned"}
  BY DEF AttemptInv, TypeOK
<1> QED
  BY <1>1, <1>2, <1>4, <1>5, <1>6, <1>7, <1>8

(* It appends a line that goes on with its lifecycle, and has decided no       *)
(* more than it may; what is in its response is settled.                     *)
LEMMA RunningStep ==
  ASSUME AttemptInv, NEW k \in Attempt, Alive(k), w[k].at < WorkerExited,
         NEW line \in Lines, GoesOn(log, line), ~IsBroken(line), line.event # Discovered,
         NEW next \in Worker, next.life \in {"alive", "dead"},
         next.token = w[k].token, next.seq = w[k].seq + 1,
         next.at = (IF line.event \in Lifecycle THEN line.event ELSE w[k].at),
         next.wrote = w[k].wrote,
         next.wrote => /\ next.outcome = w[k].outcome /\ next.failed = w[k].failed
                       /\ next.verdict = w[k].verdict /\ next.perf = w[k].perf,
         IsAllowed(next),
         log' = Append(log, line), w' = [w EXCEPT ![k] = next],
         UNCHANGED <<responses, pc, watch, reply, result, measure, stops>>,
         beats' \in 0..MaxBeats
  PROVE  AttemptInv'
<1>1. /\ k = attempt
      /\ log \in Seq(Lines) /\ InOrder(log) /\ Clean(log)
      /\ w \in [Attempt -> Worker]
      /\ w[k].at \in Lifecycle /\ w[k].at = Reached(log)
      /\ w[k].seq = Len(log) + 1
      /\ pc \in {"idle", "poll", "check"}
      /\ result \in {"none", "refused"}
  BY RunningFacts
<1>2. /\ log' \in Seq(Lines) /\ Len(log') = Len(log) + 1
      /\ InOrder(log') /\ Clean(log')
      /\ Reached(log') = next.at /\ next.at \in Lifecycle
      /\ Cardinality(DiscoveredIn(log')) = Cardinality(DiscoveredIn(log))
  BY <1>1, AppendProperties, InOrderAfter, CleanAfter, ReachedAfter, DiscoveredAfter
<1>3. /\ w' \in [Attempt -> Worker] /\ w'[k] = next
      /\ \A j \in Attempt : j # k => w'[j] = w[j]
  BY <1>1
<1>4. /\ responses' = responses /\ pc' = pc /\ attempt' = attempt /\ stage' = stage
      /\ seen' = seen /\ ended' = ended /\ reply' = reply /\ result' = result
      /\ measure' = measure /\ stops' = stops
  BY DEF watch
<1>5. TypeOK'
  BY <1>2, <1>3, <1>4 DEF AttemptInv, TypeOK, Lines
<1>6. InOrder(log)'
  BY <1>2
<1>7. OneWriter'
  <2> SUFFICES ASSUME NEW j \in Attempt, Alive(j)', w'[j].at < WorkerExited
               PROVE  /\ j = attempt'
                      /\ Clean(log')
                      /\ w'[j].at \in Lifecycle /\ w'[j].at = Reached(log')
                      /\ w'[j].seq = Len(log') + 1
    BY DEF OneWriter
  <2>1. j = k
    BY <1>1, <1>3 DEF AttemptInv, OneWriter, Alive
  <2> QED
    BY <2>1, <1>1, <1>2, <1>3, <1>4
<1>8. ControllerInv'
  <2>1. IsReadable(log')
    BY <1>2, CleanIsReadable
  <2>2. pc # "idle" => result = "none"
    BY DEF AttemptInv, ControllerInv
  <2> QED
    BY <1>1, <1>2, <1>3, <1>4, <2>1, <2>2 DEF ControllerInv
<1>9. TokenInv'
  BY <1>1, <1>2, <1>3, <1>4 DEF AttemptInv, TokenInv, Lifecycle, Discovered
<1>10. OwnResponse'
  BY <1>1, <1>3, <1>4 DEF AttemptInv, OwnResponse
<1>11. WorkerInv'
  BY <1>3, <1>4 DEF AttemptInv, WorkerInv, IsAllowed
<1>12. ReplyInv'
  BY <1>1, <1>4 DEF ReplyInv, IsAnswered
<1> QED
  BY <1>5, <1>6, <1>7, <1>8, <1>9, <1>10, <1>11, <1>12 DEF AttemptInv

(* What the worker of attempt k may have decided when it emits event e.        *)
MayDecide(k, e, decided) ==
    /\ e \in Lifecycle /\ e = w[k].at + 1
    /\ decided \in Worker
    /\ decided.life \in {"alive", "dead"}
    /\ decided.token = w[k].token /\ decided.seq = w[k].seq
    /\ decided.wrote = w[k].wrote
    /\ decided.wrote => /\ decided.outcome = w[k].outcome /\ decided.failed = w[k].failed
                        /\ decided.verdict = w[k].verdict /\ decided.perf = w[k].perf
    /\ IsAllowed([decided EXCEPT !.at = e])

LEMMA EmitStep ==
  ASSUME AttemptInv, NEW k \in Attempt, Alive(k),
         NEW e, NEW s \in 0..Sampling, NEW decided, MayDecide(k, e, decided),
         Emit(k, e, s, decided)
  PROVE  AttemptInv'
<1> DEFINE line == Line(e, s, w[k].seq)
           next == [decided EXCEPT !.at = e, !.seq = @ + 1]
<1>1. /\ e \in 1..14 /\ e = w[k].at + 1 /\ w[k] \in Worker /\ w[k].at \in 0..14
      /\ w[k].seq \in Nat
  BY EventArithmetic DEF MayDecide, AttemptInv, TypeOK, Worker
<1>2. w[k].at < WorkerExited
  BY <1>1, EventArithmetic
<1>3. /\ k = attempt
      /\ log \in Seq(Lines) /\ InOrder(log) /\ Clean(log)
      /\ w \in [Attempt -> Worker]
      /\ w[k].at \in Lifecycle /\ w[k].at = Reached(log)
      /\ w[k].seq = Len(log) + 1
      /\ pc \in {"idle", "poll", "check"}
      /\ result \in {"none", "refused"}
  BY <1>2, RunningFacts
<1>4. /\ line \in Lines /\ ~IsBroken(line) /\ line.event # Discovered
      /\ line.event = e /\ line.event \in Lifecycle
      /\ line.seq = w[k].seq
  BY SMTT(30), <1>1, <1>3, EventArithmetic DEF Line, Lines, IsBroken, Torn, Garbled
<1>5. GoesOn(log, line)
  BY SMTT(30), <1>1, <1>3, <1>4, EventArithmetic DEF GoesOn
<1>6. /\ next \in Worker /\ next.life \in {"alive", "dead"}
      /\ next.token = w[k].token /\ next.seq = w[k].seq + 1
      /\ next.at = e
      /\ next.wrote = w[k].wrote
      /\ next.wrote => /\ next.outcome = w[k].outcome /\ next.failed = w[k].failed
                       /\ next.verdict = w[k].verdict /\ next.perf = w[k].perf
  <2>1. /\ decided \in Worker /\ e \in 0..WorkerExited
        /\ next = [[decided EXCEPT !.at = e] EXCEPT !.seq = decided.seq + 1]
    BY <1>1, EventArithmetic DEF MayDecide
  <2>2. decided.seq + 1 \in Nat
    BY <1>1 DEF MayDecide
  <2>3. /\ next \in Worker /\ next.at = e /\ next.seq = decided.seq + 1
        /\ next.life = decided.life /\ next.token = decided.token
        /\ next.wrote = decided.wrote /\ next.outcome = decided.outcome
        /\ next.failed = decided.failed /\ next.verdict = decided.verdict
        /\ next.perf = decided.perf
    BY <2>1, <2>2 DEF Worker
  <2> HIDE DEF next
  <2> QED
    BY <2>3 DEF MayDecide
<1>7. IsAllowed(next)
  BY <1>1 DEF MayDecide, Worker, IsAllowed
<1>8. /\ log' = Append(log, line) /\ w' = [w EXCEPT ![k] = next]
      /\ UNCHANGED <<responses, pc, watch, reply, result, measure, stops>>
      /\ beats' \in 0..MaxBeats
  BY <1>3, AppendedToClean DEF Emit, AttemptInv, TypeOK
<1> HIDE DEF line, next
<1> QED
  BY <1>2, <1>4, <1>5, <1>6, <1>7, <1>8, RunningStep

(* A heartbeat goes on within a stage.                                       *)
LEMMA BeatStep ==
  ASSUME AttemptInv, NEW k \in Attempt, Beat(k)
  PROVE  AttemptInv'
<1> DEFINE s == StageAt(w[k].at)
           line == Line(Heartbeat, s, w[k].seq)
           next == [w[k] EXCEPT !.seq = @ + 1]
<1>1. /\ Alive(k) /\ s # 0 /\ w \in [Attempt -> Worker] /\ w[k] \in Worker
  BY DEF Beat, AttemptInv, TypeOK
<1>2. s \in Stage /\ w[k].at = StartOf(s)
  BY <1>1 DEF StageAt
<1>3. s \in 1..5 /\ w[k].at < WorkerExited
  BY <1>2 DEF Stage, Import, Sampling, StartOf, WorkerExited
<1>4. /\ log \in Seq(Lines) /\ Clean(log)
      /\ w[k].at = Reached(log) /\ w[k].seq = Len(log) + 1
  BY <1>1, <1>3, RunningFacts
<1>5. /\ line \in Lines /\ ~IsBroken(line) /\ line.event # Discovered
      /\ line.event = Heartbeat /\ line.event \notin Lifecycle
      /\ line.stage = s /\ line.seq = w[k].seq
  BY <1>1, <1>3, EventArithmetic
     DEF Line, Lines, Worker, IsBroken, Torn, Garbled, Heartbeat, Sampling, Discovered
<1>6. GoesOn(log, line)
  BY <1>1, <1>4, <1>5 DEF GoesOn
<1>7. /\ next \in Worker /\ next.life \in {"alive", "dead"}
      /\ next.token = w[k].token /\ next.seq = w[k].seq + 1
      /\ next.at = w[k].at
      /\ next.wrote = w[k].wrote
      /\ next.outcome = w[k].outcome /\ next.failed = w[k].failed
      /\ next.verdict = w[k].verdict /\ next.perf = w[k].perf
  BY <1>1 DEF Worker, Alive
<1>8. IsAllowed(next)
  BY <1>1 DEF AttemptInv, WorkerInv, IsAllowed, Worker
<1>9. /\ log' = Append(log, line) /\ w' = [w EXCEPT ![k] = next]
      /\ UNCHANGED <<responses, pc, watch, reply, result, measure, stops>>
      /\ beats' \in 0..MaxBeats
  <2>1. beats \in 0..MaxBeats /\ beats < MaxBeats /\ beats' = beats + 1
    BY DEF Beat, AttemptInv, TypeOK
  <2>2. beats' \in 0..MaxBeats
    BY <2>1, WorkerRunAssumption
  <2>3. w' = [w EXCEPT ![k] = next]
    BY DEF Beat
  <2>4. log' = Append(log, line)
    BY <1>4, AppendedToClean DEF Beat
  <2> QED
    BY <2>2, <2>3, <2>4 DEF Beat
<1> HIDE DEF line, next
<1> QED
  BY <1>1, <1>3, <1>5, <1>6, <1>7, <1>8, <1>9, RunningStep

(* A response is written once, and into a file that is the attempt's own.      *)
LEMMA WriteResponseStep ==
  ASSUME AttemptInv, NEW k \in Attempt, WriteResponse(k)
  PROVE  AttemptInv'
<1> DEFINE t == w[k].token
           own == Response(k, "worker", w[k].outcome, w[k].failed, w[k].verdict, w[k].perf)
<1>1. Alive(k) /\ w[k].at = 12 /\ ~w[k].wrote /\ w[k].at < WorkerExited
  BY EventArithmetic DEF WriteResponse, FinishOf, Sampling
<1>2. /\ k = attempt
      /\ w \in [Attempt -> Worker]
      /\ pc \in {"idle", "poll", "check"}
      /\ result \in {"none", "refused"}
  BY <1>1, RunningFacts
<1>3. /\ responses' = [responses EXCEPT ![t] = own]
      /\ w' = [w EXCEPT ![k].wrote = TRUE]
      /\ log' = log /\ pc' = pc /\ attempt' = attempt /\ stage' = stage
      /\ seen' = seen /\ ended' = ended /\ reply' = reply /\ result' = result
      /\ measure' = measure /\ beats' = beats /\ stops' = stops
  BY DEF WriteResponse, watch
<1>4. /\ log \in Seq(Lines) /\ responses \in [Attempt -> Responses]
      /\ attempt \in 0..MaxAttempts /\ w[k] \in Worker
  BY <1>2 DEF AttemptInv, TypeOK, Lines
<1>5. Cardinality(DiscoveredIn(log)) \in Nat
  BY <1>4, LinesAreFinite
<1>6. t \in Attempt /\ t <= Cardinality(DiscoveredIn(log))
  <2>1. t \in 1..Cardinality(DiscoveredIn(log)) /\ Cardinality(DiscoveredIn(log)) <= attempt
    BY <1>1 DEF AttemptInv, TokenInv
  <2> QED
    BY <1>4, <1>5, <2>1, WorkerRunAssumption DEF Attempt
<1>7. own \in Responses
  <2>1. k \in 0..MaxAttempts
    BY WorkerRunAssumption DEF Attempt
  <2> QED
    BY <1>4, <2>1 DEF Response, Responses, Worker, Outcome
<1>8. /\ w' \in [Attempt -> Worker]
      /\ \A j \in Attempt :
           /\ j # k => w'[j] = w[j]
           /\ w'[j].life = w[j].life /\ w'[j].at = w[j].at /\ w'[j].seq = w[j].seq
           /\ w'[j].token = w[j].token /\ w'[j].skip = w[j].skip
           /\ w'[j].verdict = w[j].verdict /\ w'[j].perf = w[j].perf
           /\ w'[j].outcome = w[j].outcome /\ w'[j].failed = w[j].failed
      /\ w'[k].wrote
  <2> DEFINE next == [w[k] EXCEPT !.wrote = TRUE]
  <2>1. w' = [w EXCEPT ![k] = next]
    BY <1>3
  <2>2. /\ next \in Worker /\ next.wrote
        /\ next.life = w[k].life /\ next.at = w[k].at /\ next.seq = w[k].seq
        /\ next.token = w[k].token /\ next.skip = w[k].skip
        /\ next.verdict = w[k].verdict /\ next.perf = w[k].perf
        /\ next.outcome = w[k].outcome /\ next.failed = w[k].failed
    BY <1>4 DEF Worker
  <2> HIDE DEF next
  <2> QED
    BY <1>2, <2>1, <2>2
<1>9. /\ responses' \in [Attempt -> Responses] /\ responses'[t] = own
      /\ \A u \in Attempt : u # t => responses'[u] = responses[u]
  BY <1>3, <1>4, <1>6, <1>7
<1> HIDE DEF t, own
<1>10. TypeOK'
  BY <1>3, <1>8, <1>9 DEF AttemptInv, TypeOK
<1>11. InOrder(log)'
  BY <1>3 DEF AttemptInv
<1>12. OneWriter'
  BY <1>3, <1>8 DEF AttemptInv, OneWriter, Alive
<1>13. ControllerInv'
  BY <1>2, <1>3, <1>8 DEF AttemptInv, ControllerInv
<1>14. TokenInv'
  BY <1>2, <1>3, <1>6, <1>8, <1>9 DEF AttemptInv, TokenInv
<1>15. OwnResponse'
  BY <1>2, <1>3, <1>8, <1>9 DEF OwnResponse, own, t
<1>16. WorkerInv'
  BY <1>1, <1>3, <1>8 DEF AttemptInv, WorkerInv, IsAllowed, FinishOf, Sampling
<1>17. ReplyInv'
  BY <1>2, <1>3 DEF ReplyInv, IsAnswered
<1> QED
  BY <1>10, <1>11, <1>12, <1>13, <1>14, <1>15, <1>16, <1>17 DEF AttemptInv

(* What the end of worker k, if there is one, leaves: the workers but for its  *)
(* life, and the log but for a torn line, which the worker of the last attempt  *)
(* alone can leave.                                                         *)
Ended(k) ==
    /\ log' \in Seq(Lines) /\ InOrder(log')
    /\ Reached(log') = Reached(log)
    /\ Cardinality(DiscoveredIn(log')) = Cardinality(DiscoveredIn(log))
    /\ \/ log' = log
       \/ /\ k = attempt /\ w[k].at < WorkerExited /\ Alive(k) /\ w'[k].life = "dead"
          /\ pc \in {"idle", "poll", "check"} /\ result \in {"none", "refused"}
          /\ IsReadable(log')
    /\ w' \in [Attempt -> Worker]
    /\ \A j \in Attempt :
         /\ w'[j].life = "alive" => Alive(j)
         /\ w'[j].seq = w[j].seq /\ w'[j].at = w[j].at /\ w'[j].token = w[j].token
         /\ w'[j].wrote = w[j].wrote /\ w'[j].skip = w[j].skip
         /\ w'[j].verdict = w[j].verdict /\ w'[j].perf = w[j].perf
         /\ w'[j].outcome = w[j].outcome /\ w'[j].failed = w[j].failed

LEMMA EndStep ==
  ASSUME AttemptInv, NEW k \in Attempt, Alive(k), Ends(k)
  PROVE  Ended(k) /\ w'[k].life = "dead" /\ \A j \in Attempt : j # k => w'[j] = w[j]
<1> DEFINE next == [w[k] EXCEPT !.life = "dead"]
           line == Line(Torn, 0, w[k].seq)
<1>1. /\ log \in Seq(Lines) /\ InOrder(log) /\ w \in [Attempt -> Worker] /\ w[k] \in Worker
  BY DEF AttemptInv, TypeOK, Lines
<1>2. /\ next \in Worker /\ next.life = "dead"
      /\ next.seq = w[k].seq /\ next.at = w[k].at /\ next.token = w[k].token
      /\ next.wrote = w[k].wrote /\ next.skip = w[k].skip
      /\ next.verdict = w[k].verdict /\ next.perf = w[k].perf
      /\ next.outcome = w[k].outcome /\ next.failed = w[k].failed
  BY <1>1 DEF Worker
<1>3. w' = [w EXCEPT ![k] = next]
  BY DEF Ends
<1> HIDE DEF next
<1>4. /\ w' \in [Attempt -> Worker] /\ w'[k] = next
      /\ \A j \in Attempt : j # k => w'[j] = w[j]
  BY <1>1, <1>2, <1>3
<1>5. CASE log' = log
  BY <1>1, <1>2, <1>4, <1>5 DEF Ended, Alive
<1>6. CASE w[k].at < WorkerExited /\ log' = Appended(log, line)
  <2>1. /\ k = attempt /\ Clean(log) /\ w[k].seq = Len(log) + 1
        /\ pc \in {"idle", "poll", "check"} /\ result \in {"none", "refused"}
    BY <1>6, RunningFacts
  <2>2. /\ line \in Lines /\ IsBroken(line) /\ line.event = Torn
        /\ line.event \notin Lifecycle /\ line.event # Discovered
        /\ line.seq = w[k].seq
    BY <1>1, EventArithmetic DEF Line, Lines, Worker, IsBroken, Torn, Garbled, Sampling
  <2>3. GoesOn(log, line)
    BY <2>1, <2>2 DEF GoesOn
  <2>4. log' = Append(log, line)
    BY <1>1, <1>6, <2>1, AppendedToClean
  <2> HIDE DEF line
  <2>5. /\ log' \in Seq(Lines) /\ InOrder(log') /\ IsReadable(log')
        /\ Reached(log') = Reached(log)
        /\ Cardinality(DiscoveredIn(log')) = Cardinality(DiscoveredIn(log))
    BY <1>1, <2>1, <2>2, <2>3, <2>4, AppendProperties, InOrderAfter, CleanAfter,
       ReachedAfter, DiscoveredAfter
  <2> QED
    BY <1>2, <1>4, <1>6, <2>1, <2>5 DEF Ended, Alive
<1> QED
  BY <1>5, <1>6 DEF Ends

LEMMA TerminateStep ==
  ASSUME AttemptInv, attempt \in Attempt, Terminate
  PROVE  Ended(attempt) /\ w'[attempt].life # "alive"
<1>1. CASE Alive(attempt)
  BY <1>1, EndStep DEF Terminate
<1>2. CASE ~Alive(attempt)
  <2>1. log' = log /\ w' = w
    BY <1>2 DEF Terminate
  <2> QED
    BY <1>2, <2>1 DEF Ended, Alive, AttemptInv, TypeOK, Lines
<1> QED
  BY <1>1, <1>2

(* Whatever the controller does about it, no other worker writes now.         *)
LEMMA EndedKeeps ==
  ASSUME AttemptInv, NEW k \in Attempt, Ended(k),
         UNCHANGED <<responses, attempt, measure>>
  PROVE  /\ OneWriter' /\ WorkerInv'
         /\ pc' # "discover" => TokenInv'
<1>1. OneWriter'
  BY DEF AttemptInv, OneWriter, Ended, Alive
<1>2. WorkerInv'
  BY DEF AttemptInv, WorkerInv, IsAllowed, Ended
<1>3. ASSUME pc' # "discover"
      PROVE  TokenInv'
  BY <1>3 DEF AttemptInv, TokenInv, Ended
<1> QED
  BY <1>1, <1>2, <1>3

LEMMA WorkerEndsStep ==
  ASSUME AttemptInv, NEW k \in Attempt, WorkerEnds(k)
  PROVE  AttemptInv'
<1>1. Ended(k)
  BY EndStep DEF WorkerEnds
<1>2. /\ responses' = responses /\ pc' = pc /\ attempt' = attempt /\ stage' = stage
      /\ seen' = seen /\ ended' = ended /\ reply' = reply /\ result' = result
      /\ measure' = measure /\ beats' = beats /\ stops' = stops
  BY DEF WorkerEnds, watch
<1>3. TypeOK'
  BY <1>1, <1>2 DEF AttemptInv, TypeOK, Ended, Lines
<1>4. InOrder(log)'
  BY <1>1 DEF Ended
<1>5. OneWriter' /\ WorkerInv'
  BY <1>1, <1>2, EndedKeeps
<1>6. ControllerInv'
  <2>1. attempt \in Attempt => /\ w'[attempt].life = "alive" => Alive(attempt)
                              /\ w'[attempt].at = w[attempt].at
                              /\ w'[attempt].seq = w[attempt].seq
                              /\ w'[attempt].wrote = w[attempt].wrote
    BY <1>1 DEF Ended
  <2>2. CASE log' = log
    <3>1. pc = "discover" \/ pc = "spawn" => attempt \in Attempt /\ attempt # k
      BY DEF AttemptInv, ControllerInv, WorkerEnds, NewWorker, Alive
    <3>2. pc = "discover" \/ pc = "spawn" => w'[attempt] = w[attempt]
      BY <3>1, EndStep DEF WorkerEnds
    <3>3. AttemptNumber' = AttemptNumber
      BY <2>2 DEF AttemptNumber
    <3> QED
      BY <1>2, <2>1, <2>2, <3>2, <3>3 DEF AttemptInv, ControllerInv, Alive
  <2>3. CASE log' # log
    <3>1. /\ k = attempt /\ w[k].at < WorkerExited
          /\ pc \in {"idle", "poll", "check"} /\ result \in {"none", "refused"}
          /\ IsReadable(log') /\ Reached(log') = Reached(log)
      BY <1>1, <2>3 DEF Ended
    <3> QED
      BY <1>2, <2>1, <3>1, EventArithmetic DEF AttemptInv, ControllerInv
  <2> QED
    BY <2>2, <2>3
<1>7. TokenInv'
  BY <1>1, <1>2 DEF AttemptInv, TokenInv, Ended
<1>8. OwnResponse'
  BY <1>1, <1>2 DEF AttemptInv, OwnResponse, Ended, ControllerInv
<1>9. ReplyInv'
  BY <1>1, <1>2 DEF AttemptInv, ReplyInv, Ended, ControllerInv, IsAnswered
<1> QED
  BY <1>3, <1>4, <1>5, <1>6, <1>7, <1>8, <1>9 DEF AttemptInv

(* The stages, by number.                                                    *)
LEMMA StageArithmetic ==
  /\ Import = 1 /\ Build = 2 /\ Correctness = 3 /\ Warmup = 4 /\ Sampling = 5
  /\ Stage = 1..5
  /\ \A s \in Stage : StartOf(s) = 2 * s + 1 /\ FinishOf(s) = 2 * s + 2
  /\ FinishOf(Sampling) = 12 /\ WorkerStarted = 2 /\ ReportWritten = 13
BY DEF Import, Build, Correctness, Warmup, Sampling, Stage, StartOf, FinishOf,
       WorkerStarted, ReportWritten

(* A stage that ends before the report is written, with what was decided in it.*)
LEMMA FinishStep ==
  ASSUME AttemptInv, NEW k \in Attempt, NEW s \in Stage, NEW decided,
         Finish(k, s, decided),
         decided \in Worker, decided.life \in {"alive", "dead"},
         decided.token = w[k].token, decided.seq = w[k].seq,
         decided.wrote = w[k].wrote,
         decided.verdict # "none" /\ ~decided.skip =>
            measure # "never" /\ (decided.verdict = "pass" \/ measure = "always"),
         decided.perf = "measured" =>
            s = Sampling /\ decided.verdict # "none" /\ ~decided.skip
  PROVE  AttemptInv'
<1> DEFINE e == FinishOf(s)
<1>1. /\ Alive(k) /\ w[k].at = StartOf(s) /\ Emit(k, e, s, decided)
  BY DEF Finish
<1>2. /\ e = 2 * s + 2 /\ s \in 1..5 /\ w[k].at = 2 * s + 1
      /\ e \in Lifecycle /\ e = w[k].at + 1 /\ s \in 0..Sampling
  BY <1>1, StageArithmetic, EventArithmetic
<1>3. ~w[k].wrote
  BY <1>2, StageArithmetic DEF AttemptInv, WorkerInv, IsAllowed
<1> HIDE DEF e
<1>4. IsAllowed([decided EXCEPT !.at = e])
  <2> DEFINE next == [decided EXCEPT !.at = e]
  <2>1. /\ next.at = e /\ next.wrote = decided.wrote /\ next.skip = decided.skip
        /\ next.verdict = decided.verdict /\ next.perf = decided.perf
    BY DEF Worker
  <2> HIDE DEF next
  <2>2. s = Sampling => e >= FinishOf(Sampling)
    BY <1>2, StageArithmetic
  <2>3. IsAllowed(next)
    BY <1>3, <2>1, <2>2 DEF IsAllowed
  <2> QED
    BY <2>3 DEF next
<1>5. MayDecide(k, e, decided)
  BY <1>2, <1>3, <1>4 DEF MayDecide
<1> QED
  BY <1>1, <1>2, <1>5, EmitStep

(* Every step of a worker.                                                   *)
LEMMA WorkerStepKeeps ==
  ASSUME AttemptInv, NEW k \in Attempt, WorkerStep(k)
  PROVE  AttemptInv'
<1> USE StageArithmetic
<1> DEFINE W == w[k]
<1>1. W \in Worker /\ IsAllowed(W) /\ measure \in {"never", "passed", "always"}
  BY DEF AttemptInv, TypeOK, WorkerInv
<1>2. /\ W.at \in 0..14 /\ W.seq \in Nat
      /\ W.verdict # "none" /\ ~W.skip =>
            measure # "never" /\ (W.verdict = "pass" \/ measure = "always")
      /\ W.perf = "measured" => W.at >= 12 /\ W.verdict # "none" /\ ~W.skip
      /\ W.wrote => W.at >= 12
  BY <1>1, EventArithmetic DEF Worker, IsAllowed
<1>3. ASSUME NEW e \in 2..14, NEW s \in 0..5, Alive(k), W.at = e - 1, Emit(k, e, s, W)
      PROVE  AttemptInv'
  <2> DEFINE next == [W EXCEPT !.at = e]
  <2>1. /\ next.at = e /\ next.wrote = W.wrote /\ next.skip = W.skip
        /\ next.verdict = W.verdict /\ next.perf = W.perf
    BY <1>1 DEF Worker
  <2> HIDE DEF next
  <2>2. IsAllowed(next)
    BY <1>2, <1>3, <2>1 DEF IsAllowed
  <2>3. e \in Lifecycle /\ e = W.at + 1 /\ s \in 0..Sampling
    BY <1>2, <1>3, EventArithmetic
  <2>4. MayDecide(k, e, W)
    BY <1>1, <1>3, <2>2, <2>3 DEF MayDecide, Alive, next
  <2> QED
    BY <1>3, <2>3, <2>4, EmitStep
<1>4. CASE WorkerStarts(k)
  BY <1>3, <1>4, EventArithmetic DEF WorkerStarts
<1>5. CASE \E s \in Stage : StageStarts(k, s)
  <2>1. PICK s \in Stage : StageStarts(k, s)
    BY <1>5
  <2>2. StartOf(s) \in 2..14 /\ s \in 0..5
    OBVIOUS
  <2> QED
    BY <1>3, <2>1, <2>2 DEF StageStarts
<1>6. CASE \E event \in {ReportWritten, WorkerExited} : Report(k, event)
  BY <1>3, <1>6, EventArithmetic DEF Report
<1>7. CASE WriteResponse(k)
  BY <1>7, WriteResponseStep
<1>8. CASE Beat(k)
  BY <1>8, BeatStep
<1>9. CASE WorkerEnds(k)
  BY <1>9, WorkerEndsStep
(* The ends of the stages.  None of them is measured yet.                    *)
<1>10. ASSUME NEW s \in Stage, W.at = StartOf(s)
       PROVE  W.perf # "measured" /\ ~W.wrote
  BY <1>2, <1>10
<1>11. CASE \E s \in Stage : StageSkipped(k, s) \/ Imported(k, s)
  <2>1. PICK s \in Stage : Finish(k, s, W)
    BY <1>11 DEF StageSkipped, Imported
  <2>2. W.at = StartOf(s) /\ Alive(k)
    BY <2>1 DEF Finish
  <2> QED
    BY <1>1, <1>2, <1>10, <2>1, <2>2, FinishStep DEF Alive
<1>12. CASE \E s \in Stage : ImportFails(k, s)
  <2>1. PICK s \in Stage : ImportFails(k, s)
    BY <1>12
  <2> DEFINE D == [W EXCEPT !.skip = TRUE, !.outcome = "error", !.failed = s]
  <2>2. Finish(k, s, D) /\ W.at = StartOf(s) /\ Alive(k)
    BY <2>1 DEF ImportFails, Finish
  <2>3. s \in 0..5 /\ Sampling = 5
    BY <2>1
  <2>4. /\ D \in Worker /\ D.life = W.life /\ D.token = W.token
        /\ D.seq = W.seq /\ D.wrote = W.wrote /\ D.skip
        /\ D.perf = W.perf
    BY ONLY <1>1, <2>3 DEF Worker
  <2> HIDE DEF D
  <2> QED
    BY <1>10, <2>2, <2>4, FinishStep DEF Alive
<1>13. CASE \E v \in {"pass", "fail"} : Judged(k, v)
  <2>1. PICK v \in {"pass", "fail"} : Judged(k, v)
    BY <1>13
  <2> DEFINE skip == measure = "never" \/ (v = "fail" /\ measure # "always")
             perf == IF skip THEN "skipped" ELSE "none"
             D == [W EXCEPT !.verdict = v, !.skip = skip, !.perf = perf]
  <2>2. Finish(k, Correctness, D)
    BY <2>1 DEF Judged
  <2>3. /\ W.at = StartOf(Correctness) /\ Alive(k) /\ skip \in BOOLEAN
        /\ perf \in {"skipped", "none"}
    BY <2>2 DEF Finish
  <2>4. ~skip => measure # "never" /\ (v = "pass" \/ measure = "always")
    BY <2>1
  <2> HIDE DEF skip, perf
  <2>5. /\ D \in Worker /\ D.life = W.life /\ D.token = W.token
        /\ D.seq = W.seq /\ D.wrote = W.wrote /\ D.verdict = v /\ D.skip = skip
        /\ D.perf = perf
    BY <1>1, <2>1, <2>3 DEF Worker
  <2> HIDE DEF D
  <2> QED
    BY <2>2, <2>3, <2>4, <2>5, FinishStep DEF Alive
<1>14. CASE \E o \in {"success", "error", "oom"}, validated \in BOOLEAN :
              Unjudged(k, o, validated)
  <2>1. PICK o \in {"success", "error", "oom"}, validated \in BOOLEAN :
                Unjudged(k, o, validated)
    BY <1>14
  <2> DEFINE failed == IF o = "success" THEN 0 ELSE Correctness
             skip == ~validated
             life == IF validated /\ measure # "always" THEN "dead" ELSE "alive"
             D == [W EXCEPT !.outcome = o, !.failed = failed, !.skip = skip, !.life = life]
  <2>2. Finish(k, Correctness, D) /\ ~W.skip
    BY <2>1 DEF Unjudged
  <2>3. /\ W.at = StartOf(Correctness) /\ Alive(k) /\ failed \in 0..5
        /\ skip \in BOOLEAN /\ life \in {"alive", "dead"}
    BY <2>2 DEF Finish
  <2> HIDE DEF failed, skip, life
  <2>4. /\ D \in Worker /\ D.life = life /\ D.token = W.token
        /\ D.seq = W.seq /\ D.wrote = W.wrote /\ D.verdict = W.verdict
        /\ D.skip = skip /\ D.perf = W.perf
    BY ZenonT(30), <1>1, <2>1, <2>3 DEF Worker
  <2> HIDE DEF D
  <2> QED
    BY <1>2, <1>10, <2>2, <2>3, <2>4, FinishStep DEF Alive
<1>15. CASE WarmedUp(k)
  <2>1. Finish(k, Warmup, W) /\ W.at = StartOf(Warmup) /\ Alive(k)
    BY <1>15 DEF WarmedUp, Finish
  <2> QED
    BY <1>1, <1>2, <1>10, <2>1, FinishStep DEF Alive
<1>16. CASE WarmupFails(k)
  <2> DEFINE D == [W EXCEPT !.skip = TRUE, !.perf = "failed",
                            !.outcome = "error", !.failed = Warmup]
  <2>0. Warmup \in 0..Sampling
    OBVIOUS
  <2>1. Finish(k, Warmup, D) /\ Alive(k)
    BY <1>16 DEF WarmupFails, Finish
  <2>2. /\ D \in Worker /\ D.life = W.life /\ D.token = W.token
        /\ D.seq = W.seq /\ D.wrote = W.wrote /\ D.skip /\ D.perf = "failed"
    BY ONLY <1>1, <2>0 DEF Worker
  <2> HIDE DEF D
  <2> QED
    BY <2>1, <2>2, FinishStep DEF Alive
<1>17. CASE Sampled(k)
  <2> DEFINE D == [W EXCEPT !.perf = "measured"]
  <2>1. Finish(k, Sampling, D) /\ Alive(k) /\ ~W.skip /\ W.verdict # "none"
    BY <1>17 DEF Sampled, Finish
  <2>2. /\ D \in Worker /\ D.life = W.life /\ D.token = W.token
        /\ D.seq = W.seq /\ D.wrote = W.wrote /\ D.skip = W.skip
        /\ D.verdict = W.verdict
    BY <1>1 DEF Worker
  <2> HIDE DEF D
  <2> QED
    BY <1>2, <2>1, <2>2, FinishStep DEF Alive
<1>18. CASE SamplingFails(k)
  <2> DEFINE D == [W EXCEPT !.perf = "failed", !.outcome = "error", !.failed = Sampling]
  <2>0. Sampling \in 0..Sampling
    OBVIOUS
  <2>1. Finish(k, Sampling, D) /\ Alive(k) /\ ~W.skip /\ W.verdict # "none"
    BY <1>18 DEF SamplingFails, Finish
  <2>2. /\ D \in Worker /\ D.life = W.life /\ D.token = W.token
        /\ D.seq = W.seq /\ D.wrote = W.wrote /\ D.skip = W.skip
        /\ D.verdict = W.verdict /\ D.perf = "failed"
    BY ONLY <1>1, <2>0 DEF Worker
  <2> HIDE DEF D
  <2> QED
    BY <1>2, <2>1, <2>2, FinishStep DEF Alive
<1>19. CASE \E o \in {"error", "oom"} : JudgedUnwritten(k, o)
  <2>1. PICK o \in {"error", "oom"} : JudgedUnwritten(k, o)
    BY <1>19
  <2> DEFINE skip == measure # "always"
             perf == IF skip THEN "skipped" ELSE "none"
             D == [W EXCEPT !.verdict = "fail", !.skip = skip, !.perf = perf,
                            !.outcome = o, !.failed = Correctness]
  <2>2. Finish(k, Correctness, D)
    BY <2>1 DEF JudgedUnwritten
  <2>3. /\ W.at = StartOf(Correctness) /\ Alive(k) /\ skip \in BOOLEAN
        /\ perf \in {"skipped", "none"} /\ Correctness \in 0..Sampling
    BY <2>2 DEF Finish
  <2>4. ~skip => measure # "never" /\ measure = "always"
    OBVIOUS
  <2> HIDE DEF skip, perf
  <2>5. /\ D \in Worker /\ D.life = W.life /\ D.token = W.token
        /\ D.seq = W.seq /\ D.wrote = W.wrote /\ D.verdict = "fail" /\ D.skip = skip
        /\ D.perf = perf
    BY ZenonT(30), <1>1, <2>1, <2>3 DEF Worker
  <2> HIDE DEF D
  <2> QED
    BY <2>2, <2>3, <2>4, <2>5, FinishStep DEF Alive
<1> QED
  BY <1>4, <1>5, <1>6, <1>7, <1>8, <1>9, <1>11, <1>12, <1>13, <1>14, <1>15, <1>16,
     <1>17, <1>18, <1>19 DEF WorkerStep

-----------------------------------------------------------------------------
(* The logs that run accepts.                                                *)

LEMMA StageAtType == \A e : StageAt(e) \in 0..Sampling
<1> TAKE e
<1>1. CASE \E s \in Stage : e = StartOf(s)
  BY <1>1, StageArithmetic DEF StageAt
<1>2. CASE ~\E s \in Stage : e = StartOf(s)
  BY <1>2, StageArithmetic DEF StageAt
<1> QED
  BY <1>1, <1>2

(* They can be read, and the lifecycle has come to its end.                   *)
LEMMA ValidIsClean ==
  ASSUME NEW lines \in Seq(Lines), Valid(lines)
  PROVE  Clean(lines) /\ lines # <<>> /\ Reached(lines) = WorkerExited
<1>1. Len(lines) \in Nat /\ DOMAIN lines = 1..Len(lines)
  BY LenProperties
<1>2. ASSUME NEW i \in DOMAIN lines
      PROVE  ~IsBroken(lines[i])
  <2> DEFINE P == 1..(i - 1)
             prior == LastEvent(lines, P)
  <2>1. IsPositions(P)
    BY <1>1, IntervalIsPositions
  <2> HIDE DEF P
  <2>2. prior \in 0..14
    BY <2>1, LastEventOf, EventArithmetic
  <2> HIDE DEF prior
  <2>3. (prior % WorkerExited) + 1 > 0
    BY <2>2, EventArithmetic
  <2>4. lines[i].event = (prior % WorkerExited) + 1 \/ lines[i].event = Heartbeat
    BY DEF Valid, Follows, prior, P
  <2> QED
    BY <2>3, <2>4 DEF IsBroken, Heartbeat, Torn, Garbled
<1> QED
  BY <1>2 DEF Clean, Valid, Reached

(* Conversely, a log in order is accepted when it has come to its end.        *)
LEMMA InOrderIsValid ==
  ASSUME NEW lines \in Seq(Lines), InOrder(lines), Clean(lines), lines # <<>>,
         Reached(lines) = WorkerExited
  PROVE  Valid(lines)
<1>1. /\ Len(lines) \in Nat /\ DOMAIN lines = 1..Len(lines) /\ Len(lines) # 0
  BY LenProperties, EmptySeq
<1>2. 1 \in DOMAIN lines /\ lines[1].seq = 1
  BY <1>1 DEF InOrder
<1>3. ASSUME NEW i \in DOMAIN lines
      PROVE  lines[i].seq = lines[1].seq + i - 1 /\ Follows(lines, i)
  <2>1. i \in Nat /\ \A j \in 1..i : j \in DOMAIN lines
    BY <1>1
  <2>2. \A j \in 1..i : ~IsBroken(lines[j])
    BY <2>1 DEF Clean
  <2>3. lines[i].seq = i /\ Follows(lines, i)
    BY <2>2 DEF InOrder
  <2> QED
    BY <1>2, <2>1, <2>3
<1> QED
  BY <1>3 DEF Valid, Reached

LEMMA EmptyIsClean ==
  ASSUME NEW lines, lines = <<>>
  PROVE  Clean(lines) /\ Reached(lines) = 0 /\ Cardinality(DiscoveredIn(lines)) = 0
<1>1. lines \in Seq(Lines) /\ Len(lines) = 0 /\ DOMAIN lines = {}
  BY EmptySeq
<1>2. Significant(lines, {}) = {}
  BY DEF Significant
<1>3. LastEvent(lines, {}) = 0
  BY <1>2 DEF LastEvent, Significant
<1>4. DiscoveredIn(lines) = {}
  BY <1>1 DEF DiscoveredIn
<1> QED
  BY <1>1, <1>3, <1>4, FS_EmptySet DEF Clean, Reached

(* On such a log no worker writes any more.                                   *)
LEMMA AcceptedLog ==
  ASSUME AttemptInv, log = <<>> \/ Valid(log)
  PROVE  /\ log \in Seq(Lines) /\ Clean(log) /\ Reached(log) \in {0, WorkerExited}
         /\ LastSeq = Len(log) /\ Len(log) \in Nat
         /\ \A k \in Attempt : Alive(k) => ~(w[k].at < WorkerExited)
<1>1. log \in Seq(Lines)
  BY DEF AttemptInv, TypeOK, Lines
<1>2. Clean(log) /\ Reached(log) \in {0, WorkerExited}
  BY <1>1, ValidIsClean, EmptyIsClean
<1>3. Len(log) \in Nat /\ DOMAIN log = 1..Len(log)
  BY <1>1, LenProperties
<1>4. LastSeq = Len(log)
  <2>1. CASE log = <<>>
    BY <2>1, EmptySeq DEF LastSeq
  <2>2. CASE log # <<>>
    <3>1. Len(log) \in DOMAIN log
      BY <1>1, <1>3, <2>2, EmptySeq
    <3> QED
      BY <2>2, <3>1 DEF LastSeq, AttemptInv, InOrder
  <2> QED
    BY <2>1, <2>2
<1>5. ASSUME NEW k \in Attempt, Alive(k), w[k].at < WorkerExited
      PROVE  FALSE
  <2>1. w[k].at \in Lifecycle /\ w[k].at = Reached(log)
    BY <1>5 DEF AttemptInv, OneWriter
  <2> QED
    BY <1>2, <1>5, <2>1, EventArithmetic
<1> QED
  BY <1>1, <1>2, <1>3, <1>4, <1>5

-----------------------------------------------------------------------------
(* The steps of the controller.                                              *)

LEMMA NewWorkerType ==
  /\ NewWorker \in Worker
  /\ NewWorker.life = "none" /\ NewWorker.at = 0 /\ ~NewWorker.wrote
  /\ NewWorker.verdict = "none" /\ NewWorker.perf = "none"
BY StageArithmetic, EventArithmetic, WorkerRunAssumption DEF NewWorker, Worker

LEMMA NewWorkerWithToken ==
  ASSUME NEW t \in 0..MaxAttempts, NEW worker, worker = [NewWorker EXCEPT !.token = t]
  PROVE  /\ worker \in Worker /\ worker.token = t
         /\ worker.life = "none" /\ worker.at = 0 /\ ~worker.wrote
         /\ worker.verdict = "none" /\ worker.perf = "none"
BY NewWorkerType DEF Worker

(* What an attempt finds when it begins.                                      *)
LEMMA StartRunStep ==
  ASSUME AttemptInv, StartRun
  PROVE  AttemptInv'
<1>1. /\ pc = "idle" /\ attempt < MaxAttempts /\ attempt \in 0..MaxAttempts
      /\ responses' = responses /\ log' = log /\ stage' = stage /\ seen' = seen
      /\ ended' = ended /\ reply' = reply /\ measure' = measure
      /\ beats' = beats /\ stops' = stops
  BY DEF AttemptInv, TypeOK, StartRun, MayRun
<1>2. CASE log = <<>> \/ Valid(log)
  <2> DEFINE count == Cardinality(DiscoveredIn(log))
             n == attempt + 1
             fresh == [NewWorker EXCEPT !.token = AttemptNumber]
  <2>1. /\ result' = "none" /\ pc' = "discover" /\ attempt' = n
        /\ w' = [k \in Attempt |-> IF k = n THEN fresh
                                   ELSE IF Alive(k) THEN w[k] ELSE NewWorker]
    BY <1>2 DEF StartRun, Begin
  <2>2. log \in Seq(Lines) /\ \A k \in Attempt : Alive(k) => ~(w[k].at < WorkerExited)
    BY <1>2, AcceptedLog
  <2>3. count \in Nat /\ count <= attempt /\ AttemptNumber = 1 + count
    BY <2>2, LinesAreFinite DEF AttemptInv, TokenInv, AttemptNumber, DiscoveredIn
  <2>4. AttemptNumber \in 0..MaxAttempts /\ n \in Attempt /\ n \in 0..MaxAttempts /\ count < n
    BY <1>1, <2>3, WorkerRunAssumption DEF Attempt
  <2>5. /\ fresh \in Worker /\ fresh.life = "none" /\ fresh.at = 0 /\ ~fresh.wrote
        /\ fresh.verdict = "none" /\ fresh.perf = "none"
    BY <2>4, NewWorkerWithToken
  <2>6. AttemptNumber' = AttemptNumber
    BY <1>1 DEF AttemptNumber
  <2>7. fresh' = fresh
    BY <2>6 DEF NewWorker
  <2> HIDE DEF count, n, fresh
  <2>8. w \in [Attempt -> Worker]
    BY DEF AttemptInv, TypeOK
  <2>9. /\ w' \in [Attempt -> Worker] /\ w'[n] = fresh
        /\ \A k \in Attempt : k # n => w'[k] = IF Alive(k) THEN w[k] ELSE NewWorker
    BY <2>1, <2>4, <2>5, <2>8, NewWorkerType
  <2>10. \A k \in Attempt : \/ w'[k] = fresh
                            \/ Alive(k) /\ w'[k] = w[k]
                            \/ w'[k] = NewWorker
    BY <2>9
  <2>11. TypeOK'
    BY <1>1, <2>1, <2>4, <2>9 DEF AttemptInv, TypeOK
  <2>12. OneWriter'
    BY <2>2, <2>5, <2>10, NewWorkerType DEF OneWriter, Alive
  <2>13. ControllerInv'
    <3>1. (log = <<>> \/ Valid(log))'
      BY <1>1, <1>2
    <3>2. fresh' = [NewWorker EXCEPT !.token = AttemptNumber]'
      BY DEF fresh
    <3> QED
      BY <2>1, <2>4, <2>7, <2>9, <3>1, <3>2 DEF ControllerInv
  <2>14. TokenInv'
    BY <1>1, <2>1, <2>3, <2>4, <2>5, <2>10, NewWorkerType
       DEF AttemptInv, TokenInv, count, n
  <2>15. OwnResponse'
    BY <2>1 DEF OwnResponse
  <2>16. WorkerInv'
    BY <1>1, <2>5, <2>10, NewWorkerType DEF AttemptInv, WorkerInv, IsAllowed
  <2>17. ReplyInv'
    BY <2>1 DEF ReplyInv, IsAnswered
  <2>18. InOrder(log)'
    BY <1>1 DEF AttemptInv
  <2> QED
    BY <2>11, <2>12, <2>13, <2>14, <2>15, <2>16, <2>17, <2>18 DEF AttemptInv
<1>3. CASE ~(log = <<>> \/ Valid(log))
  <2>1. result' = "refused" /\ attempt' = attempt /\ w' = w /\ pc' = pc
    BY <1>3 DEF StartRun
  <2>2. TypeOK'
    BY <1>1, <2>1 DEF AttemptInv, TypeOK
  <2>3. InOrder(log)'
    BY <1>1 DEF AttemptInv
  <2>4. OneWriter' /\ ControllerInv' /\ TokenInv' /\ OwnResponse'
    BY <1>1, <2>1 DEF AttemptInv, OneWriter, ControllerInv, TokenInv, OwnResponse, Alive
  <2>5. WorkerInv' /\ ReplyInv'
    BY <1>1, <2>1 DEF AttemptInv, WorkerInv, IsAllowed, ReplyInv, IsAnswered
  <2> QED
    BY <2>2, <2>3, <2>4, <2>5 DEF AttemptInv
<1> QED
  BY <1>2, <1>3

(* The line that discovers the worker: its token is new, and its response is   *)
(* not yet there.                                                           *)
LEMMA DiscoverStep ==
  ASSUME AttemptInv, Discover
  PROVE  AttemptInv'
<1> DEFINE count == Cardinality(DiscoveredIn(log))
           n == Len(log)
           line == Line(Discovered, 0, n + 1)
           next == [w[attempt] EXCEPT !.at = Discovered, !.seq = n + 2]
<1>1. /\ pc = "discover" /\ attempt \in Attempt /\ result = "none"
      /\ log = <<>> \/ Valid(log)
      /\ w[attempt] = [NewWorker EXCEPT !.token = AttemptNumber]
      /\ attempt \in 0..MaxAttempts
  BY DEF AttemptInv, ControllerInv, TypeOK, Discover
<1>2. /\ log \in Seq(Lines) /\ Clean(log) /\ Reached(log) \in {0, WorkerExited}
      /\ LastSeq = n /\ n \in Nat
      /\ \A k \in Attempt : Alive(k) => ~(w[k].at < WorkerExited)
  BY <1>1, AcceptedLog
<1>3. /\ count \in Nat /\ count < attempt /\ AttemptNumber = 1 + count
  BY <1>1, <1>2, LinesAreFinite DEF AttemptInv, TokenInv, AttemptNumber, DiscoveredIn
<1>4. AttemptNumber \in 0..MaxAttempts /\ AttemptNumber \in Attempt
  BY <1>1, <1>3, WorkerRunAssumption DEF Attempt
<1>5. /\ w[attempt] \in Worker /\ w[attempt].token = AttemptNumber
      /\ w[attempt].life = "none" /\ w[attempt].at = 0 /\ ~w[attempt].wrote
      /\ w[attempt].verdict = "none" /\ w[attempt].perf = "none"
  <2> DEFINE worker == w[attempt]
             t == AttemptNumber
  <2>1. t \in 0..MaxAttempts /\ worker = [NewWorker EXCEPT !.token = t]
    BY <1>1, <1>4
  <2> HIDE DEF worker, t
  <2>2. /\ worker \in Worker /\ worker.token = t
        /\ worker.life = "none" /\ worker.at = 0 /\ ~worker.wrote
        /\ worker.verdict = "none" /\ worker.perf = "none"
    BY <2>1, NewWorkerWithToken
  <2> QED
    BY <2>2 DEF worker, t
<1>6. /\ line \in Lines /\ ~IsBroken(line) /\ line.event = Discovered
      /\ line.event \in Lifecycle /\ line.seq = n + 1
  BY <1>2, EventArithmetic, StageArithmetic DEF Line, Lines, IsBroken, Torn, Garbled
<1>7. GoesOn(log, line)
  <2>1. (Reached(log) % WorkerExited) + 1 = Discovered
    BY <1>2, EventArithmetic
  <2> QED
    BY <1>6, <2>1 DEF GoesOn
<1>8. /\ log' = Append(log, line) /\ w' = [w EXCEPT ![attempt] = next]
      /\ pc' = "spawn"
      /\ responses' = responses /\ attempt' = attempt /\ stage' = stage /\ seen' = seen
      /\ ended' = ended /\ reply' = reply /\ result' = result /\ measure' = measure
      /\ beats' = beats /\ stops' = stops
  BY <1>2, AppendedToClean DEF Discover, watch
<1>9. /\ next \in Worker /\ next.at = Discovered /\ next.seq = n + 2
      /\ next.token = AttemptNumber /\ next.life = "none" /\ ~next.wrote
      /\ next.verdict = "none" /\ next.perf = "none"
  <2>1. Discovered \in 0..WorkerExited /\ n + 2 \in Nat
    BY <1>2, EventArithmetic
  <2> QED
    BY ONLY <1>5, <2>1 DEF Worker
<1> HIDE DEF line, next, count
<1>10. /\ log' \in Seq(Lines) /\ Len(log') = n + 1
       /\ InOrder(log') /\ Clean(log') /\ IsReadable(log')
       /\ Reached(log') = Discovered
       /\ Cardinality(DiscoveredIn(log')) = count + 1
  BY <1>2, <1>6, <1>7, <1>8, AppendProperties, InOrderAfter, CleanAfter, ReachedAfter,
     DiscoveredAfter, CleanIsReadable DEF AttemptInv, count
<1> HIDE DEF n
<1>11. /\ w' \in [Attempt -> Worker] /\ w'[attempt] = next
       /\ \A k \in Attempt : k # attempt => w'[k] = w[k]
  BY <1>1, <1>8, <1>9 DEF AttemptInv, TypeOK
<1>12. TypeOK'
  BY <1>8, <1>10, <1>11 DEF AttemptInv, TypeOK, Lines
<1>13. OneWriter'
  BY <1>2, <1>9, <1>11 DEF OneWriter, Alive
<1>14. ControllerInv'
  <2>1. next.seq = Len(log') + 1
    BY <1>2, <1>9, <1>10
  <2> QED
    BY <1>1, <1>8, <1>9, <1>10, <1>11, <2>1, EventArithmetic DEF ControllerInv
<1>15. TokenInv'
  <2>1. \A k \in Attempt : w'[k].at # 0 => w'[k].token \in 1..(count + 1)
    BY <1>3, <1>9, <1>11 DEF AttemptInv, TokenInv, count
  <2>2. \A t \in Attempt : responses[t] # NoResponse => t <= count + 1
    BY <1>3 DEF AttemptInv, TokenInv, count, Attempt
  <2>3. count + 1 <= attempt
    BY <1>1, <1>3
  <2> QED
    BY <1>8, <1>10, <2>1, <2>2, <2>3 DEF TokenInv
<1>16. OwnResponse'
  <2>1. responses[AttemptNumber] = NoResponse
    BY <1>3, <1>4 DEF AttemptInv, TokenInv, count
  <2> QED
    BY <1>8, <1>9, <1>11, <2>1 DEF OwnResponse
<1>17. WorkerInv'
  BY <1>8, <1>9, <1>11 DEF AttemptInv, WorkerInv, IsAllowed
<1>18. ReplyInv'
  BY <1>1, <1>8 DEF ReplyInv, IsAnswered
<1> QED
  BY <1>10, <1>12, <1>13, <1>14, <1>15, <1>16, <1>17, <1>18 DEF AttemptInv

LEMMA SpawnStep ==
  ASSUME AttemptInv, Spawn
  PROVE  AttemptInv'
<1> DEFINE next == [w[attempt] EXCEPT !.life = "alive"]
<1>1. /\ pc = "spawn" /\ attempt \in Attempt /\ result = "none"
      /\ Clean(log) /\ IsReadable(log)
      /\ w[attempt].at \in Lifecycle /\ w[attempt].at = Reached(log)
      /\ w[attempt].seq = Len(log) + 1
      /\ w \in [Attempt -> Worker] /\ w[attempt] \in Worker
  BY DEF AttemptInv, ControllerInv, TypeOK, Spawn
<1>2. /\ w' = [w EXCEPT ![attempt] = next] /\ pc' = "poll"
      /\ stage' = Import /\ seen' = 0 /\ ended' = "none"
      /\ log' = log /\ responses' = responses /\ attempt' = attempt
      /\ reply' = reply /\ result' = result /\ measure' = measure
      /\ beats' = beats /\ stops' = stops
  BY DEF Spawn
<1>3. /\ next \in Worker /\ next.life = "alive"
      /\ next.seq = w[attempt].seq /\ next.at = w[attempt].at
      /\ next.token = w[attempt].token /\ next.wrote = w[attempt].wrote
      /\ next.skip = w[attempt].skip /\ next.verdict = w[attempt].verdict
      /\ next.perf = w[attempt].perf /\ next.outcome = w[attempt].outcome
      /\ next.failed = w[attempt].failed
  BY <1>1 DEF Worker
<1> HIDE DEF next
<1>4. /\ w' \in [Attempt -> Worker] /\ w'[attempt] = next
      /\ \A k \in Attempt : k # attempt => w'[k] = w[k]
  BY <1>1, <1>2, <1>3
<1>5. TypeOK'
  BY <1>2, <1>4, StageArithmetic DEF AttemptInv, TypeOK
<1>6. InOrder(log)'
  BY <1>2 DEF AttemptInv
<1>7. OneWriter'
  BY <1>1, <1>2, <1>3, <1>4 DEF AttemptInv, OneWriter, Alive
<1>8. ControllerInv'
  BY <1>1, <1>2, <1>3, <1>4 DEF ControllerInv
<1>9. TokenInv'
  BY <1>2, <1>3, <1>4 DEF AttemptInv, TokenInv
<1>10. OwnResponse'
  BY <1>1, <1>2, <1>3, <1>4 DEF AttemptInv, OwnResponse
<1>11. WorkerInv'
  BY <1>2, <1>3, <1>4 DEF AttemptInv, WorkerInv, IsAllowed
<1>12. ReplyInv'
  BY <1>1, <1>2 DEF ReplyInv, IsAnswered
<1> QED
  BY <1>5, <1>6, <1>7, <1>8, <1>9, <1>10, <1>11, <1>12 DEF AttemptInv

(* A step that leaves the log, the workers and the responses alone.            *)
LEMMA QuietStep ==
  ASSUME AttemptInv, pc' # "discover",
         UNCHANGED <<log, responses, w, attempt, measure>>
  PROVE  InOrder(log)' /\ OneWriter' /\ TokenInv' /\ WorkerInv'
<1>1. InOrder(log)'
  BY DEF AttemptInv
<1>2. OneWriter'
  BY DEF AttemptInv, OneWriter, Alive
<1>3. TokenInv'
  BY DEF AttemptInv, TokenInv
<1>4. WorkerInv'
  BY DEF AttemptInv, WorkerInv, IsAllowed
<1> QED
  BY <1>1, <1>2, <1>3, <1>4

LEMMA PollStep ==
  ASSUME AttemptInv, Poll \/ Sleep \/ SeeExit
  PROVE  AttemptInv'
<1>1. /\ pc \in {"poll", "check"} /\ pc' \in {"poll", "check", "collect"}
      /\ pc' = "collect" => ~Alive(attempt)
      /\ stage' \in {stage, ActiveStage} /\ seen' \in {seen, ActiveStage}
      /\ stage' = stage \/ ActiveStage # 0
      /\ ended' \in {ended, "exited"}
      /\ log' = log /\ responses' = responses /\ w' = w /\ attempt' = attempt
      /\ reply' = reply /\ result' = result /\ measure' = measure
      /\ beats' = beats /\ stops' = stops
  BY DEF Poll, Sleep, SeeExit, watch
<1>2. InOrder(log)' /\ OneWriter' /\ TokenInv' /\ WorkerInv'
  BY <1>1, QuietStep
<1>3. ActiveStage \in 0..Sampling
  BY StageAtType DEF ActiveStage
<1>4. TypeOK'
  <2>1. stage' \in Stage /\ seen' \in 0..Sampling
    BY <1>1, <1>3, StageArithmetic DEF AttemptInv, TypeOK
  <2> QED
    BY <1>1, <2>1 DEF AttemptInv, TypeOK
<1>5. ControllerInv'
  BY <1>1 DEF AttemptInv, ControllerInv, Alive
<1>6. OwnResponse'
  BY <1>1 DEF AttemptInv, OwnResponse
<1>7. ReplyInv'
  BY <1>1 DEF AttemptInv, ControllerInv, ReplyInv, IsAnswered
<1> QED
  BY <1>2, <1>4, <1>5, <1>6, <1>7 DEF AttemptInv

(* The loop is left by a deadline or a Ctrl-C, and the worker is gone.         *)
LEMMA StopStep ==
  ASSUME AttemptInv, TimeOut \/ Interrupt
  PROVE  AttemptInv'
<1>1. /\ pc \in {"poll", "check"} /\ pc' = "collect" /\ Terminate
      /\ ended' \in {"timeout", "interrupted"}
      /\ responses' = responses /\ attempt' = attempt
      /\ stage' = stage /\ seen' = seen
      /\ reply' = reply /\ result' = result /\ measure' = measure
      /\ beats' = beats
      /\ \/ stops' = stops
         \/ stops < MaxStops /\ stops' = stops + 1
  <2>1. CASE TimeOut
    BY <2>1 DEF TimeOut
  <2>2. CASE Interrupt
    BY <2>2 DEF Interrupt
  <2> QED
    BY <2>1, <2>2
<1>2. /\ attempt \in Attempt /\ result = "none" /\ IsReadable(log)
      /\ w[attempt].at \in Lifecycle /\ w[attempt].at = Reached(log)
      /\ w[attempt].at = WorkerExited => Clean(log)
  BY <1>1 DEF AttemptInv, ControllerInv
<1>3. Ended(attempt) /\ w'[attempt].life # "alive"
  BY <1>1, <1>2, TerminateStep
<1>4. OneWriter' /\ WorkerInv' /\ TokenInv'
  BY <1>1, <1>2, <1>3, EndedKeeps
<1>5. stops' \in 0..MaxStops
  BY <1>1, WorkerRunAssumption DEF AttemptInv, TypeOK
<1>6. TypeOK'
  BY <1>1, <1>3, <1>5 DEF AttemptInv, TypeOK, Ended, Lines
<1>7. InOrder(log)'
  BY <1>3 DEF Ended
<1>8. ControllerInv'
  <2>1. /\ IsReadable(log') /\ Reached(log') = Reached(log)
        /\ w'[attempt].at = w[attempt].at
        /\ w[attempt].at = WorkerExited => log' = log
    BY <1>2, <1>3, EventArithmetic DEF Ended
  <2> QED
    BY <1>1, <1>2, <1>3, <2>1 DEF ControllerInv, Alive
<1>9. OwnResponse'
  BY <1>1, <1>2, <1>3 DEF AttemptInv, OwnResponse, Ended
<1>10. ReplyInv'
  BY <1>1, <1>2 DEF ReplyInv, IsAnswered
<1> QED
  BY <1>4, <1>6, <1>7, <1>8, <1>9, <1>10 DEF AttemptInv

LEMMA KillControllerStep ==
  ASSUME AttemptInv, KillController
  PROVE  AttemptInv'
<1>1. /\ pc # "idle" /\ pc' = "idle" /\ result' = "none"
      /\ Terminate \/ (log' = log /\ w' = w)
      /\ stage' = Import /\ seen' = 0 /\ ended' = "none" /\ reply' = NoResponse
      /\ responses' = responses /\ attempt' = attempt /\ measure' = measure
      /\ beats' = beats /\ stops < MaxStops /\ stops' = stops + 1
  BY DEF KillController, Leave
<1>2. attempt \in Attempt
  BY <1>1 DEF AttemptInv, ControllerInv
<1>3. Ended(attempt)
  <2>1. CASE Terminate
    BY <1>2, <2>1, TerminateStep
  <2>2. CASE log' = log /\ w' = w
    BY <2>2 DEF Ended, Alive, AttemptInv, TypeOK, Lines
  <2> QED
    BY <1>1, <2>1, <2>2
<1>4. OneWriter' /\ WorkerInv' /\ TokenInv'
  BY <1>1, <1>2, <1>3, EndedKeeps
<1>5. stops' \in 0..MaxStops
  BY <1>1, WorkerRunAssumption DEF AttemptInv, TypeOK
<1>6. NoResponse \in Responses
  BY WorkerRunAssumption, StageArithmetic DEF NoResponse, Response, Responses
<1>7. TypeOK'
  BY <1>1, <1>3, <1>5, <1>6, StageArithmetic DEF AttemptInv, TypeOK, Ended, Lines
<1>8. InOrder(log)'
  BY <1>3 DEF Ended
<1>9. ControllerInv' /\ OwnResponse' /\ ReplyInv'
  BY <1>1 DEF ControllerInv, OwnResponse, ReplyInv, IsAnswered
<1> QED
  BY <1>4, <1>7, <1>8, <1>9 DEF AttemptInv

(* The response of the worker is the one its attempt returns.                 *)
LEMMA AcceptStep ==
  ASSUME AttemptInv, AcceptResponse
  PROVE  AttemptInv'
<1> DEFINE found == responses[w[attempt].token]
<1>1. /\ pc = "collect" /\ pc' = "return" /\ reply' = found /\ found # NoResponse
      /\ log' = log /\ responses' = responses /\ w' = w /\ attempt' = attempt
      /\ stage' = stage /\ seen' = seen /\ ended' = ended
      /\ result' = result /\ measure' = measure /\ beats' = beats /\ stops' = stops
  BY DEF AcceptResponse, watch
<1>2. /\ attempt \in Attempt /\ result = "none" /\ ~Alive(attempt)
      /\ w[attempt].at \in Lifecycle
  BY <1>1 DEF AttemptInv, ControllerInv
<1>3. found = Response(attempt, "worker", w[attempt].outcome, w[attempt].failed,
                       w[attempt].verdict, w[attempt].perf)
  BY <1>1 DEF AttemptInv, OwnResponse
<1>4. w[attempt] \in Worker /\ attempt \in 0..MaxAttempts
  BY <1>2 DEF AttemptInv, TypeOK
<1>5. found \in Responses
  BY <1>3, <1>4 DEF Response, Responses, Worker, Outcome
<1> HIDE DEF found
<1>6. InOrder(log)' /\ OneWriter' /\ TokenInv' /\ WorkerInv'
  BY <1>1, QuietStep
<1>7. TypeOK'
  BY <1>1, <1>5 DEF AttemptInv, TypeOK
<1>8. ControllerInv' /\ OwnResponse'
  BY <1>1, <1>2 DEF ControllerInv, OwnResponse, Alive
<1>9. ReplyInv'
  BY <1>1, <1>2, <1>3 DEF ReplyInv, IsAnswered, Response
<1> QED
  BY <1>6, <1>7, <1>8, <1>9 DEF AttemptInv

LEMMA SynthesizeStep ==
  ASSUME AttemptInv, NEW o \in Outcome, Synthesize(o)
  PROVE  AttemptInv'
<1> DEFINE t == w[attempt].token
           count == Cardinality(DiscoveredIn(log))
<1>1. /\ pc = "collect" /\ pc' = "close"
      /\ reply' = Response(attempt, "controller", o, stage, "none", "none")
      /\ responses' = [responses EXCEPT ![t] = reply']
      /\ log' = log /\ w' = w /\ attempt' = attempt
      /\ stage' = stage /\ seen' = seen /\ ended' = ended
      /\ result' = result /\ measure' = measure /\ beats' = beats /\ stops' = stops
  BY DEF Synthesize, watch
<1>2. /\ attempt \in Attempt /\ result = "none" /\ ~Alive(attempt)
      /\ IsReadable(log)
      /\ w[attempt].at \in Lifecycle /\ w[attempt].at = Reached(log)
      /\ w[attempt].at = WorkerExited => Clean(log)
  BY <1>1 DEF AttemptInv, ControllerInv
<1>3. /\ log \in Seq(Lines) /\ attempt \in 0..MaxAttempts /\ stage \in Stage
      /\ responses \in [Attempt -> Responses]
  BY DEF AttemptInv, TypeOK, Lines
<1>4. t \in 1..count /\ count <= attempt /\ count \in Nat
  BY SMTT(30), <1>2, <1>3, LinesAreFinite, EventArithmetic DEF AttemptInv, TokenInv
<1> HIDE DEF t, count
<1>5. t \in Attempt /\ t <= count
  BY <1>3, <1>4, WorkerRunAssumption DEF Attempt
<1>6. reply' \in Responses
  BY <1>1, <1>3, StageArithmetic DEF Response, Responses
<1>7. /\ responses' \in [Attempt -> Responses]
      /\ \A u \in Attempt : u # t => responses'[u] = responses[u]
  BY <1>1, <1>3, <1>5, <1>6
<1>8. TypeOK'
  BY <1>1, <1>6, <1>7 DEF AttemptInv, TypeOK
<1>9. InOrder(log)'
  BY <1>1 DEF AttemptInv
<1>10. OneWriter'
  BY <1>1 DEF AttemptInv, OneWriter, Alive
<1>11. ControllerInv' /\ OwnResponse'
  BY <1>1, <1>2 DEF ControllerInv, OwnResponse, Alive
<1>12. TokenInv'
  BY <1>1, <1>5, <1>7 DEF AttemptInv, TokenInv, count
<1>13. WorkerInv'
  BY <1>1 DEF AttemptInv, WorkerInv, IsAllowed
<1>14. ReplyInv'
  BY <1>1, <1>2 DEF ReplyInv, IsAnswered, Response
<1> QED
  BY <1>8, <1>9, <1>10, <1>11, <1>12, <1>13, <1>14 DEF AttemptInv

(* The log is closed with its lifecycle complete, or stays unreadable.         *)
LEMMA CloseStep ==
  ASSUME AttemptInv, CloseTranscript
  PROVE  AttemptInv'
<1>1. /\ pc = "close" /\ pc' = "return" /\ log' = ClosedLog
      /\ responses' = responses /\ w' = w /\ attempt' = attempt
      /\ stage' = stage /\ seen' = seen /\ ended' = ended
      /\ reply' = reply /\ result' = result
      /\ measure' = measure /\ beats' = beats /\ stops' = stops
  BY DEF CloseTranscript, ClosedLog, watch
<1>2. /\ attempt \in Attempt /\ result = "none" /\ ~Alive(attempt)
      /\ IsReadable(log) /\ Reached(log) \in Lifecycle
      /\ Reached(log) = WorkerExited => Clean(log)
  BY <1>1 DEF AttemptInv, ControllerInv
<1>3. log \in Seq(Lines) /\ InOrder(log)
  BY DEF AttemptInv, TypeOK, Lines
<1>4. /\ log' \in Seq(Lines) /\ InOrder(log')
      /\ DiscoveredIn(log') = DiscoveredIn(log)
      /\ Clean(log') => log' # <<>> /\ Reached(log') = WorkerExited
  BY <1>1, <1>2, <1>3, CleanLogClosed, TornLogClosed
<1>5. TypeOK'
  BY <1>1, <1>4 DEF AttemptInv, TypeOK, Lines
<1>6. InOrder(log)'
  BY <1>4
<1>7. OneWriter'
  BY <1>1, <1>2 DEF AttemptInv, OneWriter, Alive
<1>8. ControllerInv' /\ OwnResponse'
  BY <1>1, <1>2 DEF ControllerInv, OwnResponse, Alive
<1>9. TokenInv'
  BY <1>1, <1>4 DEF AttemptInv, TokenInv
<1>10. WorkerInv'
  BY <1>1 DEF AttemptInv, WorkerInv, IsAllowed
<1>11. ReplyInv'
  BY <1>1, <1>2, <1>4 DEF AttemptInv, ReplyInv, IsAnswered
<1> QED
  BY <1>5, <1>6, <1>7, <1>8, <1>9, <1>10, <1>11 DEF AttemptInv

(* run ends with a response or an exception.                                 *)
LEMMA ReturnStep ==
  ASSUME AttemptInv, Return \/ ReturnFails \/ DrainFails
  PROVE  AttemptInv'
<1>1. /\ pc \in {"return", "collect"} /\ pc' = "idle"
      /\ result' \in {"returned", "interrupted", "failed"}
      /\ result' # "failed" => pc = "return"
      /\ result' # "failed" /\ reply.outcome = "success" => Valid(log)
      /\ stage' = Import /\ seen' = 0 /\ ended' = "none"
      /\ log' = log /\ responses' = responses /\ w' = w /\ attempt' = attempt
      /\ reply' = reply /\ measure' = measure /\ beats' = beats /\ stops' = stops
  <2>1. CASE Return
    BY <2>1 DEF Return, Leave
  <2>2. CASE ReturnFails
    BY <2>2 DEF ReturnFails, Leave
  <2>3. CASE DrainFails
    BY <2>3 DEF DrainFails, Leave
  <2> QED
    BY <2>1, <2>2, <2>3
<1>2. attempt \in Attempt /\ ~Alive(attempt)
  BY <1>1 DEF AttemptInv, ControllerInv
<1>3. InOrder(log)' /\ OneWriter' /\ TokenInv' /\ WorkerInv'
  BY <1>1, QuietStep
<1>4. TypeOK'
  BY <1>1, StageArithmetic DEF AttemptInv, TypeOK
<1>5. ControllerInv' /\ OwnResponse'
  BY <1>1, <1>2 DEF ControllerInv, OwnResponse, Alive
<1>6. ReplyInv'
  <2>1. pc = "return" => /\ reply.of = attempt
                         /\ reply.by = "controller" => reply.perf = "none"
                         /\ reply.by \in {"worker", "controller"}
                         /\ reply.by = "worker" =>
                              reply.verdict = w[attempt].verdict /\ reply.perf = w[attempt].perf
                         /\ reply.by = "controller" /\ Clean(log) =>
                              log # <<>> /\ Reached(log) = WorkerExited
    BY DEF AttemptInv, ReplyInv, IsAnswered
  <2>2. (result' \in {"returned", "interrupted"} /\ reply.outcome = "success" => Valid(log))
    BY <1>1
  <2> QED
    BY <1>1, <2>1, <2>2 DEF ReplyInv, IsAnswered
<1> QED
  BY <1>3, <1>4, <1>5, <1>6 DEF AttemptInv

-----------------------------------------------------------------------------
(* The invariant and what follows from it.                                   *)

LEMMA AttemptInvInit ==
  ASSUME Init
  PROVE  AttemptInv
<1>1. /\ log = <<>> /\ w = [k \in Attempt |-> NewWorker]
      /\ responses = [t \in Attempt |-> NoResponse]
      /\ pc = "idle" /\ attempt = 0 /\ stage = Import /\ seen = 0 /\ ended = "none"
      /\ reply = NoResponse /\ result = "none" /\ measure \in Measures
      /\ beats = 0 /\ stops = 0
  BY DEF Init
<1>2. log \in Seq(Lines) /\ DOMAIN log = {} /\ Cardinality(DiscoveredIn(log)) = 0
  BY <1>1, EmptySeq, EmptyIsClean
<1>3. NoResponse \in Responses
  BY WorkerRunAssumption, StageArithmetic DEF NoResponse, Response, Responses
<1>4. w \in [Attempt -> Worker] /\ responses \in [Attempt -> Responses]
  BY <1>1, <1>3, NewWorkerType
<1>5. TypeOK
  BY <1>1, <1>2, <1>3, <1>4, WorkerRunAssumption, StageArithmetic DEF TypeOK, Lines
<1>6. InOrder(log)
  BY <1>2 DEF InOrder
<1>7. OneWriter /\ ControllerInv /\ OwnResponse
  BY <1>1, NewWorkerType DEF OneWriter, ControllerInv, OwnResponse, Alive
<1>8. TokenInv
  BY <1>1, <1>2, NewWorkerType DEF TokenInv
<1>9. WorkerInv
  BY <1>1, NewWorkerType DEF WorkerInv, IsAllowed
<1>10. ReplyInv
  BY <1>1 DEF ReplyInv, IsAnswered
<1> QED
  BY <1>5, <1>6, <1>7, <1>8, <1>9, <1>10 DEF AttemptInv

LEMMA AttemptInvStep ==
  ASSUME AttemptInv, [Next]_vars
  PROVE  AttemptInv'
<1>1. CASE StartRun
  BY <1>1, StartRunStep
<1>2. CASE Discover
  BY <1>2, DiscoverStep
<1>3. CASE Spawn
  BY <1>3, SpawnStep
<1>4. CASE Poll \/ Sleep \/ SeeExit
  BY <1>4, PollStep
<1>5. CASE TimeOut \/ Interrupt
  BY <1>5, StopStep
<1>6. CASE AcceptResponse
  BY <1>6, AcceptStep
<1>7. CASE \E o \in Outcome : Synthesize(o)
  BY <1>7, SynthesizeStep
<1>8. CASE CloseTranscript
  BY <1>8, CloseStep
<1>9. CASE Return \/ ReturnFails \/ DrainFails
  BY <1>9, ReturnStep
<1>10. CASE KillController
  BY <1>10, KillControllerStep
<1>11. CASE \E k \in Attempt : WorkerStep(k)
  BY <1>11, WorkerStepKeeps
<1>12. CASE UNCHANGED vars
  <2>1. /\ log' = log /\ responses' = responses /\ w' = w /\ pc' = pc
        /\ attempt' = attempt /\ stage' = stage /\ seen' = seen /\ ended' = ended
        /\ reply' = reply /\ result' = result /\ measure' = measure
        /\ beats' = beats /\ stops' = stops
    BY <1>12 DEF vars, watch
  <2>2. TypeOK'
    BY <2>1 DEF AttemptInv, TypeOK
  <2>3. InOrder(log)'
    BY <2>1 DEF AttemptInv
  <2>4. OneWriter' /\ TokenInv' /\ WorkerInv'
    BY <2>1 DEF AttemptInv, OneWriter, TokenInv, WorkerInv, IsAllowed, Alive
  <2>5. AttemptNumber' = AttemptNumber
    BY <2>1 DEF AttemptNumber
  <2>6. ControllerInv'
    BY <2>1, <2>5 DEF AttemptInv, ControllerInv, Alive
  <2>7. OwnResponse' /\ ReplyInv'
    BY <2>1 DEF AttemptInv, OwnResponse, ReplyInv, IsAnswered
  <2> QED
    BY <2>2, <2>3, <2>4, <2>6, <2>7 DEF AttemptInv
<1> QED
  BY <1>1, <1>2, <1>3, <1>4, <1>5, <1>6, <1>7, <1>8, <1>9, <1>10, <1>11, <1>12
     DEF Next, Controller

(* Whatever workers, controllers and kills do, in any number: the log is in    *)
(* order, one worker writes at a time, and the controller knows its attempt    *)
(* (WorkerController.run with its workers).                                  *)
THEOREM AttemptInvariant == Spec => []AttemptInv
BY AttemptInvInit, AttemptInvStep, PTL DEF Spec

(* Every variable keeps its type, and the response of every token its shape.   *)
THEOREM WorkerTypes == Spec => []TypeOK
<1>1. AttemptInv => TypeOK
  BY DEF AttemptInv
<1> QED
  BY <1>1, AttemptInvariant, PTL

(* run returns the response of its own attempt, and of a worker what its       *)
(* evaluator and its gate said (the attempt tokens of run).                   *)
THEOREM ResponsesAreTheirOwn == Spec => []NoStaleResponse
<1>1. AttemptInv => NoStaleResponse
  BY DEF AttemptInv, ReplyInv, IsAnswered, NoStaleResponse
<1> QED
  BY <1>1, AttemptInvariant, PTL

(* The readable lines of the log are numbered without a gap, over all attempts, *)
(* orphans and heartbeats (EventEmitter.emit, and the validation run starts     *)
(* with).                                                                   *)
THEOREM LinesAreNumbered == Spec => []NumberedWithoutGap
<1>1. ASSUME AttemptInv
      PROVE  NumberedWithoutGap
  <2>1. Len(log) \in Nat /\ DOMAIN log = 1..Len(log)
    BY <1>1, LenProperties DEF AttemptInv, TypeOK, Lines
  <2>2. ASSUME NEW i \in 2..Len(log)
        PROVE  log[i].seq = log[i - 1].seq + 1
    <3>1. i \in DOMAIN log /\ i - 1 \in DOMAIN log /\ i \in Nat
      BY <2>1
    <3>2. log[i].seq = i /\ log[i - 1].seq = i - 1
      BY <1>1, <3>1 DEF AttemptInv, InOrder
    <3> QED
      BY <3>1, <3>2
  <2> QED
    BY <2>2 DEF NumberedWithoutGap
<1> QED
  BY <1>1, AttemptInvariant, PTL

(* A measured performance is recorded only of a candidate that passed, or by    *)
(* opt-in, in a mode that measures (the correctness gate of execute).          *)
THEOREM MeasuredAfterTheGate == Spec => []MeasuredOnlyIfCorrect
<1>1. ASSUME AttemptInv
      PROVE  MeasuredOnlyIfCorrect
  <2> SUFFICES ASSUME result = "returned", reply.perf = "measured"
               PROVE  /\ measure # "never"
                      /\ RecordedCorrectness(reply) = "pass" \/ measure = "always"
                      /\ w[attempt].at >= FinishOf(Sampling)
    BY DEF MeasuredOnlyIfCorrect
  <2>1. attempt \in Attempt
    BY <1>1 DEF AttemptInv, ControllerInv
  <2>2. reply.verdict = w[attempt].verdict /\ w[attempt].perf = "measured"
    BY <1>1 DEF AttemptInv, ReplyInv, IsAnswered
  <2>3. IsAllowed(w[attempt])
    BY <1>1, <2>1 DEF AttemptInv, WorkerInv
  <2> QED
    BY <2>2, <2>3 DEF IsAllowed, RecordedCorrectness
<1> QED
  BY <1>1, AttemptInvariant, PTL

(* A response of the controller's own, and a success, leave a log that the next *)
(* attempt accepts, if no line of it was torn (_append_synthetic_lifecycle).    *)
THEOREM TranscriptsAreClosed == Spec => []TranscriptIsClosed
<1>1. ASSUME AttemptInv
      PROVE  TranscriptIsClosed
  <2> SUFFICES ASSUME result \in {"returned", "interrupted"},
                      reply.by = "controller" \/ reply.outcome = "success",
                      Clean(log)
               PROVE  Valid(log)
    BY DEF TranscriptIsClosed, Clean
  <2>1. log \in Seq(Lines) /\ InOrder(log)
    BY <1>1 DEF AttemptInv, TypeOK, Lines
  <2>2. CASE reply.by = "controller"
    <3>1. log # <<>> /\ Reached(log) = WorkerExited
      BY <1>1, <2>2 DEF AttemptInv, ReplyInv, IsAnswered
    <3> QED
      BY <2>1, <3>1, InOrderIsValid
  <2>3. CASE reply.outcome = "success"
    BY <1>1, <2>3 DEF AttemptInv, ReplyInv
  <2> QED
    BY <2>2, <2>3
<1> QED
  BY <1>1, AttemptInvariant, PTL

=============================================================================
