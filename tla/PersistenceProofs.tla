-------------------------- MODULE PersistenceProofs --------------------------
(***************************************************************************)
(* What survives a restart, for any number of calls, crashes and failing   *)
(* writes: the limits on disk know of every call that the usage on disk    *)
(* knows of, an orderly end loses nothing, and the ring of stamped minutes *)
(* is a memory of the last Slots minutes.                                  *)
(***************************************************************************)
EXTENDS Persistence, TLAPS

(* Nothing is under way in a process that does not serve.                  *)
QuietWhenDown == process # "up" => inFlight = 0

(* While the process lives, the limits have counted a call before the      *)
(* usage has; and so it is on disk, whatever part of a flush was the last. *)
LimitsAhead ==
  /\ disk.limits >= Requests(disk.usage)
  /\ process \in {"up", "stopping", "closing"} =>
       charged >= Requests(usage) + inFlight /\ charged >= disk.limits

(* Nothing is counted during a flush: what it has written still agrees     *)
(* with memory, until the flush of a shutdown has written all.             *)
FlushAgrees ==
  /\ flush \in {"series", "usage"} => disk.limits = charged
  /\ flush = "usage" => disk.series = series
  /\ process \in {"closing", "ended"} =>
       disk = [limits |-> charged, series |-> series, usage |-> usage]

(* No minute is stamped before it has begun.                               *)
StampsPast ==
  \A b \in Bucket : series[b].stamp <= now /\ disk.series[b].stamp <= now

IInv == TypeOK /\ QuietWhenDown /\ LimitsAhead /\ FlushAgrees /\ StampsPast

-----------------------------------------------------------------------------
LEMMA ConstantFacts ==
  /\ Slots \in Nat /\ Slots >= 1 /\ Epoch \in Nat
  /\ {MaxCalls, MaxInFlight, Horizon} \subseteq Nat
BY PersistenceConstants

(* The minutes that the ring holds are told apart by their buckets.        *)
LEMMA BucketsDiffer ==
  ASSUME NEW s \in Int, NEW t \in Int, s < t, t - s < Slots
  PROVE  s % Slots # t % Slots
<1> USE ConstantFacts
<1>1. /\ s = Slots * (s \div Slots) + (s % Slots)
      /\ t = Slots * (t \div Slots) + (t % Slots)
  OBVIOUS
<1>2. SUFFICES ASSUME s % Slots = t % Slots PROVE FALSE
  OBVIOUS
<1> DEFINE k == (t \div Slots) - (s \div Slots)
<1>3. k \in Int /\ t - s = Slots * k
  <2>1. s \div Slots \in Int /\ t \div Slots \in Int
    OBVIOUS
  <2> QED
    BY <1>1, <1>2, <2>1
<1>4. CASE k <= 0
  BY <1>3, <1>4
<1>5. CASE k >= 1
  BY <1>3, <1>5
<1> QED
  BY <1>3, <1>4, <1>5

LEMMA BucketOf ==
  ASSUME NEW s \in Int
  PROVE  s % Slots \in Bucket
BY ConstantFacts DEF Bucket

(* A call recorded in the current minute touches one bucket: it is stamped *)
(* with that minute, and counts on only if it was before.                  *)
LEMMA RecordedParts ==
  ASSUME NEW s \in Series, NEW minute \in Nat
  PROVE  /\ Recorded(s, minute) \in Series
         /\ LET b == minute % Slots
            IN  /\ Recorded(s, minute)[b].stamp = minute
                /\ Recorded(s, minute)[b].count =
                     IF s[b].stamp = minute THEN s[b].count + 1 ELSE 1
                /\ \A c \in Bucket : c # b => Recorded(s, minute)[c] = s[c]
<1> DEFINE b == minute % Slots
           n == [stamp |-> minute,
                 count |-> IF s[b].stamp = minute THEN s[b].count + 1 ELSE 1]
<1>1. b \in Bucket
  BY BucketOf
<1>2. s[b] \in [stamp : Int, count : Nat]
  BY <1>1 DEF Series
<1>3. /\ n \in [stamp : Int, count : Nat] /\ n.stamp = minute
      /\ n.count = IF s[b].stamp = minute THEN s[b].count + 1 ELSE 1
  BY <1>2
<1>4. Recorded(s, minute) = [s EXCEPT ![b] = n]
  BY DEF Recorded
<1> HIDE DEF b, n
<1> QED
  BY <1>1, <1>3, <1>4 DEF Series, b

-----------------------------------------------------------------------------
LEMMA InitInvariant == Init => IInv
<1>1. NoSeries \in Series /\ NoUsage \in Usage /\ Requests(NoUsage) = 0
  BY ConstantFacts DEF NoSeries, NoUsage, Series, Usage, Requests
<1>2. Epoch \in Nat /\ \A b \in Bucket : NoSeries[b].stamp <= Epoch
  BY ConstantFacts DEF NoSeries
<1> QED
  BY <1>1, <1>2
  DEF Init, IInv, TypeOK, QuietWhenDown, LimitsAhead, FlushAgrees, StampsPast

LEMMA UsageNat ==
  ASSUME NEW u \in Usage
  PROVE  Requests(u) \in Nat
BY DEF Usage, Requests

(* The step of a call: record_attempt counts one outcome.                  *)
LEMMA OutcomeCounts ==
  ASSUME NEW u \in Usage, NEW outcome \in {"successful", "failed"}
  PROVE  /\ [u EXCEPT ![outcome] = @ + 1] \in Usage
         /\ Requests([u EXCEPT ![outcome] = @ + 1]) = Requests(u) + 1
BY DEF Usage, Requests

LEMMA TypeFields ==
  ASSUME TypeOK
  PROVE  /\ now \in Nat /\ charged \in Nat /\ inFlight \in Nat
         /\ usage \in Usage /\ series \in Series
         /\ disk.limits \in Nat /\ disk.series \in Series /\ disk.usage \in Usage
         /\ Requests(usage) \in Nat /\ Requests(disk.usage) \in Nat
         /\ disk = [limits |-> disk.limits, series |-> disk.series, usage |-> disk.usage]
BY UsageNat DEF TypeOK

LEMMA LeaveStep == IInv /\ Leave => IInv'
<1> SUFFICES ASSUME IInv, Leave PROVE IInv'
  OBVIOUS
<1> USE TypeFields DEF IInv, Leave, Serving
<1>1. TypeOK'
  BY DEF TypeOK
<1>2. QuietWhenDown' /\ StampsPast'
  BY DEF QuietWhenDown, StampsPast
<1>3. LimitsAhead'
  BY DEF LimitsAhead
<1>4. FlushAgrees'
  BY DEF FlushAgrees
<1> QED
  BY <1>1, <1>2, <1>3, <1>4

LEMMA ComeBackStep ==
  ASSUME IInv, NEW outcome \in {"successful", "failed"}, ComeBack(outcome)
  PROVE  IInv'
<1>0. /\ TypeOK /\ Serving /\ inFlight > 0
      /\ inFlight' = inFlight - 1 /\ series' = Recorded(series, now)
      /\ usage' = [usage EXCEPT ![outcome] = @ + 1]
      /\ UNCHANGED <<now, charged, disk, flush, flusher, process>>
  BY DEF IInv, ComeBack
<1>1. /\ usage' \in Usage /\ Requests(usage') = Requests(usage) + 1
      /\ inFlight' \in Nat /\ series' \in Series
  <2>1. usage \in Usage /\ inFlight \in Nat /\ series \in Series /\ now \in Nat
    BY <1>0, TypeFields
  <2>2. Recorded(series, now) \in Series
    BY <2>1, RecordedParts
  <2>3. usage' \in Usage /\ Requests(usage') = Requests(usage) + 1
    BY <1>0, <2>1, OutcomeCounts
  <2> QED
    BY <1>0, <2>1, <2>2, <2>3
<1>2. TypeOK'
  BY <1>0, <1>1 DEF TypeOK
<1>3. QuietWhenDown' /\ FlushAgrees'
  BY <1>0 DEF QuietWhenDown, FlushAgrees, Serving
<1>4. LimitsAhead'
  BY <1>0, <1>1, TypeFields DEF IInv, LimitsAhead, Serving
<1>5. StampsPast'
  <2>1. ASSUME NEW b \in Bucket PROVE series'[b].stamp <= now
    <3>1. series'[b].stamp = now \/ series'[b] = series[b]
      <4>1. series \in Series /\ now \in Nat
        BY <1>0, TypeFields
      <4> QED
        BY <1>0, <4>1, RecordedParts
    <3>2. now \in Nat /\ series[b].stamp <= now
      BY <1>0, TypeFields DEF IInv, StampsPast
    <3> QED
      BY <3>1, <3>2
  <2> QED
    BY <1>0, <2>1 DEF IInv, StampsPast
<1> QED
  BY <1>2, <1>3, <1>4, <1>5 DEF IInv

(* The three transactions of a flush, and one that fails.                  *)
LEMMA FlushSteps ==
  ASSUME IInv, Wake \/ SaveLimits \/ SaveSeries \/ SaveUsage \/ FlushFails
  PROVE  IInv'
<1> USE TypeFields DEF IInv
<1>1. CASE Wake
  BY <1>1
  DEF Wake, Serving, TypeOK, QuietWhenDown, LimitsAhead, FlushAgrees, StampsPast, memory
<1>2. CASE SaveLimits
  <2>1. /\ disk' = [limits |-> charged, series |-> disk.series, usage |-> disk.usage]
        /\ flush = "limits" /\ flush' = "series"
        /\ UNCHANGED <<now, memory, inFlight, flusher, process>>
    BY <1>2 DEF SaveLimits
  <2>2. process \in {"up", "stopping"}
    BY <2>1 DEF TypeOK
  <2>3. TypeOK'
    BY <2>1 DEF TypeOK, memory
  <2>4. QuietWhenDown' /\ FlushAgrees' /\ StampsPast'
    BY <2>1, <2>2 DEF QuietWhenDown, FlushAgrees, StampsPast, memory
  <2>5. LimitsAhead'
    <3>1. QuietWhenDown /\ charged >= Requests(usage) + inFlight
      BY <2>2 DEF LimitsAhead
    <3>2. /\ disk'.limits = charged /\ disk'.usage = disk.usage /\ charged' = charged
          /\ usage' = usage /\ inFlight' = inFlight
      BY <2>1 DEF memory
    <3>3. charged >= Requests(disk.usage)
      BY <2>2 DEF LimitsAhead
    <3> QED
      BY <3>1, <3>2, <3>3 DEF LimitsAhead
  <2> QED
    BY <2>3, <2>4, <2>5
<1>3. CASE SaveSeries
  <2>1. /\ disk' = [limits |-> disk.limits, series |-> series, usage |-> disk.usage]
        /\ flush = "series" /\ flush' = "usage"
        /\ UNCHANGED <<now, memory, inFlight, flusher, process>>
    BY <1>3 DEF SaveSeries
  <2>2. process \in {"up", "stopping"}
    BY <2>1 DEF TypeOK
  <2>3. TypeOK'
    BY <2>1 DEF TypeOK, memory
  <2>4. QuietWhenDown' /\ FlushAgrees' /\ StampsPast' /\ LimitsAhead'
    BY <2>1, <2>2 DEF QuietWhenDown, FlushAgrees, StampsPast, LimitsAhead, memory
  <2> QED
    BY <2>3, <2>4
<1>4. CASE SaveUsage
  <2>1. /\ disk' = [limits |-> disk.limits, series |-> disk.series, usage |-> usage]
        /\ flush = "usage" /\ flush' = "none"
        /\ process' = IF process = "stopping" THEN "closing" ELSE process
        /\ UNCHANGED <<now, memory, inFlight, flusher>>
    BY <1>4 DEF SaveUsage
  <2>2. process \in {"up", "stopping"}
    BY <2>1 DEF TypeOK
  <2>3. TypeOK'
    BY <2>1, <2>2 DEF TypeOK, memory
  <2>4. disk.limits = charged /\ disk.series = series
    BY <2>1 DEF FlushAgrees
  <2>5. QuietWhenDown' /\ FlushAgrees' /\ StampsPast'
    BY <2>1, <2>2, <2>4 DEF QuietWhenDown, FlushAgrees, StampsPast, memory
  <2>6. LimitsAhead'
    BY <2>1, <2>2, <2>4 DEF LimitsAhead, memory
  <2> QED
    BY <2>3, <2>5, <2>6
<1>5. CASE FlushFails
  BY <1>5
  DEF FlushFails, TypeOK, QuietWhenDown, LimitsAhead, FlushAgrees, StampsPast, memory
<1> QED
  BY <1>1, <1>2, <1>3, <1>4, <1>5

(* The shutdown, a crash, and the next start.                              *)
LEMMA ProcessSteps ==
  ASSUME IInv, StopFlusher \/ Close \/ CloseSkipped \/ Crash \/ Start
  PROVE  IInv'
<1> USE TypeFields DEF IInv
<1>1. CASE StopFlusher
  BY <1>1
  DEF StopFlusher, Serving, TypeOK, QuietWhenDown, LimitsAhead, FlushAgrees, StampsPast, memory
<1>2. CASE Close
  <2>1. disk' = disk
    <3>1. disk.usage = usage /\ disk' = [disk EXCEPT !.usage = usage]
      BY <1>2 DEF Close, FlushAgrees
    <3> QED
      BY <3>1 DEF TypeOK
  <2> QED
    BY <1>2, <2>1
    DEF Close, TypeOK, QuietWhenDown, LimitsAhead, FlushAgrees, StampsPast, memory
<1>3. CASE CloseSkipped
  BY <1>3
  DEF CloseSkipped, TypeOK, QuietWhenDown, LimitsAhead, FlushAgrees, StampsPast, memory
<1>4. CASE Crash
  BY <1>4
  DEF Crash, TypeOK, QuietWhenDown, LimitsAhead, FlushAgrees, StampsPast, memory
<1>5. CASE Start
  <2>1. flush = "none" /\ inFlight = 0
    BY <1>5 DEF Start, TypeOK, QuietWhenDown
  <2> QED
    BY <1>5, <2>1
    DEF Start, TypeOK, QuietWhenDown, LimitsAhead, FlushAgrees, StampsPast
<1> QED
  BY <1>1, <1>2, <1>3, <1>4, <1>5

LEMMA PassStep ==
  ASSUME IInv, NEW minutes \in 1..Slots, Pass(minutes)
  PROVE  IInv'
<1>0. /\ now' = now + minutes /\ now \in Nat /\ minutes \in Nat /\ now' \in Nat
      /\ now <= now'
      /\ UNCHANGED <<memory, inFlight, disk, flush, flusher, process>>
  BY ConstantFacts DEF Pass, IInv, TypeOK
<1>1. TypeOK'
  BY <1>0 DEF IInv, TypeOK, memory
<1>2. QuietWhenDown' /\ LimitsAhead' /\ FlushAgrees'
  BY <1>0 DEF IInv, QuietWhenDown, LimitsAhead, FlushAgrees, memory
<1>3. StampsPast'
  <2>1. ASSUME NEW b \in Bucket PROVE series[b].stamp <= now' /\ disk.series[b].stamp <= now'
    <3>1. series[b].stamp \in Int /\ disk.series[b].stamp \in Int
      BY TypeFields DEF IInv, Series
    <3>2. series[b].stamp <= now /\ disk.series[b].stamp <= now
      BY DEF IInv, StampsPast
    <3> QED
      BY <1>0, <3>1, <3>2
  <2> QED
    BY <1>0, <2>1 DEF StampsPast, memory
<1> QED
  BY <1>1, <1>2, <1>3 DEF IInv

LEMMA NextInvariant == IInv /\ [Next]_vars => IInv'
<1> SUFFICES ASSUME IInv, [Next]_vars PROVE IInv'
  OBVIOUS
<1>1. CASE UNCHANGED vars
  BY <1>1
  DEF vars, memory, IInv, TypeOK, QuietWhenDown, LimitsAhead, FlushAgrees, StampsPast
<1> QED
  BY <1>1, LeaveStep, ComeBackStep, FlushSteps, ProcessSteps, PassStep DEF Next

THEOREM Invariance == Spec => []IInv
BY InitInvariant, NextInvariant, PTL DEF Spec

(* Types; a flusher is at work or sleeps only in a process that serves     *)
(* (AppState.start_flusher, stop_flusher).                                 *)
THEOREM TypeCorrect == Spec => []TypeOK
<1>1. IInv => TypeOK
  BY DEF IInv
<1> QED
  BY <1>1, Invariance, PTL

(* Whatever crashes and whatever write fails: the limits that the next     *)
(* start loads know of every call that its usage counters know of          *)
(* (the order of the three transactions in AppState.flush).                *)
THEOREM LimitsNeverBehind == Spec => []LimitsKnowWhatUsageKnows
<1>1. IInv => LimitsKnowWhatUsageKnows
  BY DEF IInv, LimitsAhead, LimitsKnowWhatUsageKnows
<1> QED
  BY <1>1, Invariance, PTL

(* A shutdown that runs to its end has lost nothing (stop_flusher, close). *)
THEOREM OrderlyEndLosesNothing == Spec => []OrderlyEndSavesAll
<1>1. IInv => OrderlyEndSavesAll
  BY DEF IInv, FlushAgrees, OrderlyEndSavesAll
<1> QED
  BY <1>1, Invariance, PTL

-----------------------------------------------------------------------------
LEMMA ViewAt ==
  ASSUME NEW s, NEW minute, NEW age \in Bucket
  PROVE  View(s, minute)[age] =
           IF s[(minute - age) % Slots].stamp = minute - age
           THEN s[(minute - age) % Slots].count ELSE 0
BY Zenon DEF View

(* The minute series behind its view: a call shows at age 0 and nowhere    *)
(* else.                                                                   *)
LEMMA RecordedShows ==
  ASSUME NEW s \in Series, NEW minute \in Nat
  PROVE  View(Recorded(s, minute), minute) = [View(s, minute) EXCEPT ![0] = @ + 1]
<1> DEFINE rec == Recorded(s, minute)
<1>1. ASSUME NEW age \in Bucket
      PROVE  View(rec, minute)[age] =
               IF age = 0 THEN View(s, minute)[age] + 1 ELSE View(s, minute)[age]
  <2> DEFINE m == minute - age
  <2>1. m \in Int /\ minute \in Int /\ (age # 0 => m < minute /\ minute - m < Slots)
        /\ (age = 0 => m = minute)
    BY ConstantFacts DEF Bucket
  <2>2. m % Slots \in Bucket
    BY <2>1, BucketOf
  <2>3. /\ View(rec, minute)[age] =
             IF rec[m % Slots].stamp = m THEN rec[m % Slots].count ELSE 0
        /\ View(s, minute)[age] =
             IF s[m % Slots].stamp = m THEN s[m % Slots].count ELSE 0
    BY Zenon DEF View
  <2> HIDE DEF m, rec
  <2>4. CASE age = 0
    <3>1. m = minute
      BY <2>1, <2>4
    <3>2. s[m % Slots].count \in Nat
      BY <2>2 DEF Series
    <3>3. /\ rec[m % Slots].stamp = m
          /\ rec[m % Slots].count = IF s[m % Slots].stamp = m THEN s[m % Slots].count + 1 ELSE 1
      BY <3>1, RecordedParts, Zenon DEF rec
    <3> QED
      BY <2>3, <2>4, <3>2, <3>3
  <2>5. CASE age # 0
    <3>1. m % Slots # minute % Slots
      BY <2>1, <2>5, BucketsDiffer
    <3>2. rec[m % Slots] = s[m % Slots]
      BY <2>2, <3>1, RecordedParts DEF rec
    <3> QED
      BY <2>3, <2>5, <3>2
  <2> QED
    BY <2>4, <2>5
<1>2. /\ View(rec, minute) = [age \in Bucket |-> View(rec, minute)[age]]
      /\ View(s, minute) = [age \in Bucket |-> View(s, minute)[age]]
      /\ 0 \in Bucket
  BY ConstantFacts DEF View, Bucket
<1> HIDE DEF rec
<1>3. View(rec, minute) = [View(s, minute) EXCEPT ![0] = @ + 1]
  BY <1>1, <1>2
<1> QED
  BY <1>3 DEF rec

(* Time moves every call to a greater age, and shows nothing of a minute   *)
(* that has just begun.                                                    *)
LEMMA PassAges ==
  ASSUME NEW s \in Series, NEW minute \in Nat, NEW minutes \in 1..Slots,
         \A b \in Bucket : s[b].stamp <= minute
  PROVE  View(s, minute + minutes) = Window!Aged(View(s, minute), minutes)
<1>1. ASSUME NEW age \in Bucket
      PROVE  View(s, minute + minutes)[age] =
               IF age >= minutes THEN View(s, minute)[age - minutes] ELSE 0
  <2> DEFINE later == minute + minutes
             m == later - age
  <2>1. m \in Int /\ age \in Int /\ minutes \in Int
    BY ConstantFacts DEF Bucket
  <2>a. View(s, later)[age] =
          IF s[(later - age) % Slots].stamp = later - age
          THEN s[(later - age) % Slots].count ELSE 0
    <3> HIDE DEF later
    <3> QED
      BY ViewAt
  <2>2. View(s, minute + minutes)[age] =
          IF s[m % Slots].stamp = m THEN s[m % Slots].count ELSE 0
    BY <2>a
  <2>3. CASE age >= minutes
    <3>1. age - minutes \in Bucket /\ minute - (age - minutes) = m
      BY <2>3, ConstantFacts DEF Bucket
    <3>2. View(s, minute)[age - minutes] =
            IF s[(minute - (age - minutes)) % Slots].stamp = minute - (age - minutes)
            THEN s[(minute - (age - minutes)) % Slots].count ELSE 0
      BY <3>1, Zenon DEF View
    <3> HIDE DEF m
    <3> QED
      BY <2>2, <2>3, <3>1, <3>2
  <2>4. CASE age < minutes
    <3>1. m > minute
      BY <2>1, <2>4
    <3>2. m % Slots \in Bucket
      BY <2>1, BucketOf
    <3> HIDE DEF m
    <3>3. s[m % Slots].stamp # m
      <4>1. s[m % Slots].stamp \in Int /\ s[m % Slots].stamp <= minute
        BY <3>2 DEF Series
      <4> QED
        BY <2>1, <3>1, <4>1
    <3>4. ~(age >= minutes)
      BY <2>1, <2>4
    <3> QED
      BY <2>2, <3>3, <3>4
  <2> QED
    BY <2>1, <2>3, <2>4
<1>2. View(s, minute + minutes) = [age \in Bucket |-> View(s, minute + minutes)[age]]
  BY DEF View
<1> QED
  BY <1>1, <1>2 DEF Window!Aged, Window!Age, Bucket

LEMMA WindowInit == Init => Window!Init
<1> SUFFICES ASSUME Init PROVE Window!Init
  OBVIOUS
<1>1. View(NoSeries, now) = [age \in Bucket |-> 0]
  <2>1. ASSUME NEW age \in Bucket PROVE View(NoSeries, now)[age] = 0
    <3>1. (now - age) % Slots \in Bucket
      BY ConstantFacts, BucketOf DEF Init, Bucket
    <3>2. NoSeries[(now - age) % Slots].count = 0
      BY <3>1 DEF NoSeries
    <3> QED
      BY <3>2 DEF View
  <2>2. View(NoSeries, now) = [age \in Bucket |-> View(NoSeries, now)[age]]
    BY DEF View
  <2> QED
    BY <2>1, <2>2
<1> QED
  BY <1>1 DEF Init, Window!Init, Window!Empty, Window!Age, Bucket

LEMMA WindowStep ==
  IInv /\ [Next]_vars => [Window!Next]_<<View(series, now), View(disk.series, now)>>
<1> SUFFICES ASSUME IInv, [Next]_vars
             PROVE  \/ Window!Next
                    \/ UNCHANGED <<View(series, now), View(disk.series, now)>>
  OBVIOUS
<1>0. TypeOK /\ StampsPast
  BY DEF IInv
<1>1. CASE UNCHANGED <<series, now>> /\ disk'.series = disk.series
  BY <1>1
<1>2. ASSUME NEW outcome \in {"successful", "failed"}, ComeBack(outcome)
      PROVE  Window!Next
  <2>1. View(series', now') = [View(series, now) EXCEPT ![0] = @ + 1]
    BY <1>0, <1>2, TypeFields, RecordedShows DEF ComeBack
  <2>2. View(disk'.series, now') = View(disk.series, now)
    BY <1>2 DEF ComeBack
  <2>3. Window!Charge(1)
    BY <2>1, <2>2 DEF Window!Charge
  <2> QED
    BY <2>3 DEF Window!Next
<1>3. CASE SaveSeries
  <2>1. disk'.series = series /\ UNCHANGED <<series, now>>
    BY <1>0, <1>3 DEF SaveSeries, TypeOK, memory
  <2>2. Window!Save
    BY <2>1 DEF Window!Save
  <2> QED
    BY <2>2 DEF Window!Next
<1>4. CASE Start
  <2>1. series' = disk.series /\ UNCHANGED <<disk, now>>
    BY <1>4 DEF Start
  <2>2. Window!Restart
    BY <2>1 DEF Window!Restart
  <2> QED
    BY <2>2 DEF Window!Next
<1>5. ASSUME NEW minutes \in 1..Slots, Pass(minutes) PROVE Window!Next
  <2>1. now' = now + minutes /\ UNCHANGED <<series, disk>>
    BY <1>5 DEF Pass, memory
  <2>2. /\ View(series, now + minutes) = Window!Aged(View(series, now), minutes)
        /\ View(disk.series, now + minutes) = Window!Aged(View(disk.series, now), minutes)
    BY <1>0, TypeFields, PassAges DEF StampsPast
  <2>3. Window!Pass(minutes)
    BY <2>1, <2>2 DEF Window!Pass
  <2> QED
    BY <2>3 DEF Window!Next
<1>6. CASE Leave \/ Wake \/ FlushFails \/ StopFlusher \/ CloseSkipped \/ Crash \/ UNCHANGED vars
  <2>1. UNCHANGED <<series, now, disk>>
    BY <1>6
    DEF Leave, Wake, FlushFails, StopFlusher, CloseSkipped, Crash, vars, memory
  <2> QED
    BY <2>1, <1>1
<1>7. CASE SaveLimits \/ SaveUsage \/ Close
  <2>1. UNCHANGED <<series, now>> /\ disk'.series = disk.series
    BY <1>0, <1>7 DEF SaveLimits, SaveUsage, Close, memory, TypeOK
  <2> QED
    BY <2>1, <1>1
<1> QED
  BY <1>2, <1>3, <1>4, <1>5, <1>6, <1>7 DEF Next

(* The ring of MinuteSeries, read as the dashboard reads it, behaves as a  *)
(* memory of the last Slots minutes: no count of an earlier lap is ever    *)
(* shown, and a restart brings back what was saved, aged by the time that  *)
(* passed.                                                                 *)
THEOREM SeriesRemembersTheMinutes == Spec => SeriesIsWindow
<1> QED
  BY Invariance, WindowInit, WindowStep, PTL DEF Spec, SeriesIsWindow, Window!Spec
=============================================================================
