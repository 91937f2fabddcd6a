---------------------------- MODULE Persistence ----------------------------
(***************************************************************************)
(* What survives a restart: window counters of the limits, the minute      *)
(* series of the dashboard and the usage counters (AppState.flush and its  *)
(* flusher in src/app/core/app_state.py, UsageRegistry in                  *)
(* src/app/core/usage.py, MinuteSeries in src/app/core/timeseries.py, the  *)
(* shutdown in src/app/main.py), with crashes and failing writes.          *)
(*                                                                         *)
(* A flush is three transactions, one after the other, on the event loop:  *)
(* requests wait for it.  A write that fails rolls its transaction back    *)
(* and raises; in the flusher that ends the task, and in the shutdown it   *)
(* ends the shutdown.                                                      *)
(*                                                                         *)
(* One provider.  The memory of a process that is gone is whatever it was  *)
(* until the next start overwrites it.                                     *)
(***************************************************************************)
EXTENDS Integers

CONSTANTS
  Slots,       \* minutes the series holds (1440)
  MaxCalls,    \* bound: attempts on one counter
  MaxInFlight, \* bound: attempts under way at once
  Epoch,       \* the minute of the first start
  Horizon      \* bound: the last minute

ASSUME PersistenceConstants ==
  /\ Slots \in Nat \ {0} /\ {MaxCalls, MaxInFlight, Horizon} \subseteq Nat
  /\ Epoch \in Nat

VARIABLES
  now,       \* the clock, in minutes
  charged,   \* attempts counted by the limits, when they leave
  usage,     \* attempts counted by the usage registry, when they come back
  series,    \* the ring of minutes
  inFlight,  \* attempts that have left and not come back
  disk,      \* the three tables
  flush,     \* the transaction a flush is at, or "none"
  flusher,   \* the task that flushes every minute
  process    \* the process and its shutdown

memory == <<charged, usage, series>>
vars == <<now, memory, inFlight, disk, flush, flusher, process>>

Bucket == 0..(Slots - 1)
Series == [Bucket -> [stamp : Int, count : Nat]]
Usage  == [successful : Nat, failed : Nat]

NoSeries == [b \in Bucket |-> [stamp |-> -1, count |-> 0]]
NoUsage  == [successful |-> 0, failed |-> 0]
Requests(u) == u.successful + u.failed

Init ==
  /\ now = Epoch
  /\ charged = 0 /\ usage = NoUsage /\ series = NoSeries
  /\ inFlight = 0
  /\ disk = [limits |-> 0, series |-> NoSeries, usage |-> NoUsage]
  /\ flush = "none" /\ flusher = "gone" /\ process = "down"

-----------------------------------------------------------------------------
(* MinuteSeries.record: a bucket with another stamp is of a lap ago.       *)
RecordedMutant(s, minute) ==
  [s EXCEPT ![minute % Slots] = [stamp |-> minute, count |-> @.count + 1]]

Recorded(s, minute) ==
  [s EXCEPT ![minute % Slots] =
     [stamp |-> minute, count |-> IF @.stamp = minute THEN @.count + 1 ELSE 1]]

(* MinuteSeries.series: what is read, for each age.                        *)
View(s, minute) ==
  [age \in Bucket |->
     LET b == s[(minute - age) % Slots]
     IN  IF b.stamp = minute - age THEN b.count ELSE 0]

(* The event loop takes up a request's next step.                          *)
Serving == process = "up" /\ flush = "none"

Leave ==
  /\ Serving /\ charged < MaxCalls /\ inFlight < MaxInFlight
  /\ charged' = charged + 1 /\ inFlight' = inFlight + 1
  /\ UNCHANGED <<now, usage, series, disk, flush, flusher, process>>

(* record_attempt and the series, with no await between them.              *)
ComeBack(outcome) ==
  /\ Serving /\ inFlight > 0
  /\ inFlight' = inFlight - 1
  /\ usage' = [usage EXCEPT ![outcome] = @ + 1]
  /\ series' = Recorded(series, now)
  /\ UNCHANGED <<now, charged, disk, flush, flusher, process>>

-----------------------------------------------------------------------------
(* flush(), of the flusher or of the shutdown.                             *)
Wake ==
  /\ Serving /\ flusher = "asleep"
  /\ flush' = "limits"
  /\ UNCHANGED <<now, memory, inFlight, disk, flusher, process>>

SaveLimitsMutant ==
  /\ flush = "limits"
  /\ disk' = [disk EXCEPT !.usage = usage]
  /\ flush' = "series"
  /\ UNCHANGED <<now, memory, inFlight, flusher, process>>

SaveLimits ==
  /\ flush = "limits"
  /\ disk' = [disk EXCEPT !.limits = charged]
  /\ flush' = "series"
  /\ UNCHANGED <<now, memory, inFlight, flusher, process>>

SaveSeriesMutant ==
  /\ flush = "series"
  /\ disk' = [disk EXCEPT !.series = series]
  /\ flush' = "none"
  /\ process' = IF process = "stopping" THEN "closing" ELSE process
  /\ UNCHANGED <<now, memory, inFlight, flusher>>

SaveSeries ==
  /\ flush = "series"
  /\ disk' = [disk EXCEPT !.series = series]
  /\ flush' = "usage"
  /\ UNCHANGED <<now, memory, inFlight, flusher, process>>

SaveUsage ==
  /\ flush = "usage"
  /\ disk' = [disk EXCEPT !.usage = usage]
  /\ flush' = "none"
  /\ process' = IF process = "stopping" THEN "closing" ELSE process
  /\ UNCHANGED <<now, memory, inFlight, flusher>>

(* A full disk, a locked database.                                         *)
FlushFails ==
  /\ flush # "none"
  /\ flush' = "none"
  /\ \/ process = "up" /\ flusher' = "dead" /\ UNCHANGED process
     \/ process = "stopping" /\ process' = "down" /\ UNCHANGED flusher
  /\ UNCHANGED <<now, memory, inFlight, disk>>

-----------------------------------------------------------------------------
(* lifespan after its yield: the server has waited for the requests.       *)
(* stop_flusher awaits the flusher and then flushes; what a flusher died   *)
(* of is raised by the await, and nothing is flushed.                      *)
StopFlusherMutant ==
  /\ Serving /\ inFlight = 0
  /\ \/ /\ flusher = "asleep"
        /\ process' = "closing" /\ UNCHANGED flush
     \/ /\ flusher = "dead"
        /\ process' = "down" /\ UNCHANGED flush
  /\ flusher' = "gone"
  /\ UNCHANGED <<now, memory, inFlight, disk>>

StopFlusher ==
  /\ Serving /\ inFlight = 0
  /\ \/ /\ flusher = "asleep"
        /\ process' = "stopping" /\ flush' = "limits"
     \/ /\ flusher = "dead"
        /\ process' = "down" /\ UNCHANGED flush
  /\ flusher' = "gone"
  /\ UNCHANGED <<now, memory, inFlight, disk>>

(* usage.close() persists once more, unless the monitor has died: then its *)
(* stop() raises before.                                                   *)
Close ==
  /\ process = "closing"
  /\ process' = "ended"
  /\ disk' = [disk EXCEPT !.usage = usage]
  /\ UNCHANGED <<now, memory, inFlight, flush, flusher>>

CloseSkipped ==
  /\ process = "closing"
  /\ process' = "ended"
  /\ UNCHANGED <<now, memory, inFlight, disk, flush, flusher>>

Crash ==
  /\ process \in {"up", "stopping", "closing"}
  /\ process' = "down" /\ flush' = "none" /\ flusher' = "gone" /\ inFlight' = 0
  /\ UNCHANGED <<now, memory, disk>>

(* AppState.build loads the three tables; lifespan starts the flusher.     *)
Start ==
  /\ process \in {"down", "ended"}
  /\ process' = "up" /\ flusher' = "asleep"
  /\ charged' = disk.limits /\ series' = disk.series /\ usage' = disk.usage
  /\ UNCHANGED <<now, inFlight, disk, flush>>

Pass(minutes) ==
  /\ now + minutes <= Horizon
  /\ now' = now + minutes
  /\ UNCHANGED <<memory, inFlight, disk, flush, flusher, process>>

Next ==
  \/ Leave \/ ComeBack("successful") \/ ComeBack("failed")
  \/ Wake \/ SaveLimits \/ SaveSeries \/ SaveUsage \/ FlushFails
  \/ StopFlusher \/ Close \/ CloseSkipped \/ Crash \/ Start
  \/ \E minutes \in 1..Slots : Pass(minutes)

Spec == Init /\ [][Next]_vars

(* A minute passes, and a flush goes on: the loop runs what is ready.      *)
Fairness == WF_vars(Wake) /\ WF_vars(SaveLimits) /\ WF_vars(SaveSeries) /\ WF_vars(SaveUsage)

FairSpec == Spec /\ Fairness

-----------------------------------------------------------------------------
(* Properties.                                                             *)

(* Types; a flusher is at work or sleeps only in a process that serves.    *)
TypeOK ==
  /\ now \in Nat /\ charged \in Nat /\ usage \in Usage /\ series \in Series
  /\ inFlight \in Nat
  /\ disk \in [limits : Nat, series : Series, usage : Usage]
  /\ flush \in {"none", "limits", "series", "usage"}
  /\ flusher \in {"asleep", "dead", "gone"}
  /\ process \in {"up", "stopping", "closing", "ended", "down"}
  /\ flusher # "gone" <=> process = "up"
  /\ flush # "none" => process = "stopping" \/ flusher = "asleep"

(* The limits are saved first and the usage last, and the limits count a   *)
(* call when it leaves: so a crash between two transactions, and every     *)
(* restart after it, leaves the limits knowing of every call that the      *)
(* usage knows of.  No rate is exceeded by calls that the gateway itself   *)
(* reports.                                                                *)
LimitsKnowWhatUsageKnows ==
  /\ disk.limits >= Requests(disk.usage)
  /\ process = "up" => charged >= Requests(usage) + inFlight

(* The ring of stamped minutes is a memory of the last Slots minutes: a    *)
(* call shows in its minute once, no count of an earlier lap is ever read, *)
(* and a restart brings back what was saved, aged by the time that passed. *)
Window == INSTANCE CallWindow
            WITH Size <- Slots, Limit <- 0, Amounts <- {1},
                 recent <- View(series, now), durable <- View(disk.series, now)

SeriesIsWindow == Window!Spec

(* A shutdown that runs to its end has lost nothing.                       *)
OrderlyEndSavesAll ==
  process = "ended" => disk = [limits |-> charged, series |-> series, usage |-> usage]

(* ARCHITECTURE.md:219: flushed every 60 s.  Whatever is counted reaches   *)
(* the disk without a shutdown, unless the process ends before or a write  *)
(* fails: one failure ends the flusher for good, and then the final flush  *)
(* is not made either.                                                     *)
CountsReachDisk ==
  \A n \in 1..MaxCalls :
    process = "up" /\ Requests(usage) = n
      ~> Requests(disk.usage) >= n \/ flusher = "dead" \/ process # "up"
=============================================================================
