------------------------------ MODULE L2Metrics ------------------------------
(***************************************************************************)
(* growthepie's files (src/src/sources/growthepie.js): each is read again  *)
(* when its copy is old, all due ones at once; a copy that was good stays  *)
(* when a read fails or its shape drifted; what was never read comes from  *)
(* the checked-in snapshot.  A file's daily rows become a series, and the  *)
(* series the headline figures: the change against a day before, and means *)
(* over whole windows of days.                                             *)
(*                                                                         *)
(* Every file is of rows <<day, value>> here.  Those of fundamentals.json  *)
(* are made one per day; those of the aggregates in landing_page.json are  *)
(* only sorted.  A file without a usable row is one whose shape drifted,   *)
(* but the landing page is judged by its table of chains alone.            *)
(***************************************************************************)
EXTENDS Integers, Sequences, FiniteSets, FiniteSetsExt

CONSTANTS
    File,       \* FILES
    Landing,    \* the files that are read as the landing page is
    Publication,\* what upstream may answer: sequences of rows
    Fallback,   \* [File -> rows]: growthepie-fallback.json, None for what it lacks
    MaxAge,     \* [File -> Nat]: maxAgeMs
    RetryAfter, \* the ten minutes between reads of a file that was never read live
    SeriesDays, \* SERIES_DAYS
    Week,       \* the days of a window
    None,
    MaxTime     \* bound: the clock

VARIABLES
    now,
    parts,          \* state.parts
    refreshing,     \* the files that state.refreshing still waits for
    fallbackLoaded, \* state.fallbackLoaded
    waiting         \* a read waits for the refresh to end

vars == <<now, parts, refreshing, fallbackLoaded, waiting>>

NothingRead == [data |-> None, fetchedAt |-> 0, source |-> None, error |-> FALSE, lastAttemptAt |-> None]

Init ==
    /\ now = 1
    /\ parts = [f \in File |-> NothingRead]
    /\ refreshing = {} /\ fallbackLoaded = FALSE /\ waiting = FALSE

-----------------------------------------------------------------------------
(* From rows to figures                                                    *)

\* The value of a day is that of its last row.
OnDay(rows, day) == rows[Max({i \in DOMAIN rows : rows[i][1] = day})][2]

\* The days of the rows, in their order.
Days(rows) ==
    LET of == {rows[i][1] : i \in DOMAIN rows}
    IN  [k \in 1 .. Cardinality(of) |-> CHOOSE d \in of : Cardinality({e \in of : e < d}) = k - 1]

LastOf(series) == SubSeq(series, Max({1, Len(series) - SeriesDays + 1}), Len(series))

NormalizeFundamentals(rows) ==
    LET days == Days(rows)
    IN  LastOf([i \in DOMAIN days |-> <<days[i], OnDay(rows, days[i])>>])

\* Row j comes before row i when both are sorted by time.
Earlier(rows, j, i) == rows[j][1] < rows[i][1] \/ (rows[j][1] = rows[i][1] /\ j < i)

NormalizeLanding(rows) ==
    LastOf([k \in DOMAIN rows |->
        rows[CHOOSE i \in DOMAIN rows : Cardinality({j \in DOMAIN rows : Earlier(rows, j, i)}) = k - 1]])

Normalize(f, rows) == IF f \in Landing THEN NormalizeLanding(rows) ELSE NormalizeFundamentals(rows)

Latest(series) == series[Len(series)]

ValueDaysBefore(series, days) ==
    LET there == {i \in DOMAIN series : series[i][1] = Latest(series)[1] - days}
    IN  IF there = {} THEN None ELSE series[Max(there)][2]

\* <<sum, days>> of the days that end `offset` before the latest one.
WindowMean(series, days, offset) ==
    LET end == Latest(series)[1] - offset
        of  == {i \in DOMAIN series : series[i][1] \in end - days + 1 .. end}
    IN  IF Cardinality(of) = days THEN <<MapThenSumSet(LAMBDA i : series[i][2], of), days>> ELSE None

MetricSummary(series) ==
    [date |-> Latest(series)[1], value |-> Latest(series)[2],
     before |-> ValueDaysBefore(series, Week),
     mean |-> WindowMean(series, Week, 0), meanBefore |-> WindowMean(series, Week, Week)]

-----------------------------------------------------------------------------
(* Reads of the files                                                      *)

Rows == Seq(Int \X Int)

OncePerDay(series) == \A i, j \in DOMAIN series : series[i][1] = series[j][1] => i = j

\* What the constants are; asserted by the module that gives them values.  The snapshot
\* holds what was normalized once.
FilesAssumption ==
    /\ Publication \subseteq Rows /\ Week \in Nat \ {0} /\ SeriesDays \in Nat \ {0}
    /\ None \notin Int \cup Rows /\ \A f \in File : Fallback[f] \in Rows \cup {None} /\ Fallback[f] # <<>>
    /\ \A f \in File \ Landing : Fallback[f] # None => OncePerDay(Fallback[f])

WithFallback ==
    [f \in File |->
        IF ~fallbackLoaded /\ parts[f].data = None /\ Fallback[f] # None
        THEN [NothingRead EXCEPT !.data = Fallback[f], !.source = "fallback"]
        ELSE parts[f]]

Live(f) == parts[f].source = "live"

IsDue(f) ==
    IF Live(f) THEN now - parts[f].fetchedAt > MaxAge[f]
    ELSE parts[f].lastAttemptAt # None => now - parts[f].lastAttemptAt > RetryAfter

DueFiles == {f \in File : IsDue(f)}

\* refreshGrowthepie reads every due file, unless it already does.
RefreshGrowthepie ==
    IF refreshing # {} THEN UNCHANGED <<parts, refreshing>>
    ELSE /\ parts' = [f \in File |-> IF f \in DueFiles THEN [WithFallback[f] EXCEPT !.lastAttemptAt = now] ELSE WithFallback[f]]
         /\ refreshing' = DueFiles

TimerRefreshes ==
    /\ RefreshGrowthepie
    /\ fallbackLoaded' = (fallbackLoaded \/ refreshing = {})
    /\ UNCHANGED <<now, waiting>>

\* ensureGrowthepie, before getL2Metrics and the others answer.
EnsureGrowthepie ==
    /\ parts' = [f \in File |-> IF refreshing = {} /\ f \in DueFiles THEN [WithFallback[f] EXCEPT !.lastAttemptAt = now] ELSE WithFallback[f]]
    /\ refreshing' = IF refreshing = {} THEN DueFiles ELSE refreshing
    /\ fallbackLoaded' = TRUE
    /\ waiting' = (waiting \/ (~(\E f \in File : Live(f)) /\ DueFiles # {}))
    /\ UNCHANGED now

Settled(f) ==
    /\ refreshing' = refreshing \ {f}
    /\ waiting' = (waiting /\ refreshing # {f})
    /\ UNCHANGED <<now, fallbackLoaded>>

\* isEmpty: the landing page is not when it has its table of chains.
HasData(f, data, table) == IF f \in Landing THEN table ELSE data # <<>>

FetchPartEnds(f, rows, table) ==
    /\ f \in refreshing
    /\ LET data == Normalize(f, rows)
       IN  parts' = [parts EXCEPT ![f] =
               IF HasData(f, data, table)
               THEN [@ EXCEPT !.data = data, !.fetchedAt = now, !.source = "live", !.error = FALSE]
               ELSE [@ EXCEPT !.error = TRUE]]
    /\ Settled(f)

FetchPartFails(f) ==
    /\ f \in refreshing
    /\ parts' = [parts EXCEPT ![f].error = TRUE]
    /\ Settled(f)

Tick ==
    /\ now < MaxTime
    /\ now' = now + 1
    /\ UNCHANGED <<parts, refreshing, fallbackLoaded, waiting>>

Next ==
    \/ TimerRefreshes \/ EnsureGrowthepie \/ Tick
    \/ \E f \in File : FetchPartFails(f) \/ \E rows \in Publication, table \in BOOLEAN : FetchPartEnds(f, rows, table)

Spec == Init /\ [][Next]_vars

-----------------------------------------------------------------------------
(* Properties                                                              *)

\* "keep the last good copy" (growthepie.js:345): a file that was read once is
\* served for good, and never from an older reading or the snapshot again.  The
\* series of a landing page that still has its table may be lost.
GoodCopyStays ==
    [][\A f \in File : parts[f].data # None =>
        /\ parts'[f].data # None /\ (f \notin Landing => parts'[f].data # <<>>)
        /\ parts'[f].fetchedAt >= parts[f].fetchedAt
        /\ parts[f].source = "live" => parts'[f].source = "live"]_vars

\* "null unless every one of those days is present (a gap would bias it)"
\* (growthepie.js:466): a mean is of as many days as it says, each of them once,
\* whatever rows the file repeats; on the landing page as long as it repeats none,
\* since a day's second row there stands in for a missing day.
MeansAreOfWholeWindows ==
    \A f \in File :
        parts[f].data \notin {None, <<>>} /\ (f \in Landing => OncePerDay(parts[f].data)) =>
            LET s == MetricSummary(parts[f].data)
                has(day) == \E i \in DOMAIN parts[f].data : parts[f].data[i][1] = day
            IN  /\ s.mean # None => \A d \in 0 .. Week - 1 : has(s.date - d)
                /\ s.meanBefore # None => \A d \in Week .. 2 * Week - 1 : has(s.date - d)
                /\ s.mean # None /\ s.meanBefore # None => s.before # None
=============================================================================
