---------------------------- MODULE Observability ----------------------------
(***************************************************************************)
(* What an operator reads from the health endpoint while the server works: *)
(* /trace, which gathers the lines of one trace from the log files of the  *)
(* last days, one await per file, while JsonlLogger goes on writing to the *)
(* file of the day; and /metrics, the percentiles over a sliding window of *)
(* durations.                                                              *)
(*                                                                         *)
(* The n-th line is written at time n: a line is the trace it belongs to   *)
(* and its time.                                                           *)
(***************************************************************************)
EXTENDS Naturals, Sequences, SequencesExt, FiniteSets, FiniteSetsExt, Ascending

CONSTANTS
  Traces,         \* trace ids
  LogDays,        \* bound: the days that are modelled
  MaxLines,       \* bound: lines of the log
  LOOKBACK,       \* TRACE_LOOKBACK_DAYS
  MAX_ENTRIES,    \* TRACE_MAX_ENTRIES
  WINDOW,         \* the samples a histogram keeps
  Durations       \* durations of requests

ASSUME ObservabilityAssumption ==
  /\ LogDays \in Nat \ {0} /\ LOOKBACK \in Nat \ {0} /\ WINDOW \in Nat \ {0}
  /\ MaxLines \in Nat /\ MAX_ENTRIES \in Nat /\ Durations \subseteq Nat
  /\ "none" \notin Traces /\ "answered" \notin Traces

VARIABLES
  today,          \* the date
  logFile,        \* of each day: its lines
  wanted,         \* the trace /trace is asked for, or "none"
  asked,          \* when: the day, and how many lines there were
  dates,          \* the files still to be read
  entries,        \* the lines found
  unreadable,     \* history: the files that could not be read
  reply,          \* the answer
  samples,        \* the histogram: its window, and the running sum
  sampleSum

traceVars   == <<today, logFile, wanted, asked, dates, entries, unreadable, reply>>
sampleVars  == <<samples, sampleSum>>
observedVars == <<traceVars, sampleVars>>

Days  == 1 .. LogDays
Entry == [trace : Traces, at : 1 .. MaxLines]

\* The lines written on a day or later, and a trace's share of them.
LinesFrom(day) == UNION {ToSet(logFile[d]) : d \in day .. LogDays}
OfTrace(t)     == {e \in Entry : e.trace = t}
Written        == Cardinality(LinesFrom(1))

ObservedTypeOK ==
  /\ today \in Days
  /\ logFile \in [Days -> Seq(Entry)] /\ Written <= MaxLines
  /\ wanted \in Traces \cup {"none", "answered"}
  /\ asked \in [day : Days, lines : 0 .. MaxLines]
  /\ dates \in Seq(Days) /\ unreadable \subseteq Days
  /\ entries \in Seq(Entry) /\ reply \in Seq(Entry)
  /\ samples \in Seq(Durations) /\ Len(samples) <= WINDOW
  /\ sampleSum \in Nat

ObservedInit ==
  /\ today = 1
  /\ logFile = [d \in Days |-> <<>>]
  /\ wanted = "none" /\ asked = [day |-> 1, lines |-> 0]
  /\ dates = <<>> /\ entries = <<>> /\ unreadable = {} /\ reply = <<>>
  /\ samples = <<>> /\ sampleSum = 0

-----------------------------------------------------------------------------
\* log(): a line goes to the file of its day.
LogLine(t) ==
  /\ Written < MaxLines
  /\ logFile' = [logFile EXCEPT ![today] = Append(@, [trace |-> t, at |-> Written + 1])]
  /\ UNCHANGED <<today, wanted, asked, dates, entries, unreadable, reply, sampleVars>>

Midnight ==
  /\ today < LogDays
  /\ today' = today + 1
  /\ UNCHANGED <<logFile, wanted, asked, dates, entries, unreadable, reply, sampleVars>>

\* collectTraceEntries(): today's file first, then back in time.
lookback(day) == [i \in 1 .. Min({LOOKBACK, day}) |-> day + 1 - i]

AskTrace(t) ==
  /\ wanted = "none"
  /\ wanted' = t
  /\ asked' = [day |-> today, lines |-> Written]
  /\ dates' = lookback(today)
  /\ UNCHANGED <<today, logFile, entries, unreadable, reply, sampleVars>>

\* readFile() of the next file: a missing or unreadable one is passed over.
ReadDay ==
  /\ wanted \in Traces /\ dates # <<>>
  /\ dates' = Tail(dates)
  /\ \/ /\ entries' = entries \o Filtered(logFile[Head(dates)], OfTrace(wanted))
        /\ UNCHANGED unreadable
     \/ unreadable' = unreadable \cup {Head(dates)} /\ UNCHANGED entries
  /\ UNCHANGED <<today, logFile, wanted, asked, reply, sampleVars>>

\* The lines are sorted by their time, and cut.
byTime_AsRead(lines) == lines
byTime(lines) == SortedBy(lines, [i \in DOMAIN lines |-> lines[i].at])
firstEntries(lines) == SubSeq(lines, 1, Min({Len(lines), MAX_ENTRIES}))

ServeTrace ==
  /\ wanted \in Traces /\ dates = <<>>
  /\ reply' = firstEntries(byTime(entries))
  /\ wanted' = "answered"
  /\ UNCHANGED <<today, logFile, asked, dates, entries, unreadable, sampleVars>>

-----------------------------------------------------------------------------
\* Histogram.observe()
plus(a, b) == a + b
SumOf(s) == FoldLeft(plus, 0, s)
Observe_OneTooMany(value) ==
  LET grown == Append(samples, value)
      cut   == Len(samples) > WINDOW IN
  /\ samples'   = IF cut THEN Tail(grown) ELSE grown
  /\ sampleSum' = IF cut THEN sampleSum + value - Head(grown) ELSE sampleSum + value
  /\ UNCHANGED traceVars

Observe(value) ==
  LET grown == Append(samples, value)
      cut   == Len(samples) = WINDOW IN
  /\ samples'   = IF cut THEN Tail(grown) ELSE grown
  /\ sampleSum' = IF cut THEN sampleSum + value - Head(grown) ELSE sampleSum + value
  /\ UNCHANGED traceVars

\* Math.ceil(p * n) for a percentage, and nearestRank() of a sorted window (1-based).
ceilPercent_Floor(percent, n) == (percent * n) \div 100
ceilPercent(percent, n) == (percent * n + 99) \div 100
clamp(k, low, high)     == Max({low, Min({k, high})})
nearestRank(window, percent) ==
  LET n == Len(window) IN IF n = 0 THEN 0 ELSE window[clamp(ceilPercent(percent, n), 1, n)]

percentile(percent) == nearestRank(SortedBy(samples, samples), percent)

ObservedStep == ReadDay \/ ServeTrace
TraceNext == ObservedStep \/ Midnight \/ \E t \in Traces : LogLine(t) \/ AskTrace(t)

-----------------------------------------------------------------------------
\* r is a stretch of s: what is left of it when something is cut off at its ends.
StretchOf(r, s) ==
  \E skipped \in 0 .. Len(s) :
    Len(r) <= Len(s) - skipped /\ \A i \in DOMAIN r : r[i] = s[skipped + i]

\* A trace is told without gaps: if every file could be read, the reply is a stretch of the story,
\* in the order in which it was written, across the days looked at, and only the limit leaves out
\* lines that were there when the question was asked.  Which end of a longer story is cut off is
\* not claimed: health_endpoint.ts:17-19 says "last 100 JSONL entries", and the code of line 367
\* keeps the first ones.
Story(t, day) == LinesFrom(day) \cap OfTrace(t)
TraceToldWithoutGaps ==
  [][(wanted \in Traces /\ wanted' = "answered" /\ unreadable = {}) =>
       LET story  == Story(wanted, Max({1, asked.day + 1 - LOOKBACK}))
           before == Cardinality({e \in story : e.at <= asked.lines}) IN
       /\ StretchOf(reply', ByKey(story, [e \in story |-> e.at]))
       /\ Len(reply') >= Min({before, MAX_ENTRIES})]_traceVars

\* The numbers of /metrics are those of the window: the sum, which is kept by adding and taking
\* away, is that of the samples kept, and percentile p is the least sample that at least p percent
\* of the samples do not exceed.
MetricsOfWindow ==
  /\ sampleSum = SumOf(samples)
  /\ samples # <<>> => \A p \in {50, 95, 99} :
       LET atMost(v) == 100 * Cardinality({k \in DOMAIN samples : samples[k] <= v})
           enough == {v \in ToSet(samples) : atMost(v) >= p * Len(samples)}
       IN  percentile(p) = Min(enough)

\* Both: what /trace and /metrics tell is what happened.
ObservationsTrue == []MetricsOfWindow /\ TraceToldWithoutGaps
=============================================================================
