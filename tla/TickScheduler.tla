--------------------------- MODULE TickScheduler ---------------------------
(***************************************************************************)
(* The fixed-timestep scheduler of one room (arcforge-tick/src/lib.rs).    *)
(* Time is counted in units of a tenth of a tick or finer, and passes      *)
(* between any two calls: the owner of the scheduler may be late for a     *)
(* deadline by any amount, because game logic or another task was slow.    *)
(*                                                                         *)
(* wait_for_tick changes nothing before its only await, a sleep, so a wait *)
(* that select! cancels is no step, and one that completes is one step at  *)
(* any time from the deadline on.  In event-driven mode there is no        *)
(* deadline and no step; the model is of a scheduler with a tick rate.     *)
(* Of the metrics it has total_ticks and total_skipped; total_overruns and *)
(* the durations are left out.                                             *)
(***************************************************************************)
EXTENDS Integers

CONSTANTS
    D,            \* tick_duration
    MaxCatchup,   \* max_catchup of TickPolicy::CatchUp
    Policies,
    Jitter,       \* initial_jitter_us
    Delays,       \* bound: time passes by one of these amounts
    MaxTime,      \* bound: time stops there
    None

ASSUME TickAssumption ==
    /\ D \in Nat \ {0}
    /\ MaxCatchup \in Nat
    /\ Policies \subseteq {"Skip", "CatchUp", "Drop"}
    /\ Jitter \in Nat
    /\ Delays \subseteq Nat
    /\ MaxTime \in Nat
    /\ None \notin Nat

VARIABLES
    policy,
    now,
    next_tick,
    paused,
    tick_count,     \* also metrics.total_ticks
    tick_start,     \* None, or when the game logic of the last tick started
    total_skipped,
    calm_since      \* history: creation, the last resume or, under Skip, tick

tickVars == <<policy, now, next_tick, paused, tick_count, tick_start,
              total_skipped, calm_since>>

TickInit ==
    /\ policy \in Policies
    /\ now = 0
    /\ \E jitter \in 0 .. Jitter :
           /\ jitter < Jitter \/ Jitter = 0
           /\ next_tick = D + jitter
    /\ paused = FALSE
    /\ tick_count = 0
    /\ tick_start = None
    /\ total_skipped = 0
    /\ calm_since = 0

-----------------------------------------------------------------------------
(* wait_for_tick. *)

LateBy == now - next_tick
Overrun == LateBy > D \div 10
Behind == LateBy \div D       \* whole ticks missed

\* The cap is exceeded: catching up is abandoned altogether.
GivesUp == policy = "CatchUp" /\ Behind > MaxCatchup

MutSkippedUnsaturated ==
    IF ~Overrun THEN 0
    ELSE IF policy = "Skip" THEN Behind
    ELSE IF policy = "CatchUp" THEN Behind - MaxCatchup
    ELSE 0

MutSkippedRoundsUp ==
    IF ~Overrun THEN 0
    ELSE IF policy = "Skip" THEN Behind + 1
    ELSE IF GivesUp THEN Behind - MaxCatchup
    ELSE 0

TicksSkipped ==
    IF ~Overrun THEN 0
    ELSE IF policy = "Skip" THEN Behind
    ELSE IF GivesUp THEN Behind - MaxCatchup
    ELSE 0

MutDeadlineIgnoresNow ==
    IF Overrun /\ GivesUp THEN now + D ELSE next_tick + D

MutDeadlineKeepsDebt == IF policy = "Skip" THEN now + D ELSE next_tick + D

NextDeadline ==
    IF policy = "Skip" \/ (Overrun /\ GivesUp) THEN now + D ELSE next_tick + D

WaitForTick ==
    /\ ~paused
    /\ now >= next_tick
    /\ tick_count' = tick_count + 1
    /\ tick_start' = now
    /\ next_tick' = NextDeadline
    /\ total_skipped' = total_skipped + TicksSkipped
    /\ calm_since' = IF policy = "Skip" THEN now ELSE calm_since
    /\ UNCHANGED <<policy, now, paused>>

-----------------------------------------------------------------------------
(* The other calls, which the owner may make at any time. *)

\* Without a tick since the last such call it returns at once.
RecordTickEnd ==
    /\ tick_start # None
    /\ tick_start' = None
    /\ UNCHANGED <<policy, now, next_tick, paused, tick_count, total_skipped,
                   calm_since>>

Pause ==
    /\ ~paused
    /\ paused' = TRUE
    /\ UNCHANGED <<policy, now, next_tick, tick_count, tick_start,
                   total_skipped, calm_since>>

MutResumeKeepsDeadline ==
    /\ paused
    /\ paused' = FALSE
    /\ calm_since' = now
    /\ UNCHANGED <<policy, now, next_tick, tick_count, tick_start,
                   total_skipped>>

Resume ==
    /\ paused
    /\ paused' = FALSE
    /\ next_tick' = now + D
    /\ calm_since' = now
    /\ UNCHANGED <<policy, now, tick_count, tick_start, total_skipped>>

Advance ==
    /\ \E delay \in Delays : now' = now + delay
    /\ now' <= MaxTime
    /\ UNCHANGED <<policy, next_tick, paused, tick_count, tick_start,
                   total_skipped, calm_since>>

TickNext == WaitForTick \/ RecordTickEnd \/ Pause \/ Resume \/ Advance

TickSpec == TickInit /\ [][TickNext]_tickVars

-----------------------------------------------------------------------------
(* Properties. *)

\* Every variable has its type; in particular no count of skipped ticks goes
\* below zero, where the code saturates.
TickTypeOK ==
    /\ policy \in Policies
    /\ now \in Nat /\ next_tick \in Nat
    /\ paused \in BOOLEAN
    /\ tick_count \in Nat /\ total_skipped \in Nat
    /\ tick_start \in Nat \cup {None}
    /\ calm_since \in Nat

\* However late ticks are, whatever is caught up, skipped, paused or resumed:
\* the scheduler never counts, as run or skipped, more ticks than whole tick
\* durations have passed since it was made.
NeverAhead == (tick_count + total_skipped) * D <= now

Fires == tick_count' # tick_count

\* A tick never comes sooner than one tick duration after creation, a resume
\* or, under Skip, the tick before: no burst makes up for lost time.
NoBurst == [][Fires => now - calm_since >= D]_tickVars

\* CatchUp never owes more than max_catchup ticks: once a tick has fired, the
\* next deadline lies less than max_catchup tick durations in the past.
DebtIsCapped ==
    [][Fires /\ policy = "CatchUp" => now < next_tick' + MaxCatchup * D
      ]_tickVars

\* Whole ticks the schedule leaves out, and those the scheduler reports.
Lost == (next_tick' - next_tick) \div D - 1
Reported == total_skipped' - total_skipped

\* Ticks that never run are reported as skipped, no more and no fewer, for
\* every policy and lateness short of CatchUp's cap (beyond the cap, see
\* EverySkipReported).
SkipsCounted == [][Fires /\ ~GivesUp => Reported = Lost]_tickVars

-----------------------------------------------------------------------------
(* What documentation says and the code does otherwise. *)

\* lib.rs, ticks_skipped: "How many ticks were skipped due to overrun", and
\* CatchUp: "Run up to `max_catchup` extra ticks immediately".  Whatever does
\* not run is reported, when CatchUp gives up too.
EverySkipReported == [][Fires => Reported = Lost]_tickVars
=============================================================================
