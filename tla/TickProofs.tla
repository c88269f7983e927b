----------------------------- MODULE TickProofs -----------------------------
(***************************************************************************)
(* The scheduler never counts more ticks than time has brought, for every  *)
(* tick duration, policy, catch-up cap, jitter and pattern of delays.      *)
(***************************************************************************)
EXTENDS TickScheduler, TLAPS

Count == tick_count + total_skipped

\* The deadline accounts for every tick counted and for the one to come.
DeadlineAccounts == (Count + 1) * D <= next_tick

TickInv == TickTypeOK /\ NeverAhead /\ DeadlineAccounts

\* Integer division: the whole ticks in a delay last no longer than it.
LEMMA WholeTicksFit ==
    ASSUME NEW a \in Nat, NEW d \in Nat \ {0}
    PROVE  a \div d \in Nat /\ (a \div d) * d <= a
  OBVIOUS

\* Integer division: with one more tick the delay is exceeded.
LEMMA PartialTick ==
    ASSUME NEW a \in Nat, NEW d \in Nat \ {0}
    PROVE  a < (a \div d + 1) * d /\ a \div d \in Nat
  OBVIOUS

\* Multiplication distributes over the sum of what was counted before, the
\* tick that fires, and those skipped.
LEMMA Distributes ==
    ASSUME NEW n \in Nat, NEW k \in Nat, NEW d \in Nat
    PROVE  /\ (n + 1 + k) * d = (n + 1) * d + k * d
           /\ (n + 1 + k + 1) * d = (n + 1 + k) * d + d
  OBVIOUS

\* Fewer ticks last no longer.
LEMMA Monotonic ==
    ASSUME NEW j \in Nat, NEW k \in Nat, NEW d \in Nat, j <= k
    PROVE  j * d <= k * d
  OBVIOUS

\* What is skipped is a count, and at most the whole ticks the wake-up is late
\* by; under the policies that skip, the next deadline is a full tick away.
LEMMA SkippedFit ==
    ASSUME TickTypeOK, now >= next_tick
    PROVE  /\ TicksSkipped \in Nat
           /\ TicksSkipped * D <= LateBy
           /\ NextDeadline = now + D \/ (TicksSkipped = 0 /\ NextDeadline = next_tick + D)
<1>. D \in Nat \ {0} /\ MaxCatchup \in Nat
  BY TickAssumption
<1>. now \in Nat /\ next_tick \in Nat /\ policy \in {"Skip", "CatchUp", "Drop"}
  BY TickAssumption DEF TickTypeOK
<1>1. LateBy \in Nat
  BY DEF LateBy
<1>2. Behind \in Nat /\ Behind * D <= LateBy
  BY <1>1, WholeTicksFit DEF Behind
<1>3. CASE TicksSkipped = 0
  <2>1. policy = "Skip" => NextDeadline = now + D
    BY DEF NextDeadline
  <2>2. policy # "Skip" /\ ~(Overrun /\ GivesUp) => NextDeadline = next_tick + D
    BY DEF NextDeadline
  <2>3. policy # "Skip" /\ Overrun /\ GivesUp => NextDeadline = now + D
    BY DEF NextDeadline
  <2>4. TicksSkipped * D <= LateBy
    BY <1>1, <1>3
  <2>. QED
    BY <1>3, <2>1, <2>2, <2>3, <2>4
<1>4. CASE Overrun /\ policy = "Skip"
  <2>1. TicksSkipped = Behind /\ NextDeadline = now + D
    BY <1>4 DEF TicksSkipped, NextDeadline
  <2>. QED
    BY <1>2, <2>1
<1>5. CASE Overrun /\ GivesUp
  <2>1. TicksSkipped = Behind - MaxCatchup /\ NextDeadline = now + D
    BY <1>5 DEF TicksSkipped, NextDeadline, GivesUp
  <2>2. TicksSkipped \in Nat /\ TicksSkipped <= Behind
    BY <1>2, <1>5, <2>1 DEF GivesUp
  <2>3. TicksSkipped * D <= Behind * D
    BY <1>2, <2>2, Monotonic
  <2>4. TicksSkipped * D \in Nat /\ Behind * D \in Nat
    BY <1>2, <2>2
  <2>. QED
    BY <1>1, <1>2, <2>1, <2>2, <2>3, <2>4
<1>. QED
  BY <1>3, <1>4, <1>5 DEF TicksSkipped

\* A tick that fires keeps the count within the time that has passed.
LEMMA FiringKeepsCount ==
    ASSUME TickInv, WaitForTick
    PROVE  NeverAhead' /\ DeadlineAccounts'
<1>. D \in Nat \ {0}
  BY TickAssumption
<1>. DEFINE n == Count
            k == TicksSkipped
<1>1. /\ n \in Nat /\ now \in Nat /\ next_tick \in Nat /\ now >= next_tick
      /\ now' = now /\ next_tick' = NextDeadline
  BY DEF TickInv, TickTypeOK, WaitForTick, Count
<1>2. /\ k \in Nat
      /\ k * D <= now - next_tick
      /\ NextDeadline = now + D \/ (k = 0 /\ NextDeadline = next_tick + D)
  BY <1>1, SkippedFit DEF TickInv, LateBy
<1>3. Count' = n + 1 + k
  BY <1>2 DEF WaitForTick, Count, TickInv, TickTypeOK
<1>4. (n + 1) * D <= next_tick
  BY DEF TickInv, DeadlineAccounts
<1>5. /\ (n + 1 + k) * D = (n + 1) * D + k * D
      /\ (n + 1 + k + 1) * D = (n + 1 + k) * D + D
  BY <1>1, <1>2, Distributes
<1>6. (n + 1) * D \in Nat /\ k * D \in Nat /\ (n + 1 + k) * D \in Nat
  BY <1>1, <1>2
<1>. HIDE DEF n, k
<1>7. (n + 1 + k) * D <= now
  BY <1>1, <1>2, <1>4, <1>5, <1>6
<1>8. (n + 1 + k + 1) * D <= next_tick'
  <2>1. CASE NextDeadline = now + D
    BY <1>1, <1>5, <1>6, <1>7, <2>1
  <2>2. CASE k = 0 /\ NextDeadline = next_tick + D
    <3>1. n + 1 + k = n + 1
      BY <1>1, <2>2 DEF n
    <3>. QED
      BY <1>1, <1>4, <1>5, <1>6, <2>2, <3>1
  <2>. QED
    BY <1>2, <2>1, <2>2
<1>. QED
  BY <1>1, <1>3, <1>7, <1>8 DEF NeverAhead, DeadlineAccounts, Count

\* Every step keeps the types: the count of skipped ticks never falls below
\* zero.
LEMMA TickTypesKept ==
    ASSUME TickTypeOK, [TickNext]_tickVars
    PROVE  TickTypeOK'
<1>. D \in Nat \ {0} /\ Delays \subseteq Nat
  BY TickAssumption
<1>. USE DEF TickTypeOK
<1>1. CASE WaitForTick
  <2>1. TicksSkipped \in Nat /\ NextDeadline \in Nat
    BY <1>1, SkippedFit DEF WaitForTick
  <2>. QED
    BY <1>1, <2>1 DEF WaitForTick
<1>2. CASE RecordTickEnd
  BY <1>2 DEF RecordTickEnd
<1>3. CASE Pause
  BY <1>3 DEF Pause
<1>4. CASE Resume
  <2>1. now + D \in Nat
    OBVIOUS
  <2>. QED
    BY <1>4, <2>1 DEF Resume
<1>5. CASE Advance
  BY <1>5 DEF Advance
<1>6. CASE UNCHANGED tickVars
  BY <1>6 DEF tickVars
<1>. QED
  BY <1>1, <1>2, <1>3, <1>4, <1>5, <1>6 DEF TickNext

\* Ticks and time agree in every step: the invariant is inductive.
LEMMA TickInvKept ==
    ASSUME TickInv, [TickNext]_tickVars
    PROVE  TickInv'
<1>. D \in Nat \ {0} /\ Delays \subseteq Nat
  BY TickAssumption
<1>1. TickTypeOK'
  BY TickTypesKept DEF TickInv
<1>2. CASE WaitForTick
  BY <1>1, <1>2, FiringKeepsCount DEF TickInv
<1>3. CASE RecordTickEnd \/ Pause \/ UNCHANGED tickVars
  <2>1. UNCHANGED <<tick_count, total_skipped, next_tick, now>>
    BY <1>3 DEF RecordTickEnd, Pause, tickVars
  <2>. QED
    BY <1>1, <2>1 DEF TickInv, NeverAhead, DeadlineAccounts, Count
<1>4. CASE Resume
  <2>1. Count' = Count /\ Count \in Nat /\ now \in Nat
    BY <1>4 DEF Resume, TickInv, TickTypeOK, Count
  <2>2. Count * D <= now /\ now' = now /\ next_tick' = now + D
    BY <1>4 DEF Resume, TickInv, NeverAhead, Count
  <2>3. (Count + 1 + 0) * D = Count * D + D /\ Count * D \in Nat
    BY <2>1
  <2>4. (Count + 1) * D <= now + D
    BY <2>1, <2>2, <2>3
  <2>. QED
    BY <1>1, <2>1, <2>2, <2>4 DEF TickInv, NeverAhead, DeadlineAccounts, Count
<1>5. CASE Advance
  <2>1. /\ UNCHANGED <<tick_count, total_skipped, next_tick>>
        /\ now \in Nat /\ now' \in Nat /\ now <= now'
    BY <1>5 DEF Advance, TickInv, TickTypeOK
  <2>2. Count \in Nat /\ Count * D \in Nat /\ Count * D <= now
    BY DEF TickInv, TickTypeOK, NeverAhead, Count
  <2>3. Count * D <= now'
    BY <2>1, <2>2
  <2>. QED
    BY <1>1, <2>1, <2>3 DEF TickInv, NeverAhead, DeadlineAccounts, Count
<1>. QED
  BY <1>2, <1>3, <1>4, <1>5 DEF TickNext

\* A new scheduler is well typed, whatever its jitter.
LEMMA TickTypesStart == TickInit => TickTypeOK
<1>. SUFFICES ASSUME TickInit PROVE TickTypeOK
  OBVIOUS
<1>1. PICK jitter \in 0 .. Jitter : next_tick = D + jitter
  BY DEF TickInit
<1>2. next_tick \in Nat
  BY <1>1, TickAssumption
<1>. QED
  BY <1>2 DEF TickInit, TickTypeOK

\* Every variable of the scheduler keeps its type.
THEOREM TickTypeCorrect == TickSpec => []TickTypeOK
<1>1. TickTypeOK /\ [TickNext]_tickVars => TickTypeOK'
  BY TickTypesKept
<1>. QED
  BY <1>1, TickTypesStart, PTL DEF TickSpec

\* However late wait_for_tick wakes up, the ticks it counts as run or skipped
\* never exceed the tick durations that have passed.
THEOREM TicksCorrect == TickSpec => []NeverAhead
<1>. D \in Nat \ {0} /\ Jitter \in Nat
  BY TickAssumption
<1>1. TickInit => TickInv
  <2>. SUFFICES ASSUME TickInit PROVE TickInv
    OBVIOUS
  <2>1. PICK jitter \in 0 .. Jitter : next_tick = D + jitter
    BY DEF TickInit
  <2>2. now = 0 /\ Count = 0
    BY DEF TickInit, Count
  <2>3. TickTypeOK
    BY TickTypesStart
  <2>4. 0 * D = 0 /\ 1 * D = D
    OBVIOUS
  <2>. QED
    BY <2>1, <2>2, <2>3, <2>4
    DEF TickInv, NeverAhead, DeadlineAccounts, Count
<1>2. TickInv /\ [TickNext]_tickVars => TickInv'
  BY TickInvKept
<1>3. TickInv => NeverAhead
  BY DEF TickInv
<1>. QED
  BY <1>1, <1>2, <1>3, PTL DEF TickSpec

-----------------------------------------------------------------------------
\* The deadline after a tick is less than max_catchup tick durations in the
\* past, however late the tick was, for every cap, 0 included.
THEOREM DebtCorrect == TickSpec => DebtIsCapped
<1>. D \in Nat \ {0} /\ MaxCatchup \in Nat
  BY TickAssumption
<1>1. ASSUME TickTypeOK, [TickNext]_tickVars, Fires, policy = "CatchUp"
      PROVE  now < next_tick' + MaxCatchup * D
  <2>1. WaitForTick
    BY <1>1 DEF TickNext, RecordTickEnd, Pause, Resume, Advance, tickVars,
                Fires
  <2>2. /\ now \in Nat /\ next_tick \in Nat /\ now >= next_tick
        /\ next_tick' = NextDeadline
    BY <1>1, <2>1 DEF WaitForTick, TickTypeOK
  <2>3. LateBy \in Nat /\ now = next_tick + LateBy /\ MaxCatchup * D \in Nat
    BY <2>2 DEF LateBy
  <2>4. CASE Overrun /\ GivesUp
    BY <1>1, <2>2, <2>3, <2>4 DEF NextDeadline
  <2>5. CASE ~(Overrun /\ GivesUp)
    <3>1. next_tick' = next_tick + D
      BY <1>1, <2>2, <2>5 DEF NextDeadline
    <3>2. CASE ~Overrun
      <4>1. LateBy < D
        BY <2>3, <3>2 DEF Overrun
      <4>. QED
        BY <2>2, <2>3, <3>1, <4>1
    <3>3. CASE ~GivesUp
      <4>1. LateBy < (Behind + 1) * D /\ Behind \in Nat
        BY <2>3, PartialTick DEF Behind
      <4>2. Behind <= MaxCatchup
        BY <1>1, <3>3, <4>1 DEF GivesUp
      <4>3. (Behind + 1) * D <= (MaxCatchup + 1) * D
        BY <4>1, <4>2, Monotonic
      <4>4. (MaxCatchup + 1) * D = MaxCatchup * D + D
        OBVIOUS
      <4>5. (Behind + 1) * D \in Nat
        BY <4>1
      <4>. QED
        BY <2>2, <2>3, <3>1, <4>1, <4>3, <4>4, <4>5
    <3>. QED
      BY <2>5, <3>2, <3>3
  <2>. QED
    BY <2>4, <2>5
<1>2. TickInit => TickTypeOK
  BY TickTypesStart
<1>3. TickTypeOK /\ [TickNext]_tickVars => TickTypeOK'
  BY TickTypesKept
<1>4. TickTypeOK /\ [TickNext]_tickVars
        => [Fires /\ policy = "CatchUp"
              => now < next_tick' + MaxCatchup * D]_tickVars
  BY <1>1
<1>. QED
  BY <1>2, <1>3, <1>4, PTL DEF TickSpec, DebtIsCapped

-----------------------------------------------------------------------------
\* Integer division: a whole number that lies in the quotient's place is it.
LEMMA QuotientIs ==
    ASSUME NEW a \in Nat, NEW d \in Nat \ {0}, NEW k \in Nat,
           k * d <= a, a < (k + 1) * d
    PROVE  a \div d = k
<1>1. /\ a \div d \in Nat /\ (a \div d) * d <= a /\ a < (a \div d + 1) * d
  BY WholeTicksFit, PartialTick
<1>2. PICK q \in Nat : q = a \div d
  BY <1>1
<1>3. CASE q < k
  <2>1. (q + 1) * d <= k * d
    BY <1>2, <1>3, Monotonic
  <2>2. (q + 1) * d \in Nat /\ k * d \in Nat
    BY <1>2
  <2>. QED
    BY <1>1, <1>2, <2>1, <2>2
<1>4. CASE q > k
  <2>1. (k + 1) * d <= q * d
    BY <1>2, <1>4, Monotonic
  <2>2. (k + 1) * d \in Nat /\ q * d \in Nat
    BY <1>2
  <2>. QED
    BY <1>1, <1>2, <2>1, <2>2
<1>. QED
  BY <1>2, <1>3, <1>4

\* A tick more lasts one tick longer.
LEMMA OneMore ==
    ASSUME NEW k \in Nat, NEW d \in Nat
    PROVE  (k + 1) * d = k * d + d
  OBVIOUS

\* The ticks between two deadlines that are a delay and one tick apart.
LEMMA WholeTicksMore ==
    ASSUME NEW a \in Nat, NEW d \in Nat \ {0}
    PROVE  (a + d) \div d = a \div d + 1
<1>1. PICK k \in Nat : k = a \div d
  BY WholeTicksFit
<1>2. k * d <= a /\ a < (k + 1) * d
  BY <1>1, WholeTicksFit, PartialTick
<1>3. (k + 1) * d = k * d + d /\ (k + 1 + 1) * d = (k + 1) * d + d
  BY <1>1, OneMore
<1>4. (k + 1) * d <= a + d /\ a + d < (k + 1 + 1) * d
  <2>1. k * d \in Nat /\ (k + 1) * d \in Nat /\ (k + 1 + 1) * d \in Nat
    BY <1>1
  <2>. QED
    BY <1>2, <1>3, <2>1
<1>5. (a + d) \div d = k + 1
  <2>1. PICK b \in Nat, m \in Nat : b = a + d /\ m = k + 1
    <3>1. a + d \in Nat /\ k + 1 \in Nat
      OBVIOUS
    <3>. QED
      BY <3>1
  <2>2. b \div d = m
    BY <1>4, <2>1, QuotientIs
  <2>. QED
    BY <2>1, <2>2
<1>. QED
  BY <1>1, <1>5

\* A wake-up within the tolerance misses no tick.
LEMMA ToleranceMissesNone ==
    ASSUME LateBy \in Nat, ~Overrun
    PROVE  Behind = 0
<1>. D \in Nat \ {0}
  BY TickAssumption
<1>1. LateBy < D
  BY DEF Overrun
<1>2. 0 * D <= LateBy /\ LateBy < (0 + 1) * D
  BY <1>1
<1>. QED
  BY <1>2, QuotientIs DEF Behind

\* The ticks a schedule leaves out are reported, for every tick duration,
\* policy and delay, unless CatchUp gives up.
THEOREM SkipsCorrect == TickSpec => SkipsCounted
<1>. D \in Nat \ {0} /\ MaxCatchup \in Nat
  BY TickAssumption
<1>1. ASSUME TickTypeOK, [TickNext]_tickVars, Fires, ~GivesUp
      PROVE  Reported = Lost
  <2>1. WaitForTick
    BY <1>1 DEF TickNext, RecordTickEnd, Pause, Resume, Advance, tickVars, Fires
  <2>2. /\ now \in Nat /\ next_tick \in Nat /\ now >= next_tick /\ total_skipped \in Nat
        /\ next_tick' = NextDeadline /\ total_skipped' = total_skipped + TicksSkipped
    BY <1>1, <2>1 DEF WaitForTick, TickTypeOK
  <2>3. LateBy \in Nat /\ now = next_tick + LateBy
    BY <2>2 DEF LateBy
  <2>4. Behind \in Nat
    BY <2>3, WholeTicksFit DEF Behind
  <2>5. ~Overrun => Behind = 0
    BY <2>3, ToleranceMissesNone
  <2>6. CASE policy = "Skip"
    <3>1. next_tick' - next_tick = LateBy + D
      BY <2>2, <2>3, <2>6 DEF NextDeadline
    <3>2. (LateBy + D) \div D = Behind + 1
      BY <2>3, WholeTicksMore DEF Behind
    <3>3. Lost = Behind
      BY <2>4, <3>1, <3>2 DEF Lost
    <3>4. TicksSkipped = Behind
      BY <2>5, <2>6 DEF TicksSkipped
    <3>. QED
      BY <2>2, <2>4, <3>3, <3>4 DEF Reported
  <2>7. CASE policy # "Skip"
    <3>1. next_tick' - next_tick = D
      BY <1>1, <2>2, <2>7 DEF NextDeadline
    <3>2. D \div D = 1
      <4>1. 1 * D <= D /\ D < (1 + 1) * D
        OBVIOUS
      <4>. QED
        BY <4>1, QuotientIs
    <3>3. TicksSkipped = 0
      BY <1>1, <2>7 DEF TicksSkipped
    <3>. QED
      BY <2>2, <3>1, <3>2, <3>3 DEF Lost, Reported
  <2>. QED
    BY <2>6, <2>7
<1>2. TickInit => TickTypeOK
  BY TickTypesStart
<1>3. TickTypeOK /\ [TickNext]_tickVars => TickTypeOK'
  BY TickTypesKept
<1>4. TickTypeOK /\ [TickNext]_tickVars
        => [Fires /\ ~GivesUp => Reported = Lost]_tickVars
  BY <1>1
<1>. QED
  BY <1>2, <1>3, <1>4, PTL DEF TickSpec, SkipsCounted

-----------------------------------------------------------------------------
\* A deadline is at least a tick away from what the last calm moment was.
CalmAhead == TickTypeOK /\ calm_since + D <= next_tick

\* Ticks that come sooner are impossible: after creation, after a pause of
\* any length, and under Skip after any delay.
THEOREM BurstsCorrect == TickSpec => NoBurst
<1>. D \in Nat \ {0} /\ Delays \subseteq Nat
  BY TickAssumption
<1>1. TickInit => CalmAhead
  <2>. SUFFICES ASSUME TickInit PROVE calm_since + D <= next_tick
    BY TickTypesStart DEF CalmAhead
  <2>1. PICK jitter \in 0 .. Jitter : next_tick = D + jitter
    BY DEF TickInit
  <2>. QED
    BY <2>1, TickAssumption DEF TickInit
<1>2. CalmAhead /\ [TickNext]_tickVars => CalmAhead'
  <2>. SUFFICES ASSUME CalmAhead, [TickNext]_tickVars PROVE CalmAhead'
    OBVIOUS
  <2>1. TickTypeOK' /\ TickTypeOK
    BY TickTypesKept DEF CalmAhead
  <2>2. now \in Nat /\ next_tick \in Nat /\ calm_since \in Nat
    BY <2>1 DEF TickTypeOK
  <2>3. CASE WaitForTick
    <3>1. /\ now >= next_tick /\ next_tick' = NextDeadline
          /\ calm_since' = IF policy = "Skip" THEN now ELSE calm_since
      BY <2>3 DEF WaitForTick
    <3>. QED
      BY <2>1, <2>2, <3>1 DEF NextDeadline, CalmAhead
  <2>4. CASE Resume
    BY <2>1, <2>2, <2>4 DEF Resume, CalmAhead
  <2>5. CASE RecordTickEnd \/ Pause \/ Advance \/ UNCHANGED tickVars
    <3>1. UNCHANGED <<calm_since, next_tick>>
      BY <2>5 DEF RecordTickEnd, Pause, Advance, tickVars
    <3>. QED
      BY <2>1, <3>1 DEF CalmAhead
  <2>. QED
    BY <2>3, <2>4, <2>5 DEF TickNext
<1>3. CalmAhead /\ [TickNext]_tickVars
        => [Fires => now - calm_since >= D]_tickVars
  <2>. SUFFICES ASSUME CalmAhead, [TickNext]_tickVars, Fires
                PROVE  now - calm_since >= D
    OBVIOUS
  <2>1. WaitForTick
    BY DEF TickNext, RecordTickEnd, Pause, Resume, Advance, tickVars, Fires
  <2>2. now >= next_tick /\ calm_since + D <= next_tick
    BY <2>1 DEF WaitForTick, CalmAhead
  <2>. QED
    BY <2>2 DEF CalmAhead, TickTypeOK
<1>. QED
  BY <1>1, <1>2, <1>3, PTL DEF TickSpec, NoBurst
=============================================================================
