----------------------------- MODULE Scheduler -----------------------------
(***************************************************************************)
(* The sync scheduler (controlplane/scheduler/scheduler.go): the registry  *)
(* of cron schedules, the loop that fires the due ones, and NextCronTime.  *)
(*                                                                         *)
(* Time is counted in ticks of the loop (30 seconds); two make a minute.   *)
(* The lengths of hours, days, months and weeks are constants, so that a   *)
(* short behaviour crosses all of them.  A time zone is an offset from UTC *)
(* and one period in which its clocks are put forward.                     *)
(***************************************************************************)
EXTENDS Integers, Sequences, FiniteSets, FiniteSetsExt

CONSTANTS SchSyncs,        \* ids of syncs
          SchCrons,        \* cron expressions: five fields, each a set of parts
          SchZones,        \* the time zones that schedules name
          SchLocal,        \* the time zone of the server
          SchRows,         \* rows of the repository: <<sync, cron, active>>
          MinutesPerHour, HoursPerDay, DaysPerMonth, MonthsPerYear, DaysPerWeek,
          SchMaxTick,      \* bound: clock
          SchMaxCalls      \* bound: calls of ScheduleSync

ASSUME SchedulerAssumption ==
    /\ {MinutesPerHour, HoursPerDay, DaysPerMonth, MonthsPerYear, DaysPerWeek}
          \subseteq Nat \ {0}
    /\ SchMaxTick \in Nat /\ SchMaxCalls \in Nat
    /\ \A r \in SchRows : r[1] \in SchSyncs

\* A zone: its clocks are offset minutes from UTC, and shift more from minute from to
\* minute until.  They change on the hour, by an hour, for longer than the offset.
Zones ==
    [offset : Int, shift : {0, MinutesPerHour}, from : Int, until : Nat]

ASSUME ZonesAssumption ==
    \A z \in SchZones \union {SchLocal} :
        /\ z \in Zones
        /\ z.shift > 0 =>
              /\ (z.from + z.offset) % MinutesPerHour = 0
              /\ (z.until + z.offset) % MinutesPerHour = 0
              /\ z.until >= z.from + 2 * MinutesPerHour /\ z.until > z.from + z.offset

VARIABLES schClock,    \* ticks
          schTicker,   \* the ticker's channel, of capacity one: a time, or NoTime
          schEntries,  \* schedules: of a sync its expression, zone, next and last run, and,
                       \* as history, the zone its next run was searched in, the slot of
                       \* the last run and the last look at it
          schLoop,     \* Start: "new", "loading", "running", "returned"
          schStopped,  \* stopped
          schCall,     \* the call of ScheduleSync before its lock, or NoCall
          schCalls     \* calls of ScheduleSync

schVars == <<schClock, schTicker, schEntries, schLoop, schStopped, schCall, schCalls>>

NoTime == -1
UTC == [offset |-> 0, shift |-> 0, from |-> 0, until |-> 0]
NoCall == [sync |-> "", cron |-> <<>>, zone |-> UTC, next |-> NoTime, since |-> NoTime]

SchedulerInit ==
    /\ schClock = 0 /\ schTicker = NoTime
    /\ schEntries = <<>>
    /\ schLoop = "new" /\ schStopped = FALSE
    /\ schCall = NoCall /\ schCalls = 0

-----------------------------------------------------------------------------
(* Cron expressions.                                                        *)

\* A part is [lo, hi, step]: a value when lo = hi, the wildcard when it spans the
\* range of the field; a bad part makes the expression invalid.
parsePart(part, min, max) ==
    IF part.step <= 0 \/ part.lo < min \/ part.hi > max \/ part.lo > part.hi
      THEN {NoTime}
      ELSE {v \in part.lo..part.hi : (v - part.lo) % part.step = 0}

parseSingleField(field, min, max) == UNION {parsePart(p, min, max) : p \in field}

\* minute, hour, day of month, month, day of week
parseCronExpr(expr) ==
    <<parseSingleField(expr[1], 0, MinutesPerHour - 1),
      parseSingleField(expr[2], 0, HoursPerDay - 1),
      parseSingleField(expr[3], 1, DaysPerMonth),
      parseSingleField(expr[4], 1, MonthsPerYear),
      parseSingleField(expr[5], 0, DaysPerWeek - 1)>>

\* The calendar, of a wall clock in minutes.
DayLength == MinutesPerHour * HoursPerDay
MonthLength == DayLength * DaysPerMonth
Minute(w) == w % MinutesPerHour
Hour(w) == (w \div MinutesPerHour) % HoursPerDay
Day(w) == 1 + ((w \div DayLength) % DaysPerMonth)
Month(w) == 1 + ((w \div MonthLength) % MonthsPerYear)
Weekday(w) == (w \div DayLength) % DaysPerWeek

\* What the clocks of a zone show at minute m; and time.Date, the minute at which they
\* show w.  It looks up the offset at minute w, and again at the minute this gives.
Offset(zone, m) ==
    zone.offset + IF zone.from <= m /\ m < zone.until THEN zone.shift ELSE 0
Wall(zone, m) == m + Offset(zone, m)
Date(zone, w) == w - Offset(zone, w - Offset(zone, w))

DayMatches(f, w) == Day(w) \in f[3] /\ Weekday(w) \in f[5]
CronMatches(f, w) == /\ Month(w) \in f[4] /\ DayMatches(f, w)
                     /\ Hour(w) \in f[2] /\ Minute(w) \in f[1]

\* The unit the search skips when the clocks show w, and its next beginning.
Unmatched(f, w) ==
    IF Month(w) \notin f[4] THEN MonthLength
    ELSE IF ~DayMatches(f, w) THEN DayLength ELSE MinutesPerHour
Beginning(w, length) == (w \div length + 1) * length

\* Where the search goes on when minute m does not match.
NextCandidate(zone, f, m) ==
    LET w == Wall(zone, m) IN
    IF Month(w) \in f[4] /\ DayMatches(f, w) /\ Hour(w) \in f[2]
      THEN m + 1
      ELSE Date(zone, Beginning(w, Unmatched(f, w)))

\* The search ends after a number of steps that spans every combination of the
\* fields: an error, here NoTime.  Where the clocks go forward, Date may answer with
\* the unit that was to be skipped: the search then stays there until it ends.
CronHorizon(zone) == SchMaxTick + zone.until + MonthLength * MonthsPerYear * DaysPerWeek

CronSearch(zone, f) ==
    LET search[m \in 0..CronHorizon(zone)] ==
            LET next == NextCandidate(zone, f, m) IN
            IF CronMatches(f, Wall(zone, m)) THEN 2 * m
            ELSE IF next <= m \/ next > CronHorizon(zone) THEN NoTime
            ELSE search[next] IN
    search

IsValid(f) == \A n \in 1..5 : NoTime \notin f[n]

NextCronTimeAtOrAfter(expr, zone, after) ==
    LET f == parseCronExpr(expr) IN
    IF IsValid(f) THEN CronSearch(zone, f)[after \div 2] ELSE NoTime

NextCronTime(expr, zone, after) ==
    LET f == parseCronExpr(expr) IN
    IF IsValid(f) THEN CronSearch(zone, f)[after \div 2 + 1] ELSE NoTime

-----------------------------------------------------------------------------
(* The registry.                                                            *)

Entry(cron, zone, searched, next, since) ==
    [cron |-> cron, zone |-> zone, searched |-> searched, next |-> next, since |-> since,
     last |-> NoTime, slot |-> NoTime, failing |-> FALSE, seen |-> NoTime]

\* ScheduleSync up to the lock: the next run is computed in the zone of the schedule;
\* an invalid expression is refused, and one whose search fails.
ScheduleSyncComputes(s, cron, zone) ==
    /\ schCall = NoCall /\ schCalls < SchMaxCalls
    /\ schCalls' = schCalls + 1
    /\ LET next == NextCronTime(cron, zone, schClock) IN
       schCall' = IF next = NoTime THEN NoCall
                  ELSE [sync |-> s, cron |-> cron, zone |-> zone, next |-> next,
                        since |-> schClock]
    /\ UNCHANGED <<schClock, schTicker, schEntries, schLoop, schStopped>>

\* Under the lock: the entry is made, or its schedule replaced.
ScheduleSync ==
    /\ schCall # NoCall
    /\ schEntries' = [s \in DOMAIN schEntries \union {schCall.sync} |->
          IF s = schCall.sync
            THEN Entry(schCall.cron, schCall.zone, schCall.zone, schCall.next, schCall.since)
            ELSE schEntries[s]]
    /\ schCall' = NoCall
    /\ UNCHANGED <<schClock, schTicker, schLoop, schStopped, schCalls>>

UnscheduleSync(s) ==
    /\ s \in DOMAIN schEntries
    /\ schEntries' = [q \in DOMAIN schEntries \ {s} |-> schEntries[q]]
    /\ UNCHANGED <<schClock, schTicker, schLoop, schStopped, schCall, schCalls>>

-----------------------------------------------------------------------------
(* Start.                                                                   *)

\* GetScheduledSyncs answers; its error is only logged.
SchedulerStart ==
    /\ schLoop = "new"
    /\ schLoop' \in {"loading", "running"}
    /\ UNCHANGED <<schClock, schTicker, schEntries, schStopped, schCall, schCalls>>

\* The active rows with a valid expression replace the entries of their syncs,
\* also one that ScheduleSync made after the rows were read.  The search is in the
\* server's zone; the entry names none, so that the later ones are in UTC.
loadFromRepo ==
    /\ schLoop = "loading"
    /\ LET rows == {r \in SchRows : r[3] /\ NextCronTime(r[2], SchLocal, schClock) # NoTime} IN
       schEntries' = [s \in DOMAIN schEntries \union {r[1] : r \in rows} |->
          IF \E r \in rows : r[1] = s
            THEN LET r == CHOOSE q \in rows : q[1] = s IN
                 Entry(r[2], UTC, SchLocal, NextCronTime(r[2], SchLocal, schClock), schClock)
            ELSE schEntries[s]]
    /\ schLoop' = "running"
    /\ UNCHANGED <<schClock, schTicker, schStopped, schCall, schCalls>>

\* The ticker drops a tick that finds its channel full.
SchTick ==
    /\ schClock < SchMaxTick
    /\ schClock' = schClock + 1
    /\ schTicker' = IF schLoop = "running" /\ schTicker = NoTime THEN schClock + 1
                                                                 ELSE schTicker
    /\ UNCHANGED <<schEntries, schLoop, schStopped, schCall, schCalls>>

Due(now) == {s \in DOMAIN schEntries : schEntries[s].next <= now}

\* The due syncs are started, under the lock.  One that fails to start stays due, and
\* one whose next run is not found.
fireDueSyncs ==
    /\ schLoop = "running" /\ schTicker # NoTime
    /\ \E failed \in SUBSET Due(schTicker) :
         /\ schEntries' = [s \in DOMAIN schEntries |->
               LET e == schEntries[s]
                   next == NextCronTime(e.cron, e.zone, schTicker) IN
               IF s \in failed THEN [e EXCEPT !.failing = TRUE, !.seen = schTicker]
               ELSE IF s \notin Due(schTicker) THEN [e EXCEPT !.seen = schTicker]
               ELSE [e EXCEPT !.failing = FALSE, !.seen = schTicker, !.last = schTicker,
                              !.slot = e.next, !.searched = e.zone,
                              !.next = IF next = NoTime THEN @ ELSE next]]
    /\ schTicker' = NoTime
    /\ UNCHANGED <<schClock, schLoop, schStopped, schCall, schCalls>>

SchedulerStop ==
    /\ ~schStopped
    /\ schStopped' = TRUE
    /\ UNCHANGED <<schClock, schTicker, schEntries, schLoop, schCall, schCalls>>

\* The select of the loop may also take a tick that is there as well.
SchedulerReturns ==
    /\ schLoop = "running" /\ schStopped
    /\ schLoop' = "returned"
    /\ UNCHANGED <<schClock, schTicker, schEntries, schStopped, schCall, schCalls>>

SchedulerNext ==
    \/ \E s \in SchSyncs, cron \in SchCrons, zone \in SchZones :
          ScheduleSyncComputes(s, cron, zone)
    \/ ScheduleSync
    \/ \E s \in SchSyncs : UnscheduleSync(s)
    \/ SchedulerStart \/ loadFromRepo \/ SchTick \/ fireDueSyncs
    \/ SchedulerStop \/ SchedulerReturns

SchedulerSpec == SchedulerInit /\ [][SchedulerNext]_schVars

-----------------------------------------------------------------------------
SchedulerTypeOK ==
    /\ schClock \in 0..SchMaxTick /\ schTicker \in {NoTime} \union (1..SchMaxTick)
    /\ schLoop \in {"new", "loading", "running", "returned"}
    /\ DOMAIN schEntries \subseteq SchSyncs
    /\ \A s \in DOMAIN schEntries :
          schEntries[s].next \in 0..(2 * CronHorizon(schEntries[s].searched))
    /\ schCalls \in 0..SchMaxCalls

\* The minutes a schedule names, without the search.  Of a minute that the clocks show
\* twice, as they go back, it is the second one.
ShownAgain(zone, m) == zone.until - zone.shift <= m /\ m < zone.until

Slots(cron, zone, from, to) ==
    {2 * m : m \in {k \in 0..SchMaxTick : /\ from < 2 * k /\ 2 * k <= to /\ ~ShownAgain(zone, k)
                                          /\ CronMatches(parseCronExpr(cron), Wall(zone, k))}}

\* No minute an expression names is skipped by the search for the next one or by
\* the loop: when the loop has looked at an entry past such a minute, the sync has
\* been started since, or the last attempt to start it failed.
NoSlotSkipped ==
    \A s \in DOMAIN schEntries :
        LET e == schEntries[s] IN
        \A m \in Slots(e.cron, e.searched, e.since, e.seen) : e.failing \/ e.last >= m

\* The clocks of a zone west of UTC have still to go forward: the one case in which a
\* search for an expression that names a minute fails (scheduler.go:429).
GapAhead(zone, t) == zone.offset < 0 /\ zone.shift > 0 /\ t < 2 * zone.from

\* A schedule is started at most once for each minute its expression names, not
\* before that minute, and no such minute is passed over, whatever ticks come late,
\* are dropped or find the start failing; only when the search after a start failed,
\* for clocks that go forward, is it started again for the same minute, at every
\* tick.  The minutes are of the zone of the search, for a row of the repository first
\* the server's and then UTC.  (A schedule replaced while it fires starts afresh:
\* scheduler.go:141 computes the next run before it takes the lock.)
OncePerSlot ==
    /\ []NoSlotSkipped
    /\ [][\A s \in DOMAIN schEntries \intersect DOMAIN schEntries' :
          LET e == schEntries[s] IN
          schEntries'[s].last \notin {e.last, NoTime} =>
              /\ \/ schEntries'[s].slot > e.slot
                 \/ schEntries'[s].slot = e.slot /\ GapAhead(e.searched, e.last)
              /\ schEntries'[s].slot <= schEntries'[s].last]_schVars
=============================================================================
