----------------------------- MODULE SleepTimer -----------------------------
(***************************************************************************)
(* The sleep timer service (sl_sleeptimer.c) over a free-running counter   *)
(* with one compare channel (sl_sleeptimer_hal_sysrtc.c). Running timers   *)
(* are in a list; each one's delta is the time from the expiry of the one  *)
(* before it, the first one's the time since the last update of the list.  *)
(* The counter goes on while the code runs, and wraps around.              *)
(***************************************************************************)
EXTENDS Integers, Sequences, FiniteSets, SequencesExt

CONSTANTS
  Timers,
  Priority,    \* of each timer; the lowest number is the highest priority
  Requests,    \* how each timer may be started: its timeout, its period (0 for once) and
               \* the error of its conversion from milliseconds, in thousandths of a tick
  W,           \* the counter's range (2^32)
  MaxBusy,     \* bound: ticks that pass while the code or an interrupt is at work
  MaxStall,    \* bound: ticks between two readings of the counter in one section
  None

SLEEPTIMER_COMPARE_MIN_DIFF == 3

ASSUME ConstantsAssumption ==
  /\ Priority \in [Timers -> Nat]
  /\ W \in Nat /\ W > 2 * SLEEPTIMER_COMPARE_MIN_DIFF
  /\ \A t \in Timers : Requests[t] \subseteq
       {r \in [timeout : 1 .. W \div 2, period : 0 .. W \div 2, error : 0 .. 999] :
          r.period \in {0, r.timeout}}
  /\ MaxBusy \in Nat /\ MaxStall \in Nat /\ None \notin Timers

Task == "task"
Isr == "isr"
Contexts == {Task, Isr}

\* What a timer that does not run has in its handle is not looked at.
Unused == [period |-> 0, expected |-> 0, error |-> 0, sum |-> 0]

VARIABLES
  counter,    \* of the peripheral
  compare,    \* its compare register
  channel,    \* whether its compare channel is enabled
  enabled,    \* whether its compare interrupt is
  matched, overflowed,  \* its two interrupt flags
  list,       \* timer_head: running timers and their deltas
  last,       \* last_delta_update_count
  handle,     \* of each timer that runs or is being started: timeout_periodic,
              \* timeout_expected_tc, conversion_error and accumulated_error
  at, timer, timeout,  \* where each context is in a call, of which timer, for how long
  irq, local, ringing, \* where the interrupt handler is, its flags and its timer
  \* history: time until each timer's callback is due, ticks since something is under way
  due, busy

hardware == <<counter, compare, channel, enabled, matched, overflowed>>
calls == <<at, timer, timeout>>
handling == <<irq, local, ringing>>
vars == <<hardware, list, last, handle, calls, handling, due, busy>>

-----------------------------------------------------------------------------
(* The list of deltas.                                                     *)

Clip(n) == IF n > 0 THEN n ELSE 0
Wrap(n) == n % W

\* The timers of the list, and the time from the last update to a place in it.
Listed == {list[i].timer : i \in DOMAIN list}
Place(t) == CHOOSE i \in DOMAIN list : list[i].timer = t
Until(l, i) ==
  LET sum[n \in 0 .. Len(l)] == IF n = 0 THEN 0 ELSE sum[n - 1] + l[n].delta
  IN sum[i]

\* Bug: what has not expired keeps its delta.
UpdatedFirst(l, n) ==
  [i \in DOMAIN l |-> [l[i] EXCEPT !.delta = IF i = 1 THEN Clip(@ - n) ELSE @]]

\* update_delta_list(): n ticks have passed, which the first deltas use up.
Updated(l, n) ==
  [i \in DOMAIN l |->
     [l[i] EXCEPT !.delta = Clip(Until(l, i) - n) - Clip(Until(l, i - 1) - n)]]

\* The list now.
Since == Wrap(counter - last)
Now == Updated(list, Since)

\* delta_list_insert_timer(): behind all that expire before it or with it.
Behind(l, ticks) == Cardinality({i \in DOMAIN l : Until(l, i) <= ticks})

Inserted(l, t, ticks) ==
  LET n == Behind(l, ticks)
      delta == ticks - Until(l, n)
      later == [i \in DOMAIN l |-> IF i = n + 1 THEN [l[i] EXCEPT !.delta = @ - delta] ELSE l[i]]
  IN InsertAt(later, n + 1, [timer |-> t, delta |-> delta])

\* Bug: the next timer does not take over the delta.
RemovedOnly(l, i) == RemoveAt(l, i)

\* delta_list_remove_timer()
Removed(l, i) ==
  LET later == [j \in DOMAIN l |->
                  IF j = i + 1 THEN [l[j] EXCEPT !.delta = @ + l[i].delta] ELSE l[j]]
  IN RemoveAt(later, i)

\* The expired timers, and the place of the one that is processed first.
Expired(l) == {i \in DOMAIN l : Until(l, i) = 0}

\* Bug: the first of them.
FirstListed(l) == 1

FirstToRing(l) ==
  CHOOSE i \in Expired(l) : \A j \in Expired(l) :
    \/ Priority[l[i].timer] < Priority[l[j].timer]
    \/ Priority[l[i].timer] = Priority[l[j].timer] /\ i <= j

-----------------------------------------------------------------------------
(* The compare channel.                                                    *)

\* Bug: no margin.
NoMargin(value) == Wrap(value - 1)

\* What sleeptimer_hal_set_compare() writes: a margin if the time is near; the
\* modulus is the mask of the counter, and the channel matches a tick late.
Margined(value) ==
  LET near == Wrap(value - counter) < SLEEPTIMER_COMPARE_MIN_DIFF
      wanted == IF near THEN Wrap(counter + SLEEPTIMER_COMPARE_MIN_DIFF) ELSE value
  IN Wrap((wanted % (W - 1)) - 1)

\* The register is left alone when it is about to match.
MaySet ==
  \/ matched \/ compare = counter
  \/ Wrap(compare - counter) > SLEEPTIMER_COMPARE_MIN_DIFF

\* set_comparator_for_next_timer()
SetComparator ==
  /\ enabled' = TRUE
  /\ IF list[1].delta > 0
     THEN /\ compare' = IF MaySet THEN Margined(Wrap(last + list[1].delta)) ELSE compare
          /\ channel' = TRUE /\ UNCHANGED matched
     ELSE matched' = TRUE /\ UNCHANGED <<compare, channel>>

DisableComparator ==
  /\ enabled' = FALSE /\ channel' = FALSE
  /\ UNCHANGED <<compare, matched>>

-----------------------------------------------------------------------------
Init ==
  /\ counter = 0 /\ compare = 0 /\ channel = FALSE /\ enabled = FALSE
  /\ matched = FALSE /\ overflowed = FALSE
  /\ list = <<>> /\ last = 0
  /\ handle = [t \in Timers |-> Unused]
  /\ at = [c \in Contexts |-> "idle"] /\ timer = [c \in Contexts |-> None]
  /\ timeout = [c \in Contexts |-> 0]
  /\ irq = "none" /\ local = {} /\ ringing = None
  /\ due = [t \in Timers |-> 0] /\ busy = 0

\* Something is under way; the counter was read, and is about to be used.
Busy == at[Task] # "idle" \/ irq # "none" \/ overflowed \/ (matched /\ enabled)
InSection == "compare" \in {at[Task], at[Isr]} \/ irq \in {"set", "finish"}

\* Bound: a callback that is later than anything can be is no later than that.
Latest == 2 * W

\* The counter goes on. Nothing that is under way takes longer than the bounds.
Tick ==
  /\ Busy => busy < MaxBusy
  /\ InSection => Since < MaxStall
  /\ counter' = Wrap(counter + 1)
  /\ due' = [t \in Timers |->
               IF t \in Listed \cup {timer[Task], timer[Isr]} THEN due[t] - 1 ELSE due[t]]
  /\ matched' = (matched \/ (channel /\ counter = compare))
  /\ overflowed' = (overflowed \/ counter' = 0)
  /\ \A t \in Timers : due[t] > -Latest
  /\ UNCHANGED <<compare, channel, enabled, list, last, handle, calls, handling>>

-----------------------------------------------------------------------------
(* Calls, by a task or by a timer's callback. A task makes one at a time,  *)
(* a callback one. Nobody starts a timer that another is just starting.    *)

MayCall(c) ==
  /\ at[c] = "idle"
  /\ c = Task => irq = "none"
  /\ c = Isr => irq = "call"

MayGoOn(c) == c = Task => irq = "none"
Goes(c, place) == at' = [at EXCEPT ![c] = place]
Forget(t) == handle' = [handle EXCEPT ![t] = Unused] /\ due' = [due EXCEPT ![t] = 0]
Called(c) == irq' = IF c = Isr THEN "called" ELSE irq

\* Bug: a running timer is not refused.
StartAgain(c, t) ==
  /\ MayCall(c) /\ Called(c) /\ Goes(c, "insert")
  /\ t # timer[Task]
  /\ timer' = [timer EXCEPT ![c] = t]
  /\ timeout' = [timeout EXCEPT ![c] = 1]
  /\ due' = [due EXCEPT ![t] = 1]
  /\ UNCHANGED <<hardware, list, last, handle, local, ringing>>

\* start_timer() and start_periodic_timer(), with and without milliseconds: the
\* handle is written before interrupts are disabled. A timeout of 0 calls back at
\* once and changes nothing more.
Start(c, t) ==
  /\ MayCall(c) /\ Called(c) /\ Goes(c, "insert")
  /\ t \notin Listed \cup {timer[Task]}
  /\ timer' = [timer EXCEPT ![c] = t]
  /\ \E r \in Requests[t] :
       /\ timeout' = [timeout EXCEPT ![c] = r.timeout]
       /\ handle' = [handle EXCEPT ![t] =
            [period |-> r.period, error |-> r.error, sum |-> 0,
             expected |-> IF r.period = 0 THEN 0 ELSE Wrap(counter + r.period)]]
       /\ due' = [due EXCEPT ![t] = r.timeout]
  /\ UNCHANGED <<hardware, list, last, local, ringing>>

\* The two that count in ticks forget the error before they refuse a running timer.
StartRunning(c, t) ==
  /\ MayCall(c) /\ Called(c)
  /\ t \in Listed
  /\ handle' = [handle EXCEPT ![t].error = 0, ![t].sum = 0]
  /\ UNCHANGED <<hardware, list, last, calls, local, ringing, due>>

\* The rest of create_timer(), with interrupts disabled.
Insert(c) ==
  /\ at[c] = "insert" /\ MayGoOn(c)
  /\ last' = counter
  /\ list' = Inserted(Now, timer[c], timeout[c])
  /\ Goes(c, IF Head(list').timer = timer[c] THEN "compare" ELSE "idle")
  /\ timer' = [timer EXCEPT ![c] = None] /\ timeout' = [timeout EXCEPT ![c] = 0]
  /\ due' = IF handle[timer[c]].period = 0 THEN [due EXCEPT ![timer[c]] = timeout[c]] ELSE due
  /\ UNCHANGED <<hardware, handle, handling>>

Compare(c) ==
  /\ at[c] = "compare" /\ Goes(c, "idle")
  /\ SetComparator
  /\ UNCHANGED <<counter, overflowed, list, last, handle, timer, timeout, handling, due>>

\* sl_sleeptimer_stop_timer(): with interrupts disabled, too.
Stop(c, t) ==
  /\ MayCall(c) /\ Called(c)
  /\ last' = counter
  /\ list' = IF t \in Listed THEN Removed(Now, Place(t)) ELSE Now
  /\ Goes(c, IF t \in Listed /\ Place(t) = 1 /\ Len(list) > 1 THEN "compare" ELSE "idle")
  /\ IF Listed = {t} THEN DisableComparator
     ELSE UNCHANGED <<compare, channel, enabled, matched>>
  /\ IF t \in Listed THEN Forget(t) ELSE UNCHANGED <<handle, due>>
  /\ UNCHANGED <<counter, overflowed, timer, timeout, local, ringing>>

\* sl_sleeptimer_get_timer_time_remaining() brings the list up to date.
Query(c) ==
  /\ MayCall(c) /\ Called(c)
  /\ last' = counter /\ list' = Now
  /\ UNCHANGED <<hardware, handle, calls, local, ringing, due>>

Call(c) ==
  \/ \E t \in Timers : Start(c, t) \/ StartRunning(c, t) \/ Stop(c, t)
  \/ Insert(c) \/ Compare(c) \/ Query(c)

-----------------------------------------------------------------------------
(* SYSRTC_APP_IRQHandler() and process_timer_irq(). It is not interrupted  *)
(* by tasks, nor in a section of theirs.                                   *)

Irq(from, to) == irq = from /\ irq' = to

Interrupted ==
  /\ overflowed \/ (matched /\ enabled)
  /\ at[Task] # "compare"
  /\ local' = {f \in {"OF", "COMP"} : IF f = "OF" THEN overflowed ELSE matched}
  /\ Irq("none", IF overflowed THEN "overflow" ELSE "update")
  /\ overflowed' = FALSE /\ matched' = FALSE
  /\ UNCHANGED <<counter, compare, channel, enabled, list, last, handle, calls, ringing, due>>

\* The counter has wrapped around.
Overflow ==
  /\ irq = "overflow"
  /\ last' = counter /\ list' = Now
  /\ irq' = IF list # <<>> THEN "set" ELSE IF "COMP" \in local THEN "update" ELSE "none"
  /\ UNCHANGED <<hardware, handle, calls, local, ringing, due>>

OverflowSet ==
  /\ Irq("set", IF "COMP" \in local THEN "update" ELSE "none")
  /\ SetComparator
  /\ UNCHANGED <<counter, overflowed, list, last, handle, calls, local, ringing, due>>

\* The list is brought up to date when the handler begins and after each callback.
Update ==
  /\ irq \in {"update", "call", "called"} /\ at[Isr] = "idle"
  /\ last' = counter /\ list' = Now
  /\ irq' = IF Expired(list') # {} THEN "ring" ELSE "finish"
  /\ ringing' = None
  /\ UNCHANGED <<hardware, handle, calls, local, due>>

\* A timer that expires once is removed.
Ring ==
  /\ Irq("ring", "call")
  /\ LET i == FirstToRing(list)
     IN /\ handle[list[i].timer].period = 0
        /\ ringing' = list[i].timer
        /\ list' = Removed(list, i)
        /\ Forget(list[i].timer)
  /\ UNCHANGED <<hardware, last, calls, local>>

\* Bug: a periodic timer starts again from now.
NoCorrection(t) == 0

\* A periodic timer's lateness, a signed number.
Correction(t) ==
  LET late == Wrap(counter - handle[t].expected)
  IN IF late >= W \div 2 THEN late - W ELSE late

\* Later than a whole period: it stays at the head of the list, to be called again.
RingAgain ==
  /\ Irq("ring", "call")
  /\ LET t == list[FirstToRing(list)].timer
     IN /\ handle[t].period # 0 /\ Correction(t) > handle[t].period
        /\ ringing' = t
        /\ handle' = [handle EXCEPT ![t].expected = Wrap(@ + handle[t].period)]
        /\ due' = [due EXCEPT ![t] = @ + handle[t].period]
  /\ UNCHANGED <<hardware, list, last, calls, local>>

\* Otherwise it is inserted for the rest of its period, less a tick whenever the
\* errors of conversion add up to one.
RingPeriodic ==
  /\ Irq("ring", "call")
  /\ LET i == FirstToRing(list)
         t == list[i].timer
         sum == handle[t].sum + handle[t].error
         spare == IF sum >= 1000 THEN 1 ELSE 0
     IN /\ handle[t].period # 0 /\ Correction(t) <= handle[t].period
        /\ ringing' = t
        /\ list' = Inserted(Removed(list, i), t, Wrap(handle[t].period - Correction(t) - spare))
        /\ handle' = [handle EXCEPT ![t].expected = Wrap(@ - spare + handle[t].period),
                                    ![t].sum = sum - 1000 * spare]
        /\ due' = [due EXCEPT ![t] = @ - spare + handle[t].period]
  /\ UNCHANGED <<hardware, last, calls, local>>

Finish ==
  /\ Irq("finish", "none")
  /\ local' = {}
  /\ IF list # <<>> THEN SetComparator ELSE DisableComparator
  /\ UNCHANGED <<counter, overflowed, list, last, handle, calls, ringing, due>>

Handler ==
  Interrupted \/ Overflow \/ OverflowSet \/ Update \/ Ring \/ RingAgain \/ RingPeriodic
  \/ Finish

\* The bound's count: ticks since something has been under way without a pause.
CountBusy ==
  busy' = IF ~Busy' THEN 0 ELSE IF Busy /\ counter' # counter THEN busy + 1 ELSE busy

Next ==
  /\ Tick \/ Handler \/ \E c \in Contexts : Call(c)
  /\ CountBusy

Spec == Init /\ [][Next]_vars

-----------------------------------------------------------------------------
(* Properties.                                                             *)

Counts == 0 .. W - 1

\* Every variable has its type, and no timer is in the list twice.
TypeOK ==
  /\ counter \in Counts /\ compare \in Counts /\ last \in Counts
  /\ {channel, enabled, matched, overflowed} \subseteq BOOLEAN
  /\ list \in Seq([timer : Timers, delta : Counts])
  /\ \A i, j \in DOMAIN list : list[i].timer = list[j].timer => i = j
  /\ handle \in [Timers -> [period : Counts, expected : Counts, error : 0 .. 999,
                             sum : 0 .. 999]]
  /\ at \in [Contexts -> {"idle", "insert", "compare"}]
  /\ timer \in [Contexts -> Timers \cup {None}]
  /\ timeout \in [Contexts -> Counts]
  /\ irq \in {"none", "overflow", "set", "update", "ring", "call", "called", "finish"}
  /\ local \subseteq {"OF", "COMP"} /\ ringing \in Timers \cup {None}
  /\ due \in [Timers -> Int] /\ busy \in 0 .. MaxBusy

\* However timers are started and stopped in between, the deltas up to a timer are
\* the time that is left until it expires, from the last update on, and 0 if it was
\* over by then.
DeltasTellTime ==
  \A t \in Listed : handle[t].period = 0 => Until(list, Place(t)) = Clip(due[t] + Since)

\* Whenever the code is done and a timer runs, the peripheral will interrupt when the
\* first one expires, or after the margin, and not a wrap of the counter later.
AlarmIsSet ==
  ~Busy /\ list # <<>> =>
    /\ enabled /\ channel
    /\ Wrap(compare + 1 - counter) <=
         Clip(list[1].delta - Since) + SLEEPTIMER_COMPARE_MIN_DIFF + 1

\* No callback is later than the margin and the time that starting it and handling
\* interrupts took.
NeverLate ==
  \A t \in Listed : due[t] >= -(SLEEPTIMER_COMPARE_MIN_DIFF + 1 + 2 * MaxBusy)

Rings == irq = "ring" /\ irq' = "call"

\* A timer that expires once calls back when its time is over; a periodic timer at
\* most as early as the handler itself took, and never accumulates this.
NeverEarly ==
  [][Rings => due[ringing'] <= IF handle[ringing'].period = 0 THEN 0 ELSE MaxBusy]_vars

\* Of the timers that are known to be over, one of the highest priority calls back.
UrgentFirst ==
  [][Rings => \A t \in Listed :
       handle[t].period = 0 /\ due[t] + Since <= 0 => Priority[ringing'] <= Priority[t]]_vars
=============================================================================
