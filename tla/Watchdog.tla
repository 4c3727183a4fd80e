------------------------------ MODULE Watchdog ------------------------------
(***************************************************************************)
(* The watchdog task (tasks/watchdog/watchdog.c) with the two timers it    *)
(* feeds, the microcontroller's own and the chip on the WDI pin.  The      *)
(* command REBOOT and a failed start of the filesystem notify the task to  *)
(* freeze; the board is reset when a timer runs out.  Time is counted in   *)
(* units of the task's delay or less.                                      *)
(***************************************************************************)
EXTENDS Integers

CONSTANTS
    BuiltIn,       \* WATCHDOG_BUILT_IN_TIMEOUT_MS
    Pin,           \* the time the chip on the pin waits for a toggle
    Delay,         \* vTaskDelay(500)
    Lag            \* for how long a task that is ready waits for its turn

ASSUME WatchdogAssumption ==
    /\ {BuiltIn, Pin, Delay} \subseteq Nat \ {0} /\ Lag \in Nat
    /\ BuiltIn > Delay + 2 * Lag /\ Pin > Delay + 2 * Lag

VARIABLES
    wd_at,         \* "off", "loop", "delay" or "frozen"
    wait,          \* what is left of the delay
    late,          \* for how long the task has been ready
    notified,      \* the task's notification value is not 0
    built_in, pin, \* what is left of the two timers
    asked,         \* history: watchdog_freeze was called in this boot,
    since          \* and how long ago

watchdogVars == <<wd_at, wait, late, notified, built_in, pin, asked, since>>

WatchdogInit ==
    /\ wd_at = "off" /\ wait = 0 /\ late = 0 /\ notified = FALSE
    /\ built_in = BuiltIn /\ pin = Pin
    /\ asked = FALSE /\ since = 0

Ready == wd_at \in {"off", "loop"} \/ (wd_at = "delay" /\ wait = 0)

\* Also before the watchdog task has first run.
watchdog_freeze == notified' = TRUE

Freeze ==
    /\ watchdog_freeze
    /\ asked' = TRUE /\ since' = IF asked THEN since ELSE 0
    /\ UNCHANGED <<wd_at, wait, late, built_in, pin>>

X_StartWatchdog ==
    /\ wd_at = "off" /\ wd_at' = "loop" /\ late' = 0 /\ built_in' = BuiltIn /\ pin' = Pin
    /\ notified' = FALSE
    /\ UNCHANGED <<wait, asked, since>>

\* watchdog_enable, and the pin is set.
StartWatchdog ==
    /\ wd_at = "off" /\ wd_at' = "loop" /\ late' = 0
    /\ built_in' = BuiltIn /\ pin' = Pin
    /\ UNCHANGED <<wait, notified, asked, since>>

\* No notification: the pin is toggled.
Toggle ==
    /\ wd_at = "loop" /\ ~notified
    /\ wd_at' = "delay" /\ wait' = Delay /\ late' = 0
    /\ pin' = Pin
    /\ UNCHANGED <<notified, built_in, asked, since>>

\* ulTaskNotifyTake clears the value, and the task spins.
StopFeeding ==
    /\ wd_at = "loop" /\ notified
    /\ wd_at' = "frozen" /\ notified' = FALSE
    /\ UNCHANGED <<wait, late, built_in, pin, asked, since>>

\* watchdog_update, after the delay.
Feed ==
    /\ wd_at = "delay" /\ wait = 0
    /\ wd_at' = "loop" /\ late' = 0 /\ built_in' = BuiltIn
    /\ UNCHANGED <<wait, notified, pin, asked, since>>

Expired == built_in = 0 \/ pin = 0

Elapse ==
    /\ ~Expired /\ (Ready => late < Lag)
    /\ wait' = IF wait > 0 THEN wait - 1 ELSE 0
    /\ late' = IF Ready THEN late + 1 ELSE 0
    /\ built_in' = IF wd_at = "off" THEN built_in ELSE built_in - 1
    /\ pin' = pin - 1
    /\ since' = IF asked THEN since + 1 ELSE 0
    /\ UNCHANGED <<wd_at, notified, asked>>

BoardReset ==
    /\ Expired
    /\ wd_at' = "off" /\ wait' = 0 /\ late' = 0 /\ notified' = FALSE
    /\ built_in' = BuiltIn /\ pin' = Pin /\ asked' = FALSE /\ since' = 0

WatchdogNext ==
    \/ Freeze \/ StartWatchdog \/ Toggle \/ StopFeeding \/ Feed \/ Elapse \/ BoardReset

WatchdogSpec == WatchdogInit /\ [][WatchdogNext]_watchdogVars

\* ---------------------------------------------------------------- properties

\* A freeze is asked for: the reset comes within the delay and the timeout, also when
\* the request came before the task started or between its test and its delay.
ResetsSoon == asked => since <= Delay + Lag + BuiltIn

\* Nobody asked: no timer runs out.
NeverResetsIdle == ~asked => ~Expired

\* The board is reset when somebody asks for it, in time, and not otherwise
\* (watchdog.c:30-96).
ResetsWhenAsked == ResetsSoon /\ NeverResetsIdle
=============================================================================
