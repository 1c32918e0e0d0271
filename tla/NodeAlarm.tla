------------------------------ MODULE NodeAlarm ------------------------------
(***************************************************************************)
(* node/state.ts, node/namespace.ts and the revival in node/boot.ts: the     *)
(* one alarm of a Durable Object on a private instance.  The alarm is a row  *)
(* on disk and a timer in the process; firing it deletes the row before the  *)
(* handler runs, and a handler that throws is retried with backoff.          *)
(***************************************************************************)
EXTENDS Naturals, FiniteSets

CONSTANTS None,
          Retries,  \* the length of ALARM_RETRY_MS; every backoff is one tick
          MaxTime,  \* bound: the clock
          MaxSets   \* bound: alarms set

VARIABLES now,
          process,  \* the server runs
          live,     \* the object's instance is in the namespace's map
          row,      \* _alarm: the time on disk, or None
          timer,    \* the time the process's timer waits for, or None
          firing, failures,
          owed,     \* history: a deadline was set and no handler has served it
          excuse,   \* history: how the deadline owed may have gone
          sets

vars == <<now, process, live, row, timer, firing, failures, owed, excuse, sets>>

Init == /\ now = 0 /\ process = TRUE /\ live = FALSE /\ row = None /\ timer = None
        /\ firing = FALSE /\ failures = 0 /\ owed = FALSE /\ excuse = {} /\ sets = 0

--------------------------------------------------------------------------------
(* The first call for an object, or its revival at boot, creates the instance
   and arms what the disk holds (#entry, rearm). *)
entry == /\ process /\ ~live
         /\ live' = TRUE /\ timer' = row
         /\ UNCHANGED <<now, process, row, firing, failures, owed, excuse, sets>>

(* setAlarm, by a call or by the handler itself: the new time replaces the old. *)
setAlarm(at) == /\ live /\ sets < MaxSets
                /\ row' = at /\ timer' = at /\ sets' = sets + 1
                /\ owed' = TRUE /\ excuse' = {}
                /\ UNCHANGED <<now, process, live, firing, failures>>

deleteAlarm == /\ live /\ row # None
               /\ row' = None /\ timer' = None /\ owed' = FALSE /\ excuse' = {}
               /\ UNCHANGED <<now, process, live, firing, failures, sets>>

(* The timer runs out, or runAlarmNow: the row goes, then the handler runs.  A
   timer that runs out while a handler runs is spent, and the row stays. *)
fire == /\ live
        /\ \/ timer # None /\ timer <= now
           \/ row # None
        /\ timer' = None
        /\ IF firing
           THEN excuse' = excuse \cup {"skipped"} /\ UNCHANGED <<row, firing, owed>>
           ELSE row' = None /\ firing' = TRUE /\ owed' = FALSE /\ UNCHANGED excuse
        /\ UNCHANGED <<now, process, live, failures, sets>>

handlerReturns == /\ firing /\ firing' = FALSE /\ failures' = 0
                  /\ UNCHANGED <<now, process, live, row, timer, owed, excuse, sets>>

(* Mutant: the throw is caught and nothing is armed again. *)
swallow == UNCHANGED <<row, timer, excuse>>

(* The retry, unless the handler armed an earlier time or has failed too often. *)
retry ==
  LET at == now + 1
  IN IF failures + 1 > Retries
     THEN excuse' = excuse \cup {"gave up"} /\ UNCHANGED <<row, timer>>
     ELSE /\ UNCHANGED excuse
          /\ IF row = None \/ (row # None /\ row > at)
             THEN row' = at /\ timer' = at
             ELSE UNCHANGED <<row, timer>>

handlerThrows == /\ firing /\ failures <= Retries
                 /\ firing' = FALSE /\ failures' = failures + 1 /\ owed' = TRUE
                 /\ retry
                 /\ UNCHANGED <<now, process, live, sets>>

(* The process ends, with the timers and the handlers it ran. *)
crash == /\ process
         /\ process' = FALSE /\ live' = FALSE /\ timer' = None /\ failures' = 0
         /\ firing' = FALSE /\ owed' = (owed \/ firing)
         /\ excuse' = IF firing THEN excuse \cup {"crashed"} ELSE excuse
         /\ UNCHANGED <<now, row, sets>>

(* boot revives every computer of the fleet before it announces itself; an
   object whose storage cannot be read waits for its first call. *)
boot == /\ ~process
        /\ process' = TRUE
        /\ \/ live' = TRUE /\ timer' = row
           \/ UNCHANGED <<live, timer>>
        /\ UNCHANGED <<now, row, firing, failures, owed, excuse, sets>>

tick == /\ now < MaxTime /\ now' = now + 1
        /\ UNCHANGED <<process, live, row, timer, firing, failures, owed, excuse, sets>>

Next == \/ entry \/ deleteAlarm \/ fire \/ handlerReturns \/ handlerThrows \/ crash \/ boot \/ tick
        \/ \E at \in now..MaxTime : setAlarm(at)

Spec == Init /\ [][Next]_vars

--------------------------------------------------------------------------------
(* A deadline that was set and that no handler has served is on disk, and in a
   timer where the object lives, unless one of three things took it: a crash
   inside the handler, a timer that ran out while another handler ran, or
   more failures in a row than ALARM_RETRY_MS retries ("it must not vanish",
   node/state.ts #fire). *)
AlarmStands == owed /\ excuse = {} => row # None /\ (live => timer # None)
================================================================================
