------------------------------- MODULE Metering -------------------------------
(***************************************************************************)
(* limits.ts and usage.ts: the month's compute of one account.  A computer's *)
(* object closes its AWAKE stretches and hands each to two ledgers, the      *)
(* account's usage_period (the one canWake reads) and the computer's         *)
(* usage_ledger, month by month and in the background; a write that fails    *)
(* ends its chain and is logged.  Time is counted in ticks.                  *)
(***************************************************************************)
EXTENDS Naturals, FiniteSets, FiniteSetsExt

CONSTANTS Computers, MonthLen, MaxTime, None,
          CapTicks,   \* computeSecondsCap in ticks, 0 for unlimited
          MaxLosses,  \* failed chains and restarts in a behaviour
          MaxChains   \* writes in flight at once

(* Months and times are counted in ticks, and computers can be counted. *)
TicksAreCounted == /\ IsFiniteSet(Computers) /\ None \notin Nat
                   /\ MonthLen \in Nat \ {0} /\ MaxTime \in Nat

VARIABLES now,
          since,   \* id -> meta.awakeSince, in memory
          stored,  \* id -> meta.awakeSince, as last persisted
          granted, \* ids whose wake passed canWake and is not AWAKE yet
          chains,  \* intervals being written: [table, c, from, to]
          period,  \* usage_period: month -> awakeMs
          ledger,  \* usage_ledger: id -> month -> awakeMs
          owed,    \* history: table -> id -> month -> the ticks it was AWAKE, and
                   \* those a restart charges twice, without those a failure dropped
          losses

vars == <<now, since, stored, granted, chains, period, ledger, owed, losses>>

currentPeriod(t) == t \div MonthLen
Months == 0..currentPeriod(MaxTime)
Tables == {"usage_period", "usage_ledger"}
None0 == [c \in Computers |-> [m \in Months |-> 0]]

(* Mutant: an interval is charged whole to the month it ends in. *)
sliceAtExit(from, to) == [month |-> currentPeriod(to), end |-> to]

(* splitUsagePeriods, one slice at a time: the rest of the interval's first month. *)
firstSlice(from, to) ==
  [month |-> currentPeriod(from), end |-> Min({to, (currentPeriod(from) + 1) * MonthLen})]

TicksIn(m, from, to) == Cardinality({t \in from..(to - 1) : currentPeriod(t) = m})

(* The sum of a function's values, counted out. *)
Total(f) == Cardinality(UNION {{x} \X (1..f[x]) : x \in DOMAIN f})
InChains(ws, m) == Total([w \in ws |-> TicksIn(m, w.from, w.to)])

Init == /\ now = 0 /\ since = [c \in Computers |-> None] /\ stored = since /\ granted = {}
        /\ chains = {} /\ period = [m \in Months |-> 0] /\ ledger = None0
        /\ owed = [t \in Tables |-> None0] /\ losses = 0

Tick == /\ now < MaxTime /\ now' = now + 1
        /\ owed' = [t \in Tables |-> [c \in Computers |->
                      IF since[c] = None THEN owed[t][c]
                      ELSE [owed[t][c] EXCEPT ![currentPeriod(now)] = @ + 1]]]
        /\ UNCHANGED <<since, stored, granted, chains, period, ledger, losses>>

(* A gate, not a kill switch: the ledger is read once, the wake comes later. *)
canWake == CapTicks = 0 \/ period[currentPeriod(now)] < CapTicks

grant(c) == /\ since[c] = None /\ canWake /\ granted' = granted \cup {c}
            /\ UNCHANGED <<now, since, stored, chains, period, ledger, owed, losses>>

awake(c) == /\ c \in granted /\ granted' = granted \ {c}
            /\ since' = [since EXCEPT ![c] = IF @ = None THEN now ELSE @]
            /\ stored' = [stored EXCEPT ![c] = since'[c]]
            /\ UNCHANGED <<now, chains, period, ledger, owed, losses>>

Closed(c) == {[table |-> t, c |-> c, from |-> since[c], to |-> now] : t \in Tables}

(* Mutant: the checkpoint of a computer that stays AWAKE does not restart its stretch. *)
checkpointKept(c, reopen) ==
  /\ since[c] # None /\ Cardinality(chains) + 2 <= MaxChains
  /\ chains' = IF now > since[c] THEN chains \cup Closed(c) ELSE chains
  /\ since' = [since EXCEPT ![c] = IF reopen THEN @ ELSE None]
  /\ UNCHANGED <<now, stored, granted, period, ledger, owed, losses>>

(* The stretch ends with AWAKE, or is checkpointed by an alarm; the object then
   persists its record, after whatever the handler awaits in between. *)
closeAwakeStretch(c, reopen) ==
  /\ since[c] # None /\ Cardinality(chains) + 2 <= MaxChains
  /\ chains' = IF now > since[c] THEN chains \cup Closed(c) ELSE chains
  /\ since' = [since EXCEPT ![c] = IF reopen THEN now ELSE None]
  /\ UNCHANGED <<now, stored, granted, period, ledger, owed, losses>>

persist(c) == /\ stored[c] # since[c] /\ stored' = [stored EXCEPT ![c] = since[c]]
              /\ UNCHANGED <<now, since, granted, chains, period, ledger, owed, losses>>

(* The object is evicted and read back: its background writes go with it, and the
   open stretch is whatever was persisted last. *)
restart(c) ==
  LET mine == {w \in chains : w.c = c}
      resumed == IF stored[c] = None THEN now ELSE stored[c]
      left == IF since[c] = None THEN now ELSE since[c] IN
  /\ losses < MaxLosses /\ losses' = losses + 1
  /\ since' = [since EXCEPT ![c] = stored[c]] /\ chains' = chains \ mine
  /\ owed' = [t \in Tables |-> [owed[t] EXCEPT ![c] = [m \in Months |->
                @[m] + TicksIn(m, resumed, left) - InChains({w \in mine : w.table = t}, m)]]]
  /\ UNCHANGED <<now, stored, granted, period, ledger>>

(* One upsert per slice, in the account's ledger and in the computer's. *)
accumulateUsage(w, s) ==
  w.table = "usage_period" /\ period' = [period EXCEPT ![s.month] = @ + s.end - w.from]
recordUsage(w, s) ==
  w.table = "usage_ledger" /\ ledger' = [ledger EXCEPT ![w.c][s.month] = @ + s.end - w.from]

upsert(w) ==
  LET s == firstSlice(w.from, w.to) IN
  /\ w \in chains
  /\ chains' = (chains \ {w}) \cup IF s.end = w.to THEN {} ELSE {[w EXCEPT !.from = s.end]}
  /\ \/ accumulateUsage(w, s) /\ UNCHANGED ledger
     \/ recordUsage(w, s) /\ UNCHANGED period
  /\ UNCHANGED <<now, since, stored, granted, owed, losses>>

(* A rejected write ends the chain; no transition waits for it or fails with it. *)
writeFails(w) ==
  /\ w \in chains /\ chains' = chains \ {w} /\ losses < MaxLosses /\ losses' = losses + 1
  /\ owed' = [owed EXCEPT ![w.table][w.c] = [m \in Months |-> @[m] - TicksIn(m, w.from, w.to)]]
  /\ UNCHANGED <<now, since, stored, granted, period, ledger>>

Next == \/ Tick
        \/ \E c \in Computers : \/ grant(c) \/ awake(c) \/ persist(c) \/ restart(c)
                                \/ \E reopen \in BOOLEAN : closeAwakeStretch(c, reopen)
        \/ \E w \in chains : upsert(w) \/ writeFails(w)

Spec == Init /\ [][Next]_vars

--------------------------------------------------------------------------------
TypeOK ==
  /\ now \in 0..MaxTime /\ granted \subseteq Computers /\ losses \in 0..MaxLosses
  /\ since \in [Computers -> 0..MaxTime \cup {None}]
  /\ stored \in [Computers -> 0..MaxTime \cup {None}]
  /\ \A w \in chains : w.table \in Tables /\ w.c \in Computers /\ w.from < w.to

Pending(t, c, m) ==
  InChains({w \in chains : w.table = t /\ w.c = c}, m)
Open(c, m) == IF since[c] = None THEN 0 ELSE TicksIn(m, since[c], now)

Settled(t, c, m) == owed[t][c][m] - (Open(c, m) + Pending(t, c, m))

(* Every AWAKE millisecond is in exactly one place, in the month it was spent: the
   open stretch, a write on its way, or the ledgers - whatever closes, checkpoints
   and month ends interleave.  Only a failed write drops one, and only a restart
   between a close and its persist charges one again. *)
Accounted ==
  \A m \in Months :
    /\ \A c \in Computers : /\ Settled("usage_period", c, m) \in Nat
                            /\ ledger[c][m] = Settled("usage_ledger", c, m)
    /\ period[m] = Total([c \in Computers |-> Settled("usage_period", c, m)])
================================================================================
