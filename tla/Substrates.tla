------------------------------ MODULE Substrates ------------------------------
(***************************************************************************)
(* substrates/index.ts and node/substrate.ts: the registry of drivers, the *)
(* choice of one by price, capacity and latency, and the routing of a       *)
(* handle's calls to the driver that owns it.  A driver is constructed once *)
(* and its promise kept, settled or rejected.  The drivers share nothing,   *)
(* so a behaviour follows one of them.                                      *)
(***************************************************************************)
EXTENDS Naturals, Sequences, FiniteSetsExt

CONSTANTS MaxPolls, HasTtl, MaxGen, MaxAttempts, MaxFrames, MaxIssued,
          Tables,    \* profile tables: candidate -> [usdPerHour, capacity, wakeLatencyMs]
          Weights,   \* weightings: [price, capacity, latency]
          Candidates \* the candidates, in the caller's order of preference

ASSUME BoundAssumption == {MaxPolls, MaxGen, MaxAttempts, MaxFrames, MaxIssued} \subseteq Nat
                          /\ HasTtl \in BOOLEAN

Profile == [usdPerHour : Nat, capacity : Nat, wakeLatencyMs : Nat]

(* Some candidate has a profile: without one selectSubstrate throws. *)
ASSUME TableAssumption ==
  /\ Len(Candidates) \in Nat /\ DOMAIN Candidates = 1..Len(Candidates)
  /\ \A t \in Tables : /\ DOMAIN t # {} /\ DOMAIN t \subseteq {Candidates[i] : i \in DOMAIN Candidates}
                       /\ \A c \in DOMAIN t : t[c] \in Profile
ASSUME WeightAssumption == \A w \in Weights : {w.price, w.capacity, w.latency} \subseteq Nat

VARIABLES kind,    \* handle.substrate, or "select" for a choice being made
          driver,  \* the constructed driver: "none", "ready" or "rejected"
          asked,   \* the inputs of a choice
          seen,    \* history: what the resource was since the call began
          inst, mem, op, at, out

drv == <<inst, mem, op, at, out>>
vars == <<kind, driver, asked, seen, drv>>

Docker == INSTANCE DockerDriver
Sprites == INSTANCE SpritesDriver
Cloudflare == INSTANCE CloudflareDriver
Box == INSTANCE BoxDriver
Fake == INSTANCE FakeDriver

SUBSTRATE_NAMES == {"docker", "sprites", "cloudflare", "box", "fake"}

--------------------------------------------------------------------------------
(* selectSubstrate: each factor is normalised between the worst and the best of
   the candidates with a profile, weighted and summed; the first best wins.  The
   fractions are compared over a common denominator. *)
known(t) == {i \in DOMAIN Candidates : Candidates[i] \in DOMAIN t}

spread(t, f) == LET all == {t[c][f] : c \in DOMAIN t}
                IN IF Cardinality(all) = 1 THEN 1 ELSE Max(all) - Min(all)
(* Mutant: the factor's sense is turned round. *)
lowerIsWorse(t, c, f) ==
  LET all == {t[d][f] : d \in DOMAIN t}
  IN IF Cardinality(all) = 1 THEN 1 ELSE t[c][f] - Min(all)
lowerIsBetter(t, c, f) ==
  LET all == {t[d][f] : d \in DOMAIN t}
  IN IF Cardinality(all) = 1 THEN 1 ELSE Max(all) - t[c][f]
higherIsBetter(t, c, f) ==
  LET all == {t[d][f] : d \in DOMAIN t}
  IN IF Cardinality(all) = 1 THEN 1 ELSE t[c][f] - Min(all)

score(t, w, c) ==
  LET p == spread(t, "usdPerHour")  k == spread(t, "capacity")
      l == spread(t, "wakeLatencyMs")
  IN w.price * lowerIsBetter(t, c, "usdPerHour") * k * l
     + w.capacity * higherIsBetter(t, c, "capacity") * p * l
     + w.latency * lowerIsBetter(t, c, "wakeLatencyMs") * p * k

best(t, w, i) == /\ i \in known(t)
                 /\ \A j \in known(t) : /\ score(t, w, Candidates[j]) <= score(t, w, Candidates[i])
                                        /\ j < i => score(t, w, Candidates[j]) < score(t, w, Candidates[i])

selectSubstrate(t, w) == Candidates[CHOOSE i \in DOMAIN Candidates : best(t, w, i)]

--------------------------------------------------------------------------------
Init == /\ seen = {}
        /\ \/ /\ kind = "select" /\ driver = "none"
              /\ asked \in [table : Tables, weights : Weights]
              /\ inst = "none" /\ mem = <<>> /\ op = "idle" /\ at = "-" /\ out = "none"
           \/ /\ asked = <<>> /\ driver = "none"
              /\ \/ kind = "docker" /\ Docker!Init
                 \/ kind = "sprites" /\ Sprites!Init
                 \/ kind = "cloudflare" /\ Cloudflare!Init
                 \/ kind = "box" /\ Box!Init
                 \/ kind = "fake" /\ Fake!Init

(* The first use constructs the driver.  Docker's import or daemon socket may
   refuse, and sprites may have no token; what is kept is kept for good. *)
construct == /\ kind \in SUBSTRATE_NAMES /\ driver = "none"
             /\ driver' \in IF kind \in {"docker", "sprites"} THEN {"ready", "rejected"}
                            ELSE {"ready"}
             /\ UNCHANGED <<kind, asked, seen, drv>>

(* With no driver every call is refused, and the liveness probe does not know. *)
refuse == /\ driver = "rejected" /\ UNCHANGED <<kind, driver, asked, seen, inst, mem, op, at>>
          /\ out' \in {"error", "unknown"}

Resource == CASE kind = "docker" -> Docker!Resource
              [] kind = "sprites" -> Sprites!Resource
              [] kind = "cloudflare" -> Cloudflare!Resource
              [] kind = "box" -> Box!Resource
              [] kind = "fake" -> Fake!Resource
              [] OTHER -> "gone"

DriverNext == \/ kind = "docker" /\ Docker!Next
              \/ kind = "sprites" /\ Sprites!Next
              \/ kind = "cloudflare" /\ Cloudflare!Next
              \/ kind = "box" /\ Box!Next
              \/ kind = "fake" /\ Fake!Next

DriverStep == \/ kind = "docker" /\ Docker!Step
              \/ kind = "sprites" /\ Sprites!Step
              \/ kind = "cloudflare" /\ Cloudflare!Step
              \/ kind = "box" /\ Box!Step
              \/ kind = "fake" /\ Fake!Step

(* One routed step, and what the call has seen of the resource. *)
Observe == /\ UNCHANGED <<kind, driver, asked>>
           /\ seen' = IF op' = "idle" THEN {} ELSE seen \cup {Resource'}

route == driver = "ready" /\ DriverNext /\ Observe

Next == construct \/ refuse \/ route

Spec == Init /\ [][Next]_vars

(* A driver's own steps are awaited promises and bounded waits: each is taken.
   The caller and the platform owe nothing. *)
FairSpec == Spec /\ WF_vars(driver = "ready" /\ DriverStep /\ Observe)

TypeOK ==
  /\ kind \in SUBSTRATE_NAMES \cup {"select"} /\ driver \in {"none", "ready", "rejected"}
  /\ out \in {"none", "ok", "error", "alive", "gone", "unknown"}
  /\ kind = "docker" => Docker!TypeOK
  /\ kind = "sprites" => Sprites!TypeOK
  /\ kind = "cloudflare" => Cloudflare!TypeOK
  /\ kind = "box" => Box!TypeOK
  /\ kind = "fake" => Fake!TypeOK

--------------------------------------------------------------------------------
(* A candidate is never chosen when another is at least as good by every factor
   and better by one that has weight. *)
NotDominated ==
  kind = "select" =>
    LET t == asked.table  w == asked.weights  s == selectSubstrate(t, w)
        noWorse(c) == /\ t[c].usdPerHour <= t[s].usdPerHour
                      /\ t[c].capacity >= t[s].capacity
                      /\ t[c].wakeLatencyMs <= t[s].wakeLatencyMs
        better(c) == \/ w.price > 0 /\ t[c].usdPerHour < t[s].usdPerHour
                     \/ w.capacity > 0 /\ t[c].capacity > t[s].capacity
                     \/ w.latency > 0 /\ t[c].wakeLatencyMs < t[s].wakeLatencyMs
    IN ~ \E c \in DOMAIN t : noWorse(c) /\ better(c)

(* Every driver implements the provider's contract: a call that resolves has seen
   the state it promises -- a destroy no resource, a sleep a kept disk, a wake a
   supervisor -- no probe says gone of what exists, and nothing gone comes back
   between calls.  A Cloudflare destroy that outlasted its budget is excused. *)
Contract ==
  INSTANCE SubstrateProvider
    WITH warms <- kind # "cloudflare", suspends <- kind \in {"sprites", "fake"},
         resource <- Resource,
         out <- IF driver = "rejected" THEN "none" ELSE out,
         excused <- kind = "cloudflare" /\ mem.late
PromiseKept == Contract!Spec

(* box.ts, materialize: a box whose supervisor never started must not be left
   billing, whatever failed on the way and as far as the platform serves a stop. *)
NotLeftBilling == [][kind = "box" => Box!StopsWhatFailed]_vars

(* cloudflare.ts, materialize: what runs once it resolved is the generation it was
   asked for, unless the destroy of the previous one outlasted its budget. *)
NewGeneration == [][(kind = "cloudflare" /\ ~mem.late) => Cloudflare!StartsTheNew]_vars

(* The same with no exception: "it is destroyed first", so two writable copies of
   one computer do not exist (cloudflare.ts:342-343). *)
DestroyedFirst == [][kind = "cloudflare" => Cloudflare!StartsTheNew]_vars

(* Every call of a driver ends: each wait is bounded by a deadline. *)
CallsReturn == (driver = "ready" /\ op # "idle") ~> op = "idle"
================================================================================
