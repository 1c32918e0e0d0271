--------------------------- MODULE SubstratesProofs ---------------------------
(***************************************************************************)
(* Every driver implements the provider's contract, and what the registry   *)
(* chooses is never dominated, for every number of polls, attempts,         *)
(* generations and instances and for every table of profiles.               *)
(***************************************************************************)
EXTENDS Substrates, FiniteSetTheorems, WellFoundedInduction, TLAPS

-----------------------------------------------------------------------------
(* The contract, a step at a time.                                         *)

Late == kind = "cloudflare" /\ mem.late

(* What a call has seen includes what there is.                             *)
Watched == IF op = "idle" THEN seen = {} ELSE Resource \in seen

(* A routed step keeps the driver, and is seen.                             *)
Routed == /\ driver = "ready" /\ Observe /\ Watched
          /\ Resource \in Contract!Resources /\ Resource' \in Contract!Resources

LEMMA RoutedIsWatched == Routed => Watched'
  <1> SUFFICES ASSUME Routed PROVE Watched'
    OBVIOUS
  <1>1. CASE op' = "idle"
    BY <1>1 DEF Routed, Watched, Observe
  <1>2. CASE op' # "idle"
    BY <1>2 DEF Routed, Watched, Observe
  <1> QED
    BY <1>1, <1>2

LEMMA Begins ==
    ASSUME Routed, op = "idle", op' \in Contract!Ops, out' = "none",
           Resource' = Resource, ~Late'
    PROVE  Contract!Next
  <1>1. seen' = {Resource}
    BY DEF Routed, Observe, Watched, Contract!Ops
  <1>2. Contract!Begin
    BY <1>1 DEF Contract!Begin, Routed, Observe, Late
  <1> QED
    BY <1>2 DEF Contract!Next, Routed, Observe

LEMMA Changes ==
    ASSUME Routed, op # "idle", op' = op, out' = out, Late => Late'
    PROVE  Contract!Next
  <1>1. seen' = seen \cup {Resource'}
    BY DEF Routed, Observe
  <1>2. Contract!Change
    BY <1>1 DEF Contract!Change, Contract!Excuse, Routed, Observe, Late
  <1> QED
    BY <1>2 DEF Contract!Next, Routed, Observe

LEMMA Resolves ==
    ASSUME Routed, op # "idle", op' = "idle", Late => Late',
           \/ out' \in Contract!Answers(op, Resource)
           \/ out' \in Contract!Answers(op, Resource')
           \/ Late' /\ out' = "ok"
    PROVE  Contract!Next
  <1>1. seen' = {} /\ Resource \in seen
    BY DEF Routed, Observe, Watched
  <1>2. Contract!Resolve
    BY <1>1 DEF Contract!Resolve, Contract!Excuse, Routed, Observe, Late
  <1> QED
    BY <1>2 DEF Contract!Next, Routed, Observe

LEMMA Rejects ==
    ASSUME Routed, op # "idle", op \notin Contract!NeverThrows, op' = "idle", out' = "error",
           Late => Late'
    PROVE  Contract!Next
  <1>1. seen' = {}
    BY DEF Routed, Observe
  <1>2. Contract!Reject
    BY <1>1 DEF Contract!Reject, Contract!Excuse, Routed, Observe, Late
  <1> QED
    BY <1>2 DEF Contract!Next, Routed, Observe

LEMMA Refuses ==
    ASSUME Routed, op = "idle", op' = "idle", out' = "error", Resource' = Resource, ~Late'
    PROVE  Contract!Next
  <1>1. seen' = seen
    BY DEF Routed, Observe, Watched
  <1>2. Contract!Refuse
    BY <1>1 DEF Contract!Refuse, Routed, Observe, Late
  <1> QED
    BY <1>2 DEF Contract!Next, Routed, Observe

LEMMA Drifts ==
    ASSUME Routed, op = "idle", op' = "idle", out' = out, Late' = Late,
           Resource = "gone" => Resource' = "gone"
    PROVE  Contract!Next
  <1>1. seen' = seen
    BY DEF Routed, Observe, Watched
  <1>2. Contract!Drift
    BY <1>1 DEF Contract!Drift, Routed, Observe, Late
  <1> QED
    BY <1>2 DEF Contract!Next, Routed, Observe

LEMMA Forgets ==
    ASSUME Routed, op' = "idle", out' = "none", Resource' = Resource, Late' = Late
    PROVE  Contract!Next
  <1>1. seen' = {}
    BY DEF Routed, Observe
  <1>2. Contract!Forget
    BY <1>1 DEF Contract!Forget, Routed, Observe, Late
  <1> QED
    BY <1>2 DEF Contract!Next, Routed, Observe

-----------------------------------------------------------------------------
(* Docker.                                                                  *)

DockerPlaces == [materialize |-> {"image", "create", "start"}, destroy |-> {"remove"},
                 sleep |-> {"pause"}, wake |-> {"unpause"}, exec |-> {"exec"},
                 exposePort |-> {"inspect"}, instanceStatus |-> {"status"}]

DockerInv == /\ inst \in {"none", "created", "running", "paused", "exited"}
             /\ mem \in [image : BOOLEAN, handle : BOOLEAN]
             /\ \/ op = "idle" /\ at = "-"
                \/ op \in DOMAIN DockerPlaces /\ at \in DockerPlaces[op]

LEMMA DockerKeeps ==
    ASSUME DockerInv, Docker!Next PROVE DockerInv'
  <1> USE DEF DockerInv, DockerPlaces, Docker!Return, Docker!Goto
  <1>1. ASSUME NEW o \in DOMAIN Docker!FirstStep, Docker!call(o) PROVE DockerInv'
    BY <1>1 DEF Docker!call, Docker!FirstStep
  <1>2. CASE Docker!ensureImage
    <2>1. op = "materialize"
      BY <1>2 DEF Docker!ensureImage
    <2>2. mem' \in [image : BOOLEAN, handle : BOOLEAN]
      BY <1>2 DEF Docker!ensureImage
    <2>3. (op' = "idle" /\ at' = "-") \/ (op' = "materialize" /\ at' = "create")
      BY <1>2, <2>1 DEF Docker!ensureImage
    <2> QED
      BY <1>2, <2>2, <2>3 DEF Docker!ensureImage
  <1>3. CASE Docker!materialize
    <2>1. op = "materialize"
      BY <1>3 DEF Docker!materialize
    <2>2. mem' \in [image : BOOLEAN, handle : BOOLEAN] /\ inst' \in {"created", "running", inst}
      BY <1>3 DEF Docker!materialize
    <2>3. (op' = "idle" /\ at' = "-") \/ (op' = "materialize" /\ at' = "start")
      BY <1>3, <2>1 DEF Docker!materialize
    <2> QED
      BY <2>2, <2>3
  <1>4. CASE Docker!destroy
    BY <1>4 DEF Docker!destroy
  <1>5. CASE Docker!sleep \/ Docker!wake
    BY <1>5 DEF Docker!sleep, Docker!wake
  <1>6. CASE Docker!exec \/ Docker!exposePort \/ Docker!instanceStatus
    BY <1>6 DEF Docker!exec, Docker!exposePort, Docker!instanceStatus
  <1>7. CASE Docker!platform
    BY <1>7 DEF Docker!platform
  <1> QED
    BY <1>1, <1>2, <1>3, <1>4, <1>5, <1>6, <1>7 DEF Docker!Next, Docker!Step

LEMMA DockerImplements ==
    ASSUME kind = "docker", kind' = "docker", Routed, DockerInv, Docker!Next
    PROVE  Contract!Next
  <1>0. /\ Late = FALSE /\ Late' = FALSE
        /\ Resource = Docker!Resource /\ Resource' = Docker!Resource'
    BY DEF Late, Resource
  <1> USE DEF Docker!Return, Docker!Goto
  <1>1. ASSUME NEW o \in DOMAIN Docker!FirstStep, Docker!call(o) PROVE Contract!Next
    BY <1>0, <1>1, Begins DEF Docker!call, Docker!FirstStep, Docker!Resource, Contract!Ops
  <1>2. CASE Docker!ensureImage
    <2>1. op # "idle" /\ op = "materialize"
      BY <1>2 DEF Docker!ensureImage, DockerInv, DockerPlaces
    <2> QED
      BY <1>0, <1>2, <2>1, Changes, Rejects DEF Docker!ensureImage, Contract!NeverThrows
  <1>3. CASE Docker!materialize
    <2>1. op = "materialize"
      BY <1>3 DEF Docker!materialize, DockerInv, DockerPlaces
    <2> QED
      BY <1>0, <1>3, <2>1, Changes, Rejects, Resolves
      DEF Docker!materialize, Docker!Resource, Contract!NeverThrows, Contract!Answers
  <1>4. CASE Docker!destroy
    <2>1. op = "destroy"
      BY <1>4 DEF Docker!destroy, DockerInv, DockerPlaces
    <2> QED
      BY <1>0, <1>4, <2>1, Rejects, Resolves
      DEF Docker!destroy, Docker!Resource, Contract!NeverThrows, Contract!Answers
  <1>5. CASE Docker!sleep
    <2>1. op = "sleep"
      BY <1>5 DEF Docker!sleep, DockerInv, DockerPlaces
    <2> QED
      BY <1>0, <1>5, <2>1, Rejects, Resolves
      DEF Docker!sleep, Docker!Resource, Contract!NeverThrows, Contract!Answers
  <1>6. CASE Docker!wake
    <2>1. op = "wake"
      BY <1>6 DEF Docker!wake, DockerInv, DockerPlaces
    <2> QED
      BY <1>0, <1>6, <2>1, Rejects, Resolves
      DEF Docker!wake, Docker!Resource, Contract!NeverThrows, Contract!Answers
  <1>7. CASE Docker!exec
    <2>1. op = "exec"
      BY <1>7 DEF Docker!exec, DockerInv, DockerPlaces
    <2> QED
      BY <1>0, <1>7, <2>1, Rejects, Resolves
      DEF Docker!exec, Docker!Resource, Contract!NeverThrows, Contract!Answers
  <1>8. CASE Docker!exposePort
    <2>1. op = "exposePort"
      BY <1>8 DEF Docker!exposePort, DockerInv, DockerPlaces
    <2> QED
      BY <1>0, <1>8, <2>1, Rejects, Resolves
      DEF Docker!exposePort, Docker!Resource, Contract!NeverThrows, Contract!Answers
  <1>9. CASE Docker!instanceStatus
    <2>1. op = "instanceStatus"
      BY <1>9 DEF Docker!instanceStatus, DockerInv, DockerPlaces
    <2> QED
      BY <1>0, <1>9, <2>1, Resolves
      DEF Docker!instanceStatus, Docker!Resource, Contract!Answers, DockerInv
  <1>10. CASE Docker!platform
    <2>1. UNCHANGED <<mem, op, at, out>> /\ Resource # "gone"
      BY <1>0, <1>10 DEF Docker!platform, Docker!Resource
    <2>2. CASE op = "idle"
      BY <1>0, <2>1, <2>2, Drifts
    <2>3. CASE op # "idle"
      BY <1>0, <2>1, <2>3, Changes
    <2> QED
      BY <2>2, <2>3
  <1> QED
    BY <1>1, <1>2, <1>3, <1>4, <1>5, <1>6, <1>7, <1>8, <1>9, <1>10 DEF Docker!Next,
       Docker!Step

-----------------------------------------------------------------------------
(* Sprites.                                                                 *)

SpritesPlaces == [materialize |-> {"post"}, destroy |-> {"delete"}, sleep |-> {"nothing"},
                  wake |-> {"exec"}, exec |-> {"exec"}, exposePort |-> {"get"}]

SpritesInv == /\ inst \in {"none", "suspended", "active"} /\ mem \in [handle : BOOLEAN]
              /\ \/ op = "idle" /\ at = "-"
                 \/ op \in DOMAIN SpritesPlaces /\ at \in SpritesPlaces[op]

LEMMA SpritesKeeps ==
    ASSUME SpritesInv, Sprites!Next PROVE SpritesInv'
  <1> USE DEF SpritesInv, SpritesPlaces, Sprites!Return
  <1>1. ASSUME NEW o \in DOMAIN Sprites!FirstStep, Sprites!call(o) PROVE SpritesInv'
    BY <1>1 DEF Sprites!call, Sprites!FirstStep
  <1>2. CASE Sprites!materialize
    <2>1. /\ inst' \in {"active", inst} /\ mem' \in {mem, [handle |-> TRUE]}
          /\ op' = "idle" /\ at' = "-"
      BY <1>2 DEF Sprites!materialize
    <2>2. [handle |-> TRUE] \in [handle : BOOLEAN]
      OBVIOUS
    <2> QED
      BY <2>1, <2>2
  <1>3. CASE Sprites!destroy \/ Sprites!sleep
    <2>1. /\ inst' \in {"none", inst} /\ mem' \in {mem, [handle |-> FALSE]}
          /\ op' = "idle" /\ at' = "-"
      BY <1>3 DEF Sprites!destroy, Sprites!sleep
    <2>2. [handle |-> FALSE] \in [handle : BOOLEAN]
      OBVIOUS
    <2> QED
      BY <2>1, <2>2
  <1>4. CASE Sprites!exec
    BY <1>4 DEF Sprites!exec
  <1>5. CASE Sprites!exposePort \/ Sprites!platform
    BY <1>5 DEF Sprites!exposePort, Sprites!platform
  <1> QED
    BY <1>1, <1>2, <1>3, <1>4, <1>5 DEF Sprites!Next, Sprites!Step

LEMMA SpritesImplements ==
    ASSUME kind = "sprites", kind' = "sprites", Routed, SpritesInv, Sprites!Next
    PROVE  Contract!Next
  <1>0. /\ Late = FALSE /\ Late' = FALSE
        /\ Resource = Sprites!Resource /\ Resource' = Sprites!Resource'
    BY DEF Late, Resource
  <1> USE DEF Sprites!Return
  <1>1. ASSUME NEW o \in DOMAIN Sprites!FirstStep, Sprites!call(o) PROVE Contract!Next
    BY <1>0, <1>1, Begins DEF Sprites!call, Sprites!FirstStep, Sprites!Resource,
       Contract!Ops
  <1>2. CASE Sprites!materialize
    <2>1. op = "materialize"
      BY <1>2 DEF Sprites!materialize, SpritesInv, SpritesPlaces
    <2> QED
      BY <1>0, <1>2, <2>1, Rejects, Resolves
      DEF Sprites!materialize, Sprites!Resource, Contract!NeverThrows, Contract!Answers
  <1>3. CASE Sprites!destroy
    <2>1. op = "destroy"
      BY <1>3 DEF Sprites!destroy, SpritesInv, SpritesPlaces
    <2> QED
      BY <1>0, <1>3, <2>1, Rejects, Resolves
      DEF Sprites!destroy, Sprites!Resource, Contract!NeverThrows, Contract!Answers
  <1>4. CASE Sprites!sleep
    <2>1. op = "sleep"
      BY <1>4 DEF Sprites!sleep, SpritesInv, SpritesPlaces
    <2> QED
      BY <1>0, <1>4, <2>1, Resolves DEF Sprites!sleep, Contract!Answers
  <1>5. CASE Sprites!exec
    <2>1. op \in {"wake", "exec"}
      BY <1>5 DEF Sprites!exec, SpritesInv, SpritesPlaces
    <2>2. CASE out' = "error"
      BY <1>0, <1>5, <2>1, <2>2, Rejects DEF Sprites!exec, Contract!NeverThrows
    <2>3. CASE out' # "error"
      <3>1. op' = "idle" /\ out' = "ok" /\ Resource' = "awake"
        BY <1>0, <1>5, <2>3 DEF Sprites!exec, Sprites!parseExecFrames, Sprites!Resource
      <3> QED
        BY <1>0, <2>1, <3>1, Resolves DEF Contract!Answers
    <2> QED
      BY <2>2, <2>3
  <1>6. CASE Sprites!exposePort
    <2>1. op = "exposePort"
      BY <1>6 DEF Sprites!exposePort, SpritesInv, SpritesPlaces
    <2> QED
      BY <1>0, <1>6, <2>1, Rejects, Resolves
      DEF Sprites!exposePort, Contract!NeverThrows, Contract!Answers
  <1>7. CASE Sprites!platform
    <2>1. UNCHANGED <<mem, op, at, out>> /\ Resource # "gone"
      BY <1>0, <1>7 DEF Sprites!platform, Sprites!Resource
    <2>2. CASE op = "idle"
      BY <1>0, <2>1, <2>2, Drifts
    <2>3. CASE op # "idle"
      BY <1>0, <2>1, <2>3, Changes
    <2> QED
      BY <2>2, <2>3
  <1> QED
    BY <1>1, <1>2, <1>3, <1>4, <1>5, <1>6, <1>7 DEF Sprites!Next, Sprites!Step

-----------------------------------------------------------------------------
(* The fake of an entry that injects no driver.                             *)

FakeInv == /\ mem \in [seq : Nat, handle : Nat]
           /\ \A i \in inst : i \in 1..mem.seq
           /\ mem.handle <= mem.seq
           /\ op \in Fake!Ops \cup {"idle"}
           /\ op = "idle" => at = "-"
           /\ op \notin {"idle", "materialize"} => mem.handle # 0

LEMMA FakeKeeps ==
    ASSUME FakeInv, Fake!Next PROVE FakeInv'
  <1> USE DEF FakeInv, Fake!Ops, Fake!Return
  <1>1. ASSUME NEW o \in Fake!Ops, Fake!call(o) PROVE FakeInv'
    BY <1>1 DEF Fake!call
  <1>2. CASE Fake!materialize
    <2>1. /\ mem' \in [seq : Nat, handle : Nat] /\ mem'.handle <= mem'.seq
          /\ mem'.seq = mem.seq + 1 /\ inst' \subseteq inst
      BY <1>2 DEF Fake!materialize
    <2> QED
      BY <1>2, <2>1 DEF Fake!materialize
  <1>3. CASE Fake!destroy \/ Fake!evict
    <2>1. op = "destroy" \/ mem.handle # 0
      BY <1>3 DEF Fake!destroy, Fake!evict
    <2>2. inst' = inst \cup {mem.handle} /\ mem' = mem
      BY <1>3 DEF Fake!destroy, Fake!evict
    <2>3. (op' = "idle" /\ at' = "-") \/ (op' = op /\ at' = at)
      BY <1>3 DEF Fake!destroy, Fake!evict
    <2> QED
      BY <2>1, <2>2, <2>3
  <1>4. CASE Fake!onLive \/ Fake!exposePort \/ Fake!instanceStatus
    BY <1>4 DEF Fake!onLive, Fake!exposePort, Fake!instanceStatus
  <1> QED
    BY <1>1, <1>2, <1>3, <1>4 DEF Fake!Next, Fake!Step

LEMMA FakeImplements ==
    ASSUME kind = "fake", kind' = "fake", Routed, FakeInv, Fake!Next
    PROVE  Contract!Next
  <1>0. /\ Late = FALSE /\ Late' = FALSE
        /\ Resource = Fake!Resource /\ Resource' = Fake!Resource'
    BY DEF Late, Resource
  <1> USE DEF Fake!Return
  <1>1. ASSUME NEW o \in Fake!Ops, Fake!call(o) PROVE Contract!Next
    BY <1>0, <1>1, Begins DEF Fake!call, Fake!Ops, Fake!Resource, Fake!isLive,
       Contract!Ops
  <1>2. CASE Fake!materialize
    <2>1. Resource' = "awake"
      BY <1>0, <1>2 DEF Fake!materialize, Fake!Resource, Fake!isLive, FakeInv
    <2> QED
      BY <1>0, <1>2, <2>1, Resolves DEF Fake!materialize, Contract!Answers
  <1>3. CASE Fake!destroy
    <2>1. Resource' = "gone"
      BY <1>0, <1>3 DEF Fake!destroy, Fake!Resource, Fake!isLive
    <2> QED
      BY <1>0, <1>3, <2>1, Resolves DEF Fake!destroy, Contract!Answers
  <1>4. CASE Fake!onLive
    BY <1>0, <1>4, Resolves, Rejects
    DEF Fake!onLive, Fake!Resource, Contract!Answers, Contract!NeverThrows
  <1>5. CASE Fake!exposePort
    BY <1>0, <1>5, Resolves DEF Fake!exposePort, Contract!Answers
  <1>6. CASE Fake!instanceStatus
    BY <1>0, <1>6, Resolves DEF Fake!instanceStatus, Fake!Resource, Contract!Answers
  <1>7. CASE Fake!evict
    <2>1. UNCHANGED <<mem, op, at, out>> /\ Resource' = "gone"
      BY <1>0, <1>7 DEF Fake!evict, Fake!Resource, Fake!isLive
    <2>2. CASE op = "idle"
      BY <1>0, <2>1, <2>2, Drifts
    <2>3. CASE op # "idle"
      BY <1>0, <2>1, <2>3, Changes
    <2> QED
      BY <2>2, <2>3
  <1> QED
    BY <1>1, <1>2, <1>3, <1>4, <1>5, <1>6, <1>7 DEF Fake!Next, Fake!Step

-----------------------------------------------------------------------------
(* Box.                                                                     *)

BoxAt(o, a) == \/ o = "idle" /\ a = "-"
               \/ o = "materialize" /\ a \in {"create", "poll", "bootstrap", "cleanup"}
               \/ o \in {"destroy", "sleep"} /\ a \in {"stop", "settle"}
               \/ o = "wake" /\ a \in {"resume", "poll", "bootstrap"}
               \/ o = "exec" /\ a = "command"
               \/ o = "exposePort" /\ a \in {"host", "host url"}
               \/ o = "instanceStatus" /\ a = "get"
               \/ o = "holdAwake" /\ a = "patch"

BoxInv == /\ inst \in Box!BoxStates
          /\ mem \in [bootstrap : BOOLEAN, handle : BOOLEAN, marid : BOOLEAN,
                      polls : Nat, lost : BOOLEAN]
          /\ BoxAt(op, at)

BoxMem == [bootstrap : BOOLEAN, handle : BOOLEAN, marid : BOOLEAN, polls : Nat, lost : BOOLEAN]

(* What a step of the driver makes of its memory.                           *)
LEMMA BoxMemory ==
    ASSUME NEW M \in BoxMem
    PROVE  /\ \A b \in BOOLEAN : /\ [M EXCEPT !.lost = b] \in BoxMem
                                 /\ [M EXCEPT !.bootstrap = b] \in BoxMem
                                 /\ [M EXCEPT !.marid = b] \in BoxMem
                                 /\ [M EXCEPT !.handle = b] \in BoxMem
           /\ \A n \in Nat : [M EXCEPT !.polls = n] \in BoxMem
           /\ [M EXCEPT !.polls = @ + 1] \in BoxMem
           /\ [M EXCEPT !.lost = FALSE, !.polls = 0] \in BoxMem
           /\ [M EXCEPT !.bootstrap = TRUE, !.marid = FALSE] \in BoxMem
           /\ [M EXCEPT !.marid = TRUE, !.handle = TRUE] \in BoxMem
           /\ [M EXCEPT !.bootstrap = FALSE, !.handle = FALSE] \in BoxMem
           /\ [M EXCEPT !.bootstrap = FALSE, !.polls = 0] \in BoxMem
  <1>1. /\ \A b \in BOOLEAN : /\ [M EXCEPT !.lost = b] \in BoxMem
                             /\ [M EXCEPT !.bootstrap = b] \in BoxMem
                             /\ [M EXCEPT !.marid = b] \in BoxMem
                             /\ [M EXCEPT !.handle = b] \in BoxMem
        /\ \A n \in Nat : [M EXCEPT !.polls = n] \in BoxMem
    BY DEF BoxMem
  <1>2. [M EXCEPT !.polls = @ + 1] \in BoxMem
    <2>1. M.polls + 1 \in Nat
      BY DEF BoxMem
    <2> QED
      BY <2>1 DEF BoxMem
  <1>5. [M EXCEPT !.lost = FALSE, !.polls = 0] \in BoxMem
    BY DEF BoxMem
  <1>3. /\ [M EXCEPT !.bootstrap = TRUE, !.marid = FALSE] \in BoxMem
        /\ [M EXCEPT !.marid = TRUE, !.handle = TRUE] \in BoxMem
    BY DEF BoxMem
  <1>4. /\ [M EXCEPT !.bootstrap = FALSE, !.handle = FALSE] \in BoxMem
        /\ [M EXCEPT !.bootstrap = FALSE, !.polls = 0] \in BoxMem
    BY DEF BoxMem
  <1> QED
    BY <1>1, <1>2, <1>3, <1>4, <1>5

LEMMA BoxFirst ==
    ASSUME NEW o \in DOMAIN Box!FirstStep
    PROVE  o \in Contract!Ops /\ BoxAt(o, Box!FirstStep[o])
  <1> DEFINE F == Box!FirstStep
  <1>1. o \in {"materialize", "destroy", "sleep", "wake", "exec", "exposePort",
               "instanceStatus", "holdAwake"}
    BY DEF Box!FirstStep
  <1>2. /\ F["materialize"] = "create" /\ F["destroy"] = "stop" /\ F["sleep"] = "stop"
        /\ F["wake"] = "resume" /\ F["exec"] = "command" /\ F["exposePort"] = "host"
        /\ F["instanceStatus"] = "get" /\ F["holdAwake"] = "patch"
    BY DEF Box!FirstStep
  <1> HIDE DEF F
  <1>3. BoxAt(o, F[o])
    BY <1>1, <1>2 DEF BoxAt
  <1> QED
    BY <1>1, <1>3 DEF F, Contract!Ops

LEMMA BoxKeeps ==
    ASSUME BoxInv, Box!Next PROVE BoxInv'
  <1>0. mem \in BoxMem /\ inst \in Box!BoxStates
    BY DEF BoxInv, BoxMem
  <1>a. mem' \in BoxMem /\ inst' \in Box!BoxStates /\ BoxAt(op', at') => BoxInv'
    BY DEF BoxInv, BoxMem
  <1>f. ASSUME Box!Fail, UNCHANGED inst, op \in {"materialize", "wake"}
        PROVE  BoxInv'
    <2>1. mem' \in BoxMem
      BY <1>0, <1>f, BoxMemory DEF Box!Fail
    <2>2. BoxAt(op', at')
      BY <1>f DEF Box!Fail, Box!Goto, Box!Return, BoxAt
    <2> QED
      BY <1>0, <1>a, <1>f, <2>1, <2>2
  <1>1. ASSUME NEW o \in DOMAIN Box!FirstStep, Box!call(o) PROVE BoxInv'
    <2>1. mem' \in BoxMem /\ inst' = inst
      BY <1>0, <1>1, BoxMemory DEF Box!call
    <2>2. BoxAt(op', at')
      BY <1>1, BoxFirst DEF Box!call, BoxAt
    <2> QED
      BY <1>0, <2>1, <2>2 DEF BoxInv, BoxMem
  <1>2. CASE Box!create
    <2>0. op = "materialize"
      BY <1>2 DEF Box!create, BoxInv, BoxAt
    <2>1. mem' \in BoxMem /\ inst' \in Box!BoxStates
      BY <1>0, <1>2, BoxMemory DEF Box!create, Box!BoxStates
    <2>2. BoxAt(op', at')
      BY <1>2, <2>0 DEF Box!create, Box!Goto, Box!Return, BoxAt
    <2> QED
      BY <1>a, <2>1, <2>2
  <1>3. CASE Box!pollUntilRunning
    <2>0. op \in {"materialize", "wake"} /\ inst' = inst
      BY <1>3 DEF Box!pollUntilRunning, BoxInv, BoxAt
    <2>1. CASE Box!Fail
      BY <1>f, <2>0, <2>1
    <2>2. CASE ~Box!Fail
      <3>1. mem' \in BoxMem
        BY <1>0, <1>3, <2>2, BoxMemory DEF Box!pollUntilRunning
      <3>2. BoxAt(op', at')
        BY <1>3, <2>0, <2>2 DEF Box!pollUntilRunning, Box!Goto, BoxAt
      <3> QED
        BY <1>0, <1>a, <2>0, <3>1, <3>2
    <2> QED
      BY <2>1, <2>2
  <1>4. CASE Box!bootstrap
    <2>0. op \in {"materialize", "wake"} /\ inst' = inst /\ at = "bootstrap"
      BY <1>4 DEF Box!bootstrap, BoxInv, BoxAt
    <2>1. CASE Box!Fail
      BY <1>f, <2>0, <2>1
    <2>2. CASE ~Box!Fail
      <3>1. mem' \in BoxMem
        BY <1>0, <1>4, <2>2, BoxMemory DEF Box!bootstrap, Box!commandWhenReady
      <3>2. BoxAt(op', at')
        BY <1>4, <2>0, <2>2
        DEF Box!bootstrap, Box!commandWhenReady, Box!Goto, Box!Return, BoxAt
      <3> QED
        BY <1>0, <1>a, <2>0, <3>1, <3>2
    <2> QED
      BY <2>1, <2>2
  <1>s. /\ Box!StopServed \in Box!BoxStates
        /\ Box!stopDone \/ Box!stopFails => mem' \in BoxMem /\ inst' \in Box!BoxStates
    <2>1. Box!StopServed \in Box!BoxStates
      BY <1>0 DEF Box!StopServed, Box!BoxStates
    <2> QED
      BY <1>0, <2>1, BoxMemory DEF Box!stopDone, Box!stopFails, Box!requestFails, Box!Lost
  <1>5. CASE Box!stopBox
    <2>0. op \in {"sleep", "destroy"}
      BY <1>5 DEF Box!stopBox, BoxInv, BoxAt
    <2>1. mem' \in BoxMem /\ inst' \in Box!BoxStates
      BY <1>5, <1>s DEF Box!stopBox
    <2>2. BoxAt(op', at')
      BY <1>5, <2>0 DEF Box!stopBox, Box!Goto, Box!Return, BoxAt
    <2> QED
      BY <1>a, <2>1, <2>2
  <1>6. CASE Box!stopQuietly
    <2>1. mem' \in BoxMem /\ inst' \in Box!BoxStates
      BY <1>6, <1>s DEF Box!stopQuietly
    <2>2. BoxAt(op', at')
      BY <1>6 DEF Box!stopQuietly, Box!Return, BoxAt
    <2> QED
      BY <1>a, <2>1, <2>2
  <1>7. CASE Box!pollUntilArchived
    <2>0. op \in {"sleep", "destroy"}
      BY <1>7 DEF Box!pollUntilArchived, BoxInv, BoxAt
    <2>1. mem' \in BoxMem
      BY <1>0, <1>7, BoxMemory DEF Box!pollUntilArchived
    <2>2. BoxAt(op', at')
      BY <1>7, <2>0 DEF Box!pollUntilArchived, Box!Goto, Box!Return, BoxAt
    <2> QED
      BY <1>0, <1>7, <1>a, <2>1, <2>2 DEF Box!pollUntilArchived
  <1>8. CASE Box!resume
    <2>0. op = "wake"
      BY <1>8 DEF Box!resume, BoxInv, BoxAt
    <2>1. mem' \in BoxMem /\ inst' \in Box!BoxStates
      BY <1>0, <1>8, BoxMemory DEF Box!resume, Box!requestFails, Box!Lost, Box!BoxStates
    <2>2. BoxAt(op', at')
      BY <1>8, <2>0 DEF Box!resume, Box!Goto, Box!Return, BoxAt
    <2> QED
      BY <1>a, <2>1, <2>2
  <1>9. CASE Box!exec \/ Box!exposePort \/ Box!instanceStatus \/ Box!holdAwake
    <2>0. /\ inst' = inst /\ mem' = mem /\ BoxInv
          /\ \/ op' = "idle" /\ at' = "-"
             \/ at = "host" /\ at' = "host url" /\ op' = op
      BY <1>9 DEF Box!exec, Box!exposePort, Box!instanceStatus, Box!holdAwake,
         Box!command,
                  Box!Return, Box!Goto
    <2>1. BoxAt(op', at')
      BY <2>0 DEF BoxInv, BoxAt, BoxAt
    <2> QED
      BY <1>0, <1>a, <2>0, <2>1
  <1>10. CASE Box!platform
    <2>1. mem' \in BoxMem /\ inst' \in Box!BoxStates
      BY <1>0, <1>10, BoxMemory DEF Box!platform, Box!BoxStates
    <2>2. UNCHANGED <<op, at>>
      BY <1>10 DEF Box!platform
    <2> QED
      BY <2>1, <2>2 DEF BoxInv, BoxMem
  <1>11. CASE Box!restart
    <2>1. mem' \in BoxMem /\ inst' = inst /\ op' = "idle" /\ at' = "-"
      BY <1>0, <1>11, BoxMemory DEF Box!restart
    <2> QED
      BY <1>0, <2>1 DEF BoxInv, BoxMem, BoxAt
  <1> QED
    BY <1>1, <1>2, <1>3, <1>4, <1>5, <1>6, <1>7, <1>8, <1>9, <1>10, <1>11 DEF Box!Next,
       Box!Step

LEMMA BoxImplements ==
    ASSUME kind = "box", kind' = "box", Routed, BoxInv, Box!Next
    PROVE  Contract!Next
  <1>0. /\ Late = FALSE /\ Late' = FALSE
        /\ Resource = Box!Resource /\ Resource' = Box!Resource'
    BY DEF Late, Resource
  <1>i. BoxAt(op, at)
    BY DEF BoxInv
  <1>f. ASSUME Box!Fail, op \in {"materialize", "wake"} PROVE Contract!Next
    <2>1. CASE op = "materialize"
      BY <1>0, <1>f, <2>1, Changes DEF Box!Fail, Box!Goto
    <2>2. CASE op = "wake"
      BY <1>0, <1>f, <2>2, Rejects DEF Box!Fail, Box!Return, Contract!NeverThrows
    <2> QED
      BY <1>f, <2>1, <2>2
  <1>1. ASSUME NEW o \in DOMAIN Box!FirstStep, Box!call(o) PROVE Contract!Next
    <2>1. Resource' = Resource /\ op = "idle"
      BY <1>0, <1>1 DEF Box!call, Box!Resource
    <2>2. CASE op' = "idle" /\ out' = "error"
      BY <1>0, <2>1, <2>2, Refuses
    <2>3. CASE op' = o /\ out' = "none"
      BY <1>0, <2>1, <2>3, BoxFirst, Begins
    <2> QED
      BY <1>1, <2>2, <2>3 DEF Box!call
  <1>2. CASE Box!create
    <2>1. op = "materialize"
      BY <1>2, <1>i DEF Box!create, BoxAt
    <2> QED
      BY <1>0, <1>2, <2>1, Changes, Rejects DEF Box!create, Box!Goto, Box!Return,
         Contract!NeverThrows
  <1>3. CASE Box!pollUntilRunning
    <2>1. op \in {"materialize", "wake"}
      BY <1>3, <1>i DEF Box!pollUntilRunning, BoxAt
    <2>2. CASE Box!Fail
      BY <1>f, <2>1, <2>2
    <2>3. CASE ~Box!Fail
      BY <1>0, <1>3, <2>1, <2>3, Changes DEF Box!pollUntilRunning, Box!Goto
    <2> QED
      BY <2>2, <2>3
  <1>4. CASE Box!bootstrap
    <2>1. op \in {"materialize", "wake"} /\ inst' = inst
      BY <1>4, <1>i DEF Box!bootstrap, BoxAt
    <2>2. CASE Box!Fail
      BY <1>f, <2>1, <2>2
    <2>3. CASE Box!Goto(at)
      BY <1>0, <2>1, <2>3, Changes DEF Box!Goto
    <2>4. CASE /\ inst = "ready" /\ Box!Return("ok")
               /\ mem' = [mem EXCEPT !.marid = TRUE, !.handle = TRUE]
      <3>1. Resource' = "awake"
        BY <1>0, <2>1, <2>4 DEF Box!Resource, BoxInv
      <3> QED
        BY <1>0, <2>1, <2>4, <3>1, Resolves DEF Box!Return, Contract!Answers
    <2> QED
      BY <1>4, <2>2, <2>3, <2>4 DEF Box!bootstrap, Box!commandWhenReady
  <1>5. CASE Box!stopBox
    <2>1. op \in {"sleep", "destroy"}
      BY <1>5, <1>i DEF Box!stopBox, BoxAt
    <2> QED
      BY <1>0, <1>5, <2>1, Changes, Rejects DEF Box!stopBox, Box!Goto, Box!Return,
         Contract!NeverThrows
  <1>6. CASE Box!stopQuietly
    <2>1. op = "materialize"
      BY <1>6, <1>i DEF Box!stopQuietly, BoxAt
    <2> QED
      BY <1>0, <1>6, <2>1, Rejects DEF Box!stopQuietly, Box!Return, Contract!NeverThrows
  <1>7. CASE Box!pollUntilArchived
    <2>1. op \in {"sleep", "destroy"} /\ inst' = inst
      BY <1>7, <1>i DEF Box!pollUntilArchived, BoxAt
    <2>2. CASE Box!Return("error")
      BY <1>0, <2>1, <2>2, Rejects DEF Box!Return, Contract!NeverThrows
    <2>3. CASE Box!Goto("settle")
      BY <1>0, <2>1, <2>3, Changes DEF Box!Goto
    <2>4. CASE inst = "archived" /\ op = "sleep" /\ Box!Return("ok")
      BY <1>0, <2>1, <2>4, Resolves DEF Box!Return, Box!Resource, Contract!Answers
    <2>5. CASE inst = "none" /\ op = "destroy" /\ Box!Return("ok")
      BY <1>0, <2>1, <2>5, Resolves DEF Box!Return, Box!Resource, Contract!Answers
    <2> QED
      BY <1>7, <2>1, <2>2, <2>3, <2>4, <2>5 DEF Box!pollUntilArchived
  <1>8. CASE Box!resume
    <2>1. op = "wake"
      BY <1>8, <1>i DEF Box!resume, BoxAt
    <2> QED
      BY <1>0, <1>8, <2>1, Changes, Rejects DEF Box!resume, Box!Goto, Box!Return,
         Contract!NeverThrows
  <1>9. CASE Box!exec
    <2>1. op = "exec"
      BY <1>9, <1>i DEF Box!exec, BoxAt
    <2> QED
      BY <1>0, <1>9, <2>1, Rejects, Resolves
      DEF Box!exec, Box!command, Box!Return, Box!Resource, Contract!NeverThrows,
          Contract!Answers
  <1>10. CASE Box!exposePort
    <2>1. op = "exposePort"
      BY <1>10, <1>i DEF Box!exposePort, BoxAt
    <2> QED
      BY <1>0, <1>10, <2>1, Changes, Rejects, Resolves
      DEF Box!exposePort, Box!command, Box!Goto, Box!Return, Contract!NeverThrows,
          Contract!Answers
  <1>11. CASE Box!instanceStatus
    <2>1. op = "instanceStatus"
      BY <1>11, <1>i DEF Box!instanceStatus, BoxAt
    <2> QED
      BY <1>0, <1>11, <2>1, Resolves
      DEF Box!instanceStatus, Box!Return, Box!Resource, Contract!Answers, BoxInv,
          Box!BoxStates
  <1>12. CASE Box!holdAwake
    <2>1. op = "holdAwake"
      BY <1>12, <1>i DEF Box!holdAwake, BoxAt
    <2> QED
      BY <1>0, <1>12, <2>1, Resolves DEF Box!holdAwake, Box!Return, Contract!Answers
  <1>13. CASE Box!platform
    <2>1. UNCHANGED <<op, at, out>> /\ Resource # "gone"
      BY <1>0, <1>13 DEF Box!platform, Box!Resource
    <2>2. CASE op = "idle"
      BY <1>0, <2>1, <2>2, Drifts
    <2>3. CASE op # "idle"
      BY <1>0, <2>1, <2>3, Changes
    <2> QED
      BY <2>2, <2>3
  <1>14. CASE Box!restart
    <2>1. Resource' = Resource
      BY <1>0, <1>14 DEF Box!restart, Box!Resource, BoxInv
    <2> QED
      BY <1>0, <1>14, <2>1, Forgets DEF Box!restart
  <1> QED
    BY <1>1, <1>2, <1>3, <1>4, <1>5, <1>6, <1>7, <1>8, <1>9, <1>10, <1>11, <1>12, <1>13,
       <1>14
    DEF Box!Next, Box!Step

(* A materialize that fails stops the machine first, or is not served.      *)
LEMMA BoxStops ==
    ASSUME BoxInv, Box!Next PROVE Box!StopsWhatFailed
  <1> SUFFICES ASSUME op = "materialize", op' = "idle", out' = "error", at # "create"
               PROVE  inst' \in {"none", "archiving", "archived"} \/ mem'.lost
    BY DEF Box!StopsWhatFailed
  <1>0. at \in {"poll", "bootstrap", "cleanup"} /\ mem \in BoxMem /\ inst \in Box!BoxStates
    BY DEF BoxInv, BoxAt, BoxMem
  <1>1. ASSUME NEW o \in DOMAIN Box!FirstStep, Box!call(o) PROVE FALSE
    BY <1>1 DEF Box!call
  <1>2. ~Box!create /\ ~Box!stopBox /\ ~Box!pollUntilArchived /\ ~Box!resume /\ ~Box!exec
        /\ ~Box!exposePort /\ ~Box!instanceStatus /\ ~Box!holdAwake
    BY <1>0 DEF Box!create, Box!stopBox, Box!pollUntilArchived, Box!resume, Box!exec,
                Box!exposePort, Box!instanceStatus, Box!holdAwake
  <1>3. ~Box!Fail
    BY DEF Box!Fail, Box!Goto
  <1>4. ~Box!pollUntilRunning
    BY <1>3 DEF Box!pollUntilRunning, Box!Goto
  <1>5. ~Box!bootstrap
    BY <1>3 DEF Box!bootstrap, Box!commandWhenReady, Box!Goto, Box!Return
  <1>6. ~Box!platform /\ ~Box!restart
    BY DEF Box!platform, Box!restart
  <1>7. CASE Box!stopQuietly
    <2>1. ASSUME Box!stopFails PROVE mem'.lost
      BY <1>0, <2>1 DEF Box!stopFails, Box!requestFails, Box!Lost, BoxMem
    <2>2. ASSUME Box!stopDone PROVE inst' \in {"none", "archiving", "archived"} \/ mem'.lost
      BY <1>0, <2>2 DEF Box!stopDone, Box!StopServed, Box!Lost, BoxMem, Box!BoxStates
    <2> QED
      BY <1>7, <2>1, <2>2 DEF Box!stopQuietly
  <1> QED
    BY <1>1, <1>2, <1>4, <1>5, <1>6, <1>7 DEF Box!Next, Box!Step
-----------------------------------------------------------------------------
(* Cloudflare.                                                              *)

CloudflareAt(o, a) == \/ o = "idle" /\ a = "-"
                      \/ o = "materialize" /\ a \in {"replace", "start", "probe"}
                      \/ o = "wake" /\ a \in {"start", "probe"}
                      \/ o \in {"destroy", "sleep"} /\ a = "destroy"
                      \/ o = "exec" /\ a = "exec"
                      \/ o = "exposePort" /\ a = "port"
                      \/ o = "instanceStatus" /\ a \in {"flag", "confirm"}
                      \/ o = "holdAwake" /\ a = "hold"

CloudflareMem == [flag : BOOLEAN, startup : Nat, handle : Nat, gen : Nat, tries : Nat,
                  late : BOOLEAN, draining : BOOLEAN]

(* A flag is false only with no instance, and a materialize starts on a     *)
(* slot that is empty or its own, unless the destroy before it was late.    *)
CloudflareInv ==
  /\ inst \in [gen : Nat, up : BOOLEAN] /\ mem \in CloudflareMem /\ CloudflareAt(op, at)
  /\ inst.up => inst.gen # 0
  /\ ~mem.flag => inst.gen = 0
  /\ op = "materialize" /\ at \in {"start", "probe"} /\ ~mem.late => inst.gen \in {0, mem.gen}
  /\ op # "idle" => out = "none"

(* What a step of the driver makes of its memory.                           *)
LEMMA CloudflareMemory ==
    ASSUME NEW M \in CloudflareMem
    PROVE  /\ [M EXCEPT !.gen = @ + 1, !.tries = 0, !.late = FALSE] \in CloudflareMem
           /\ [M EXCEPT !.tries = 0, !.late = FALSE] \in CloudflareMem
           /\ [M EXCEPT !.draining = FALSE] \in CloudflareMem
           /\ [M EXCEPT !.late = TRUE, !.draining = TRUE] \in CloudflareMem
           /\ [M EXCEPT !.flag = TRUE, !.tries = @ + 1] \in CloudflareMem
           /\ [M EXCEPT !.tries = @ + 1] \in CloudflareMem
           /\ [M EXCEPT !.startup = M.gen, !.handle = M.gen] \in CloudflareMem
           /\ [M EXCEPT !.flag = FALSE] \in CloudflareMem
           /\ [M EXCEPT !.startup = 0] \in CloudflareMem
  <1>1. M.gen \in Nat /\ M.gen + 1 \in Nat /\ M.tries + 1 \in Nat
    BY DEF CloudflareMem
  <1>2. /\ [M EXCEPT !.gen = @ + 1, !.tries = 0, !.late = FALSE] \in CloudflareMem
        /\ [M EXCEPT !.tries = 0, !.late = FALSE] \in CloudflareMem
    BY <1>1 DEF CloudflareMem
  <1>3. /\ [M EXCEPT !.flag = TRUE, !.tries = @ + 1] \in CloudflareMem
        /\ [M EXCEPT !.tries = @ + 1] \in CloudflareMem
        /\ [M EXCEPT !.startup = M.gen, !.handle = M.gen] \in CloudflareMem
    BY <1>1 DEF CloudflareMem
  <1>4. /\ [M EXCEPT !.draining = FALSE] \in CloudflareMem
        /\ [M EXCEPT !.late = TRUE, !.draining = TRUE] \in CloudflareMem
        /\ [M EXCEPT !.flag = FALSE] \in CloudflareMem
        /\ [M EXCEPT !.startup = 0] \in CloudflareMem
    BY DEF CloudflareMem
  <1> QED
    BY <1>2, <1>3, <1>4

LEMMA CloudflareFirst ==
    ASSUME NEW o \in DOMAIN Cloudflare!FirstStep
    PROVE  /\ o \in Contract!Ops \ {"materialize"}
           /\ CloudflareAt(o, Cloudflare!FirstStep[o])
  <1> DEFINE F == Cloudflare!FirstStep
  <1>1. o \in {"destroy", "sleep", "wake", "exec", "exposePort", "instanceStatus", "holdAwake"}
    BY DEF Cloudflare!FirstStep
  <1>2. /\ F["destroy"] = "destroy" /\ F["sleep"] = "destroy" /\ F["wake"] = "start"
        /\ F["exec"] = "exec" /\ F["exposePort"] = "port" /\ F["instanceStatus"] = "flag"
        /\ F["holdAwake"] = "hold"
    BY DEF Cloudflare!FirstStep
  <1> HIDE DEF F
  <1>3. CloudflareAt(o, F[o])
    BY <1>1, <1>2 DEF CloudflareAt
  <1> QED
    BY <1>1, <1>3 DEF F, Contract!Ops

LEMMA CloudflareKeeps ==
    ASSUME CloudflareInv, Cloudflare!Next PROVE CloudflareInv'
  <1>0. /\ inst \in [gen : Nat, up : BOOLEAN] /\ mem \in CloudflareMem /\ CloudflareAt(op, at)
        /\ inst.up => inst.gen # 0
        /\ ~mem.flag => inst.gen = 0
        /\ op = "materialize" /\ at \in {"start", "probe"} /\ ~mem.late => inst.gen \in {0, mem.gen}
        /\ op # "idle" => out = "none"
        /\ Cloudflare!None \in [gen : Nat, up : BOOLEAN]
        /\ Cloudflare!None.gen = 0 /\ Cloudflare!None.up = FALSE
    BY DEF CloudflareInv, Cloudflare!None
  <1>1. CASE Cloudflare!callMaterialize
    <2>1. /\ op' = "materialize" /\ at' \in {"replace", "start"} /\ inst' = inst /\ out' = "none"
          /\ at' = "start" => ~mem.flag
      BY <1>1 DEF Cloudflare!callMaterialize
    <2>2. mem' \in CloudflareMem /\ mem'.flag = mem.flag
      BY <1>0, <1>1, CloudflareMemory DEF Cloudflare!callMaterialize, CloudflareMem
    <2> QED
      BY <1>0, <2>1, <2>2 DEF CloudflareInv, CloudflareAt
  <1>2. ASSUME NEW o \in DOMAIN Cloudflare!FirstStep, Cloudflare!call(o) PROVE CloudflareInv'
    <2>1. mem' \in CloudflareMem /\ mem'.flag = mem.flag /\ inst' = inst
      BY <1>0, <1>2, CloudflareMemory DEF Cloudflare!call, CloudflareMem
    <2>2. CloudflareAt(op', at') /\ op' # "materialize" /\ (op' # "idle" => out' = "none")
      BY <1>2, CloudflareFirst DEF Cloudflare!call, Cloudflare!Return, CloudflareAt
    <2> QED
      BY <1>0, <2>1, <2>2 DEF CloudflareInv
  <1>3. CASE Cloudflare!replace
    <2>1. /\ inst' \in {inst, Cloudflare!None} /\ mem' \in CloudflareMem /\ mem'.flag = mem.flag
          /\ \/ inst' = Cloudflare!None /\ Cloudflare!Goto("start")
             \/ mem'.late /\ Cloudflare!Goto("start")
             \/ Cloudflare!Return("error")
      <3>1. mem' \in CloudflareMem
        BY <1>0, <1>3, CloudflareMemory DEF Cloudflare!replace, Cloudflare!destroyQuietly
      <3> QED
        BY <1>0, <1>3, <3>1 DEF Cloudflare!replace, Cloudflare!destroyQuietly,
           CloudflareMem
    <2>2. op = "materialize"
      BY <1>0, <1>3 DEF Cloudflare!replace, CloudflareAt
    <2>3. CloudflareAt(op', at') /\ (op' # "idle" => out' = "none")
      BY <1>0, <2>1, <2>2 DEF CloudflareAt, Cloudflare!Goto, Cloudflare!Return
    <2>4. op' = "materialize" /\ ~mem'.late => inst'.gen = 0
      BY <1>0, <2>1 DEF Cloudflare!Return
    <2> QED
      BY <1>0, <2>1, <2>3, <2>4 DEF CloudflareInv
  <1>4. CASE Cloudflare!destroy
    <2>1. /\ inst' \in {inst, Cloudflare!None} /\ mem' \in CloudflareMem /\ mem'.flag = mem.flag
          /\ op' = "idle" /\ at' = "-"
      <3>1. mem' \in CloudflareMem
        BY <1>0, <1>4, CloudflareMemory DEF Cloudflare!destroy, Cloudflare!destroyQuietly
      <3> QED
        BY <1>0, <1>4, <3>1
        DEF Cloudflare!destroy, Cloudflare!destroyQuietly, Cloudflare!Return,
            CloudflareMem
    <2> QED
      BY <1>0, <2>1 DEF CloudflareInv, CloudflareAt
  <1>5. CASE Cloudflare!start
    <2>1. op \in {"materialize", "wake"} /\ op' = op /\ at' = "probe" /\ out' = "none"
      BY <1>0, <1>5 DEF Cloudflare!start, Cloudflare!Goto, CloudflareAt
    <2>2. /\ mem' \in CloudflareMem /\ mem'.gen = mem.gen /\ mem'.late = mem.late
          /\ mem'.flag = TRUE \/ mem'.flag = mem.flag
      <3>1. mem' \in CloudflareMem
        BY <1>0, <1>5, CloudflareMemory DEF Cloudflare!start
      <3> QED
        BY <1>0, <1>5, <3>1 DEF Cloudflare!start, CloudflareMem
    <2>3. CASE inst' = inst
      <3>1. ~mem'.flag => inst'.gen = 0
        BY <1>0, <2>2, <2>3
      <3> QED
        BY <1>0, <1>5, <2>1, <2>2, <2>3, <3>1 DEF CloudflareInv, CloudflareAt,
           Cloudflare!start
    <2>4. CASE inst' = [gen |-> Cloudflare!Wanted, up |-> FALSE] /\ mem'.flag
      <3>1. Cloudflare!Wanted \in Nat /\ (op = "materialize" => Cloudflare!Wanted = mem.gen)
        BY <1>0 DEF Cloudflare!Wanted, CloudflareMem
      <3> QED
        BY <2>1, <2>2, <2>4, <3>1 DEF CloudflareInv, CloudflareAt
    <2>5. inst' = inst \/ (inst' = [gen |-> Cloudflare!Wanted, up |-> FALSE] /\ mem'.flag)
      BY <1>0, <1>5 DEF Cloudflare!start, CloudflareMem
    <2> QED
      BY <2>3, <2>4, <2>5
  <1>6. CASE Cloudflare!probe
    <2>1. op \in {"materialize", "wake"} /\ inst' = inst /\ at = "probe"
      BY <1>0, <1>6 DEF Cloudflare!probe, CloudflareAt
    <2>2. /\ mem' \in CloudflareMem /\ mem'.gen = mem.gen /\ mem'.late = mem.late
          /\ mem'.flag = mem.flag
      <3>1. mem' \in CloudflareMem
        BY <1>0, <1>6, CloudflareMemory DEF Cloudflare!probe
      <3> QED
        BY <1>0, <1>6, <3>1 DEF Cloudflare!probe, CloudflareMem
    <2>3. (op' = "idle" /\ at' = "-") \/ (op' = op /\ at' = "start" /\ out' = out)
      BY <1>6 DEF Cloudflare!probe, Cloudflare!Goto, Cloudflare!Return
    <2> QED
      BY <1>0, <2>1, <2>2, <2>3 DEF CloudflareInv, CloudflareAt
  <1>7. CASE Cloudflare!exec \/ Cloudflare!exposePort \/ Cloudflare!holdAwake
    BY <1>0, <1>7 DEF Cloudflare!exec, Cloudflare!exposePort, Cloudflare!holdAwake,
                      Cloudflare!Return, CloudflareInv, CloudflareAt
  <1>8. CASE Cloudflare!instanceStatus
    <2>1. op = "instanceStatus" /\ inst' = inst /\ mem' = mem
      BY <1>0, <1>8 DEF Cloudflare!instanceStatus, CloudflareAt
    <2>2. (op' = "idle" /\ at' = "-") \/ (op' = op /\ at' = "confirm" /\ out' = out)
      BY <1>8 DEF Cloudflare!instanceStatus, Cloudflare!Goto, Cloudflare!Return
    <2> QED
      BY <1>0, <2>1, <2>2 DEF CloudflareInv, CloudflareAt
  <1>9. CASE Cloudflare!platform
    <2>1. /\ UNCHANGED <<op, at, out>> /\ mem' \in CloudflareMem
          /\ mem'.gen = mem.gen /\ mem'.late = mem.late
          /\ mem'.flag = mem.flag \/ inst'.gen = 0
      <3>1. mem' \in CloudflareMem
        BY <1>0, <1>9, CloudflareMemory DEF Cloudflare!platform
      <3> QED
        BY <1>0, <1>9, <3>1 DEF Cloudflare!platform, CloudflareMem
    <2>2. \/ inst' = inst
          \/ inst' = Cloudflare!None
          \/ inst' = [inst EXCEPT !.up = TRUE] /\ inst.gen # 0
      BY <1>9 DEF Cloudflare!platform
    <2>3. /\ inst' \in [gen : Nat, up : BOOLEAN] /\ inst'.gen \in {0, inst.gen}
          /\ inst'.up => inst'.gen # 0
      BY <1>0, <2>2
    <2> QED
      BY <1>0, <2>1, <2>3 DEF CloudflareInv
  <1>10. CASE Cloudflare!restart
    <2>1. /\ inst' = inst /\ op' = "idle" /\ at' = "-"
          /\ mem' \in CloudflareMem /\ mem'.flag = mem.flag
      BY <1>0, <1>10, CloudflareMemory DEF Cloudflare!restart, CloudflareMem
    <2> QED
      BY <1>0, <2>1 DEF CloudflareInv, CloudflareAt
  <1> QED
    BY <1>1, <1>2, <1>3, <1>4, <1>5, <1>6, <1>7, <1>8, <1>9, <1>10
    DEF Cloudflare!Next, Cloudflare!Step

LEMMA CloudflareImplements ==
    ASSUME kind = "cloudflare", kind' = "cloudflare", Routed, CloudflareInv, Cloudflare!Next
    PROVE  Contract!Next
  <1>k. CloudflareInv'
    BY CloudflareKeeps
  <1>0. /\ Late = mem.late /\ Late' = mem'.late
        /\ Resource = Cloudflare!Resource /\ Resource' = Cloudflare!Resource'
        /\ mem \in CloudflareMem /\ CloudflareAt(op, at) /\ (inst.up => inst.gen # 0)
    BY <1>k DEF Late, Resource, CloudflareInv, CloudflareMem
  <1>1. CASE Cloudflare!callMaterialize
    <2>1. ~Late' /\ op = "idle" /\ op' = "materialize" /\ out' = "none" /\ Resource' = Resource
      BY <1>0, <1>1 DEF Cloudflare!callMaterialize, Cloudflare!Resource, CloudflareMem
    <2> QED
      BY <2>1, Begins DEF Contract!Ops
  <1>2. ASSUME NEW o \in DOMAIN Cloudflare!FirstStep, Cloudflare!call(o) PROVE Contract!Next
    <2>1. ~Late' /\ op = "idle" /\ Resource' = Resource
      BY <1>0, <1>2 DEF Cloudflare!call, Cloudflare!Resource, CloudflareMem
    <2>2. CASE op' = "idle" /\ out' = "error"
      BY <2>1, <2>2, Refuses
    <2>3. CASE op' = o /\ out' = "none"
      BY <2>1, <2>3, CloudflareFirst, Begins
    <2> QED
      BY <1>2, <2>2, <2>3 DEF Cloudflare!call, Cloudflare!Return
  <1>3. CASE Cloudflare!replace
    <2>1. op = "materialize"
      BY <1>0, <1>3 DEF Cloudflare!replace, CloudflareAt
    <2>2. (Late => Late') /\ (Cloudflare!Goto("start") \/ Cloudflare!Return("error"))
      BY <1>0, <1>3 DEF Cloudflare!replace, Cloudflare!destroyQuietly, CloudflareMem
    <2> QED
      BY <2>1, <2>2, Changes, Rejects DEF Cloudflare!Goto, Cloudflare!Return,
         Contract!NeverThrows
  <1>4. CASE Cloudflare!destroy
    <2>1. op \in {"destroy", "sleep"}
      BY <1>0, <1>4 DEF Cloudflare!destroy, CloudflareAt
    <2>2. /\ Late => Late'
          /\ \/ Resource' = "gone" /\ Cloudflare!Return("ok")
             \/ Late' /\ Cloudflare!Return("ok")
             \/ Cloudflare!Return("error")
      <3>1. Cloudflare!None.gen = 0
        BY DEF Cloudflare!None
      <3>2. \/ inst' = Cloudflare!None /\ Cloudflare!Return("ok")
            \/ mem' = [mem EXCEPT !.late = TRUE, !.draining = TRUE] /\ Cloudflare!Return("ok")
            \/ Cloudflare!Return("error")
        BY <1>4 DEF Cloudflare!destroy, Cloudflare!destroyQuietly
      <3>3. inst' = Cloudflare!None => Resource' = "gone"
        BY <1>0, <1>k, <3>1 DEF Cloudflare!Resource, CloudflareInv
      <3>4. mem' = [mem EXCEPT !.late = TRUE, !.draining = TRUE] => Late'
        BY <1>0 DEF CloudflareMem
      <3>5. Late => Late'
        BY <1>0, <1>4 DEF Cloudflare!destroy, Cloudflare!destroyQuietly, CloudflareMem
      <3> QED
        BY <3>2, <3>3, <3>4, <3>5
    <2>3. CASE Resource' = "gone" /\ Cloudflare!Return("ok")
      BY <2>1, <2>2, <2>3, Resolves DEF Cloudflare!Return, Contract!Answers
    <2>4. CASE Late' /\ Cloudflare!Return("ok")
      BY <2>1, <2>2, <2>4, Resolves DEF Cloudflare!Return
    <2>5. CASE Cloudflare!Return("error")
      BY <2>1, <2>2, <2>5, Rejects DEF Cloudflare!Return, Contract!NeverThrows
    <2> QED
      BY <2>2, <2>3, <2>4, <2>5
  <1>5. CASE Cloudflare!start
    <2>1. op # "idle" /\ op' = op /\ out' = out /\ Late' = Late
      BY <1>0, <1>5 DEF Cloudflare!start, Cloudflare!Goto, CloudflareAt, CloudflareMem
    <2> QED
      BY <2>1, Changes
  <1>6. CASE Cloudflare!probe
    <2>1. op \in {"materialize", "wake"} /\ Late' = Late
      BY <1>0, <1>6 DEF Cloudflare!probe, CloudflareAt, CloudflareMem
    <2>2. \/ Resource' = "awake" /\ Cloudflare!Return("ok")
          \/ Cloudflare!Return("error")
          \/ Cloudflare!Goto("start")
      BY <1>0, <1>6 DEF Cloudflare!probe, Cloudflare!execRaw, Cloudflare!Resource
    <2>3. CASE Resource' = "awake" /\ Cloudflare!Return("ok")
      BY <2>1, <2>3, Resolves DEF Cloudflare!Return, Contract!Answers
    <2>4. CASE Cloudflare!Return("error")
      BY <2>1, <2>4, Rejects DEF Cloudflare!Return, Contract!NeverThrows
    <2>5. CASE Cloudflare!Goto("start")
      BY <2>1, <2>5, Changes DEF Cloudflare!Goto
    <2> QED
      BY <2>2, <2>3, <2>4, <2>5
  <1>7. CASE Cloudflare!exec
    <2>1. op = "exec" /\ Late' = Late
      BY <1>0, <1>7 DEF Cloudflare!exec, CloudflareAt
    <2>2. (Resource = "awake" /\ Cloudflare!Return("ok")) \/ Cloudflare!Return("error")
      BY <1>0, <1>7 DEF Cloudflare!exec, Cloudflare!execRaw, Cloudflare!Resource
    <2> QED
      BY <2>1, <2>2, Resolves, Rejects DEF Cloudflare!Return, Contract!NeverThrows,
         Contract!Answers
  <1>8. CASE Cloudflare!exposePort
    <2>1. op = "exposePort" /\ Late' = Late
      BY <1>0, <1>8 DEF Cloudflare!exposePort, CloudflareAt
    <2> QED
      BY <1>8, <2>1, Resolves, Rejects
      DEF Cloudflare!exposePort, Cloudflare!Return, Contract!NeverThrows, Contract!Answers
  <1>9. CASE Cloudflare!instanceStatus
    <2>1. op = "instanceStatus" /\ Late' = Late
      BY <1>0, <1>9 DEF Cloudflare!instanceStatus, CloudflareAt
    <2>2. \/ Cloudflare!Goto("confirm")
          \/ Resource = "awake" /\ Cloudflare!Return("alive")
          \/ Resource = "gone" /\ Cloudflare!Return("gone")
          \/ Cloudflare!Return("unknown")
      BY <1>0, <1>9 DEF Cloudflare!instanceStatus, Cloudflare!execRaw,
         Cloudflare!Resource,
                        CloudflareInv
    <2>3. CASE Cloudflare!Goto("confirm")
      BY <2>1, <2>3, Changes DEF Cloudflare!Goto
    <2>4. CASE Cloudflare!Return("unknown")
      BY <2>1, <2>4, Resolves DEF Cloudflare!Return, Contract!Answers
    <2>5. CASE Resource = "awake" /\ Cloudflare!Return("alive")
      BY <2>1, <2>5, Resolves DEF Cloudflare!Return, Contract!Answers
    <2>6. CASE Resource = "gone" /\ Cloudflare!Return("gone")
      BY <2>1, <2>6, Resolves DEF Cloudflare!Return, Contract!Answers
    <2> QED
      BY <2>2, <2>3, <2>4, <2>5, <2>6
  <1>10. CASE Cloudflare!holdAwake
    <2>1. op = "holdAwake" /\ Late' = Late
      BY <1>0, <1>10 DEF Cloudflare!holdAwake, CloudflareAt
    <2> QED
      BY <1>10, <2>1, Resolves DEF Cloudflare!holdAwake, Cloudflare!Return,
         Contract!Answers
  <1>11. CASE Cloudflare!platform
    <2>1. UNCHANGED <<op, at, out>> /\ Late' = Late
      BY <1>0, <1>11 DEF Cloudflare!platform, CloudflareMem
    <2>2. CASE op = "idle"
      <3>1. inst.gen = 0 => inst'.gen = 0
        BY <1>11 DEF Cloudflare!platform, Cloudflare!None
      <3>2. Resource = "gone" => Resource' = "gone"
        BY <1>0, <1>k, <3>1 DEF Cloudflare!Resource, CloudflareInv
      <3> QED
        BY <2>1, <2>2, <3>2, Drifts
    <2>3. CASE op # "idle"
      BY <2>1, <2>3, Changes
    <2> QED
      BY <2>2, <2>3
  <1>12. CASE Cloudflare!restart
    <2>1. op' = "idle" /\ out' = "none" /\ Resource' = Resource /\ Late' = Late
      BY <1>0, <1>12 DEF Cloudflare!restart, Cloudflare!Resource, CloudflareMem
    <2> QED
      BY <2>1, Forgets
  <1> QED
    BY <1>1, <1>2, <1>3, <1>4, <1>5, <1>6, <1>7, <1>8, <1>9, <1>10, <1>11, <1>12
    DEF Cloudflare!Next, Cloudflare!Step

(* What a materialize resolves on is its own generation.                    *)
LEMMA CloudflareStartsNew ==
    ASSUME CloudflareInv, Cloudflare!Next, ~mem.late PROVE Cloudflare!StartsTheNew
  <1> SUFFICES ASSUME op = "materialize", out' = "ok" PROVE inst'.gen \in {0, mem.gen}
    BY DEF Cloudflare!StartsTheNew
  <1>0. at \in {"replace", "start", "probe"} /\ mem \in CloudflareMem
        /\ (at \in {"start", "probe"} => inst.gen \in {0, mem.gen}) /\ out = "none"
    BY DEF CloudflareInv, CloudflareAt
  <1>1. CASE Cloudflare!probe
    BY <1>0, <1>1 DEF Cloudflare!probe
  <1>2. ~Cloudflare!callMaterialize /\ ~Cloudflare!platform /\ ~Cloudflare!restart
    BY <1>0 DEF Cloudflare!callMaterialize, Cloudflare!platform, Cloudflare!restart
  <1>3. ASSUME NEW o \in DOMAIN Cloudflare!FirstStep, Cloudflare!call(o) PROVE FALSE
    BY <1>3 DEF Cloudflare!call
  <1>4. ~Cloudflare!replace /\ ~Cloudflare!start
    BY <1>0 DEF Cloudflare!replace, Cloudflare!start, Cloudflare!destroyQuietly,
                Cloudflare!Goto, Cloudflare!Return
  <1>5. /\ ~Cloudflare!destroy /\ ~Cloudflare!exec /\ ~Cloudflare!exposePort
        /\ ~Cloudflare!instanceStatus /\ ~Cloudflare!holdAwake
    BY <1>0 DEF Cloudflare!destroy, Cloudflare!exec, Cloudflare!exposePort,
                Cloudflare!instanceStatus, Cloudflare!holdAwake
  <1> QED
    BY <1>1, <1>2, <1>3, <1>4, <1>5 DEF Cloudflare!Next, Cloudflare!Step
-----------------------------------------------------------------------------
(* The registry.                                                            *)

KindInv == /\ kind = "docker" => DockerInv
           /\ kind = "sprites" => SpritesInv
           /\ kind = "cloudflare" => CloudflareInv
           /\ kind = "box" => BoxInv
           /\ kind = "fake" => FakeInv

(* A call is under way only at a driver, which is constructed for good; what *)
(* is chosen from is one of the tables and one of the weightings.           *)
SInv == /\ kind \in SUBSTRATE_NAMES \cup {"select"} /\ driver \in {"none", "ready", "rejected"}
        /\ driver # "ready" => op = "idle"
        /\ driver = "none" => out = "none"
        /\ kind = "select" => driver = "none" /\ asked \in [table : Tables, weights : Weights]
        /\ Watched /\ KindInv

LEMMA ResourceIs == KindInv => Resource \in Contract!Resources
  <1> SUFFICES ASSUME KindInv PROVE Resource \in Contract!Resources
    OBVIOUS
  <1> USE DEF KindInv, Resource, Contract!Resources
  <1>1. CASE kind = "docker"
    BY <1>1 DEF Docker!Resource
  <1>2. CASE kind = "sprites"
    BY <1>2 DEF Sprites!Resource
  <1>3. CASE kind = "cloudflare"
    BY <1>3 DEF Cloudflare!Resource, CloudflareInv
  <1>4. CASE kind = "box"
    <2>1. Box!Resource \in {"gone", "warm", "up", "awake"}
      BY <1>4 DEF Box!Resource, BoxInv, Box!BoxStates
    <2> QED
      BY <1>4, <2>1
  <1>5. CASE kind = "fake"
    BY <1>5 DEF Fake!Resource
  <1>6. CASE kind \notin {"docker", "sprites", "cloudflare", "box", "fake"}
    BY <1>6
  <1> QED
    BY <1>1, <1>2, <1>3, <1>4, <1>5, <1>6

LEMMA SInvInit == Init => SInv
  <1> SUFFICES ASSUME Init PROVE SInv
    OBVIOUS
  <1>1. seen = {} /\ driver = "none" /\ op = "idle" /\ out = "none"
    BY DEF Init, Docker!Init, Sprites!Init, Cloudflare!Init, Box!Init, Fake!Init
  <1>2. CASE kind = "select"
    BY <1>1, <1>2 DEF Init, SInv, KindInv, Watched
  <1>3. CASE kind = "docker"
    <2>1. Docker!Init
      BY <1>3 DEF Init
    <2>2. DockerInv
      BY <2>1 DEF Docker!Init, DockerInv, DockerPlaces
    <2> QED
      BY <1>1, <1>3, <2>2 DEF SInv, KindInv, Watched, SUBSTRATE_NAMES
  <1>4. CASE kind = "sprites"
    <2>1. Sprites!Init
      BY <1>4 DEF Init
    <2>2. SpritesInv
      BY <2>1 DEF Sprites!Init, SpritesInv, SpritesPlaces
    <2> QED
      BY <1>1, <1>4, <2>2 DEF SInv, KindInv, Watched, SUBSTRATE_NAMES
  <1>5. CASE kind = "cloudflare"
    <2>1. Cloudflare!Init
      BY <1>5 DEF Init
    <2>2. CloudflareInv
      BY <2>1 DEF Cloudflare!Init, CloudflareInv, CloudflareMem, CloudflareAt,
         Cloudflare!None
    <2> QED
      BY <1>1, <1>5, <2>2 DEF SInv, KindInv, Watched, SUBSTRATE_NAMES
  <1>6. CASE kind = "box"
    <2>1. Box!Init
      BY <1>6 DEF Init
    <2>2. BoxInv
      BY <2>1 DEF Box!Init, BoxInv, BoxAt, Box!BoxStates
    <2> QED
      BY <1>1, <1>6, <2>2 DEF SInv, KindInv, Watched, SUBSTRATE_NAMES
  <1>7. CASE kind = "fake"
    <2>1. Fake!Init
      BY <1>7 DEF Init
    <2>2. FakeInv
      BY <2>1 DEF Fake!Init, FakeInv, Fake!Ops
    <2> QED
      BY <1>1, <1>7, <2>2 DEF SInv, KindInv, Watched, SUBSTRATE_NAMES
  <1> QED
    BY <1>2, <1>3, <1>4, <1>5, <1>6, <1>7 DEF Init

(* A routed step keeps its driver's invariant and is a step of the contract. *)
LEMMA RouteStep ==
    ASSUME SInv, route PROVE SInv' /\ Contract!Next
  <1>1. /\ driver = "ready" /\ driver' = "ready" /\ kind' = kind /\ asked' = asked
        /\ Observe /\ DriverNext /\ Watched /\ KindInv
    BY DEF route, Observe, SInv
  <1>2. KindInv'
    BY <1>1, DockerKeeps, SpritesKeeps, CloudflareKeeps, BoxKeeps, FakeKeeps
    DEF KindInv, DriverNext
  <1>a. (KindInv => Resource \in Contract!Resources)'
    BY ResourceIs, PTL
  <1>3. Routed
    BY <1>1, <1>2, <1>a, ResourceIs DEF Routed
  <1>4. Watched'
    BY <1>3, RoutedIsWatched
  <1>5. SInv'
    BY <1>1, <1>2, <1>4 DEF SInv
  <1>6. Contract!Next
    BY <1>1, <1>3, DockerImplements, SpritesImplements, CloudflareImplements,
       BoxImplements,
       FakeImplements
    DEF KindInv, DriverNext
  <1> QED
    BY <1>5, <1>6

(* To the contract, a driver constructed or one that is not there is no step. *)
LEMMA SInvStep ==
    ASSUME SInv, [Next]_vars PROVE SInv' /\ [Contract!Next]_(Contract!vars)
  <1>1. CASE construct \/ refuse \/ UNCHANGED vars
    <2>1. /\ UNCHANGED <<kind, asked, seen, inst, mem, op, at>>
          /\ driver' \in {"none", "ready", "rejected"}
      BY <1>1 DEF construct, refuse, vars, drv, SInv
    <2>2. Resource' = Resource /\ Watched' /\ KindInv'
      <3>1. Watched /\ KindInv
        BY DEF SInv
      <3>2. Resource' = Resource
        BY <2>1 DEF Resource, Docker!Resource, Sprites!Resource, Cloudflare!Resource,
                    Box!Resource, Fake!Resource, Fake!isLive
      <3>3. Watched'
        BY <2>1, <3>1, <3>2 DEF Watched
      <3>4. (kind = "docker" => DockerInv') /\ (kind = "sprites" => SpritesInv')
            /\ (kind = "fake" => FakeInv')
        BY <2>1, <3>1 DEF KindInv, DockerInv, SpritesInv, FakeInv
      <3>5. kind = "box" => BoxInv'
        BY <2>1, <3>1 DEF KindInv, BoxInv
      <3>6. kind = "cloudflare" => CloudflareInv'
        BY <1>1, <2>1, <3>1
        DEF KindInv, CloudflareInv, CloudflareAt, SInv, construct, refuse, vars, drv
      <3> QED
        BY <2>1, <3>2, <3>3, <3>4, <3>5, <3>6 DEF KindInv
    <2>3. /\ driver' # "ready" => op' = "idle"
          /\ driver' = "none" => out' = "none"
          /\ kind' = "select" => driver' = "none"
          /\ UNCHANGED (IF driver = "rejected" THEN "none" ELSE out)
      BY <1>1, <2>1 DEF construct, refuse, vars, drv, SInv, SUBSTRATE_NAMES
    <2>4. SInv'
      BY <2>1, <2>2, <2>3 DEF SInv
    <2>5. UNCHANGED Contract!vars
      BY <2>1, <2>2, <2>3 DEF Contract!vars
    <2> QED
      BY <2>4, <2>5
  <1>2. CASE route
    BY <1>2, RouteStep
  <1> QED
    BY <1>1, <1>2 DEF Next

LEMMA ContractInit == Init => Contract!Init
  <1> SUFFICES ASSUME Init PROVE Contract!Init
    OBVIOUS
  <1>1. SInv /\ seen = {} /\ driver = "none" /\ op = "idle" /\ out = "none"
    BY SInvInit DEF Init, Docker!Init, Sprites!Init, Cloudflare!Init, Box!Init, Fake!Init
  <1>2. Resource \in Contract!Resources
    BY <1>1, ResourceIs DEF SInv
  <1>3. (kind = "cloudflare" /\ mem.late) = FALSE
    BY DEF Init, Cloudflare!Init
  <1> QED
    BY <1>1, <1>2, <1>3 DEF Contract!Init

(* Every driver keeps the provider's contract: a call that resolves has seen *)
(* the state it promises (substrates/provider.ts).                          *)
THEOREM PromiseKeptAlways == Spec => PromiseKept
  <1>1. Init => SInv
    BY SInvInit
  <1>2. Init => Contract!Init
    BY ContractInit
  <1>3. SInv /\ [Next]_vars => SInv' /\ [Contract!Next]_(Contract!vars)
    BY SInvStep
  <1> QED
    BY <1>1, <1>2, <1>3, PTL DEF Spec, PromiseKept, Contract!Spec

(* A box whose supervisor never started is not left billing (box.ts,        *)
(* materialize).                                                            *)
THEOREM NotLeftBillingEver == Spec => NotLeftBilling
  <1>1. Init => SInv
    BY SInvInit
  <1>2. SInv /\ [Next]_vars => SInv'
    BY SInvStep
  <1>3. ASSUME SInv, [Next]_vars
        PROVE  [kind = "box" => Box!StopsWhatFailed]_vars
    <2>1. ASSUME kind = "box", route PROVE Box!StopsWhatFailed
      BY <1>3, <2>1, BoxStops DEF route, DriverNext, SInv, KindInv
    <2>2. ASSUME construct \/ refuse PROVE Box!StopsWhatFailed
      BY <1>3, <2>2 DEF construct, refuse, SInv, Box!StopsWhatFailed
    <2> QED
      BY <1>3, <2>1, <2>2 DEF Next
  <1> QED
    BY <1>1, <1>2, <1>3, PTL DEF Spec, NotLeftBilling

(* What runs once a Cloudflare materialize resolved is the generation it was *)
(* asked for, unless the destroy before it outlasted its budget             *)
(* (cloudflare.ts, materialize).                                            *)
THEOREM NewGenerationEver == Spec => NewGeneration
  <1>1. Init => SInv
    BY SInvInit
  <1>2. SInv /\ [Next]_vars => SInv'
    BY SInvStep
  <1>3. ASSUME SInv, [Next]_vars
        PROVE  [(kind = "cloudflare" /\ ~mem.late) => Cloudflare!StartsTheNew]_vars
    <2>1. ASSUME kind = "cloudflare", ~mem.late, route PROVE Cloudflare!StartsTheNew
      BY <1>3, <2>1, CloudflareStartsNew DEF route, DriverNext, SInv, KindInv
    <2>2. ASSUME construct \/ refuse PROVE Cloudflare!StartsTheNew
      BY <1>3, <2>2 DEF construct, refuse, SInv, Cloudflare!StartsTheNew
    <2> QED
      BY <1>3, <2>1, <2>2 DEF Next
  <1> QED
    BY <1>1, <1>2, <1>3, PTL DEF Spec, NewGeneration

-----------------------------------------------------------------------------
(* The choice.  Of some natural numbers one is the least, and of finitely   *)
(* many one the greatest.                                                   *)

LEMMA LeastOf ==
    ASSUME NEW T, T \subseteq Nat, T # {}
    PROVE  \E n \in T : \A m \in T : n <= m
  <1> DEFINE R == {ss \in Nat \X Nat : ss[1] < ss[2]}
  <1>1. IsWellFoundedOn(R, Nat)
    BY NatLessThanWellFounded DEF OpToRel
  <1> HIDE DEF R
  <1>2. PICK n \in T : \A m \in T : <<m, n>> \notin R
    BY <1>1, WFMin
  <1>3. ASSUME NEW m \in T PROVE n <= m
    <2>1. <<m, n>> \in Nat \X Nat /\ <<m, n>>[1] = m /\ <<m, n>>[2] = n
      OBVIOUS
    <2>2. ~(m < n)
      BY <1>2, <2>1 DEF R
    <2> QED
      BY <2>2
  <1> QED
    BY <1>3

(* The set with the fewest elements that had no greatest would have one     *)
(* without any of its elements.                                             *)
LEMMA GreatestOf ==
    ASSUME NEW T, T \subseteq Nat, T # {}, IsFiniteSet(T)
    PROVE  \E n \in T : \A m \in T : n >= m
  <1> DEFINE Has(S) == \E n \in S : \A m \in S : n >= m
             Without == {S \in SUBSET T : S # {} /\ ~Has(S)}
             Sizes == {Cardinality(S) : S \in Without}
  <1>1. SUFFICES ASSUME T \in Without PROVE FALSE
    OBVIOUS
  <1>2. \A S \in Without : IsFiniteSet(S) /\ Cardinality(S) \in Nat
    BY FS_Subset, FS_CardinalityType
  <1>3. Sizes \subseteq Nat /\ Sizes # {}
    BY <1>1, <1>2
  <1>4. PICK c \in Sizes : \A d \in Sizes : c <= d
    BY <1>3, LeastOf
  <1>5. PICK S \in Without : Cardinality(S) = c
    BY <1>4
  <1>6. PICK x : x \in S
    BY <1>5
  <1>7. Cardinality(S \ {x}) = c - 1
    BY <1>2, <1>5, <1>6, FS_RemoveElement
  <1>8. S \ {x} \notin Without
    <2>1. SUFFICES ASSUME S \ {x} \in Without PROVE FALSE
      OBVIOUS
    <2>2. c - 1 \in Sizes
      BY <1>7, <2>1
    <2> HIDE DEF Sizes
    <2> QED
      BY <1>3, <1>4, <2>2
  <1>9. Has(S)
    <2>1. CASE S \ {x} = {}
      BY <1>5, <1>6, <2>1
    <2>2. CASE S \ {x} # {}
      <3>1. PICK n \in S \ {x} : \A m \in S \ {x} : n >= m
        BY <1>5, <1>8, <2>2
      <3>2. n \in Nat /\ x \in Nat /\ S \subseteq Nat
        BY <1>5, <1>6, <3>1
      <3>3. CASE n >= x
        BY <3>1, <3>2, <3>3
      <3>4. CASE ~(n >= x)
        <4>1. \A m \in S : x >= m
          BY <3>1, <3>2, <3>4
        <4> QED
          BY <1>6, <4>1
      <3> QED
        BY <3>3, <3>4
    <2> QED
      BY <2>1, <2>2
  <1> QED
    BY <1>5, <1>9

LEMMA Times ==
    ASSUME NEW x \in Nat, NEW y \in Nat, NEW k \in Nat
    PROVE  /\ x * k \in Nat
           /\ x <= y => x * k <= y * k
           /\ x < y /\ k > 0 => x * k < y * k
           /\ x > 0 /\ k > 0 => x * k > 0
  <1>0. x * k \in Nat /\ y * k \in Nat
    OBVIOUS
  <1>1. ASSUME x <= y PROVE x * k <= y * k
    <2> DEFINE d == y - x
    <2>1. d \in Nat /\ y = x + d
      BY <1>1
    <2> HIDE DEF d
    <2>2. (x + d) * k = x * k + d * k /\ d * k \in Nat
      BY <2>1
    <2> QED
      BY <1>0, <2>1, <2>2
  <1>2. ASSUME x < y, k > 0 PROVE x * k < y * k
    <2> DEFINE d == y - x
    <2>1. d \in Nat /\ d >= 1 /\ y = x + d
      BY <1>2
    <2> HIDE DEF d
    <2>2. (x + d) * k = x * k + d * k /\ d * k \in Nat /\ d * k >= 1
      BY <1>2, <2>1
    <2> QED
      BY <1>0, <2>1, <2>2
  <1>3. ASSUME x > 0, k > 0 PROVE x * k > 0
    BY <1>3
  <1> QED
    BY <1>0, <1>1, <1>2, <1>3

(* A weighted term grows with its factor, strictly where it has weight.     *)
LEMMA TermGrows ==
    ASSUME NEW w \in Nat, NEW x \in Nat, NEW y \in Nat, NEW k \in Nat, NEW l \in Nat,
           k > 0, l > 0
    PROVE  /\ w * x * k * l \in Nat
           /\ x <= y => w * x * k * l <= w * y * k * l
           /\ w > 0 /\ x < y => w * x * k * l < w * y * k * l
  <1>1. /\ x * w \in Nat /\ y * w \in Nat /\ w * x = x * w /\ w * y = y * w
        /\ x <= y => w * x <= w * y
        /\ w > 0 /\ x < y => w * x < w * y
    BY Times
  <1> DEFINE a == w * x  b == w * y
  <1>2. a \in Nat /\ b \in Nat /\ (x <= y => a <= b) /\ (w > 0 /\ x < y => a < b)
    BY <1>1
  <1> HIDE DEF a, b
  <1>3. /\ a * k \in Nat /\ b * k \in Nat
        /\ a <= b => a * k <= b * k
        /\ a < b => a * k < b * k
    BY <1>2, Times
  <1> DEFINE ak == a * k  bk == b * k
  <1>4. ak \in Nat /\ bk \in Nat /\ (a <= b => ak <= bk) /\ (a < b => ak < bk)
    BY <1>3
  <1> HIDE DEF ak, bk
  <1>5. /\ ak * l \in Nat
        /\ ak <= bk => ak * l <= bk * l
        /\ ak < bk => ak * l < bk * l
    BY <1>4, Times
  <1>6. w * x * k * l = ak * l /\ w * y * k * l = bk * l
    BY DEF a, b, ak, bk
  <1> QED
    BY <1>2, <1>4, <1>5, <1>6
LEMMA ImageIsFinite ==
    ASSUME NEW S, IsFiniteSet(S), NEW F
    PROVE  IsFiniteSet({F[x] : x \in S})
  <1> DEFINE G == [x \in S |-> F[x]]
             T == {F[x] : x \in S}
  <1>1. G \in [S -> T] /\ \A y \in T : \E x \in S : G[x] = y
    OBVIOUS
  <1>2. G \in Surjection(S, T)
    BY <1>1 DEF Surjection
  <1> QED
    BY <1>2, FS_Surjection

Factors == {"usdPerHour", "capacity", "wakeLatencyMs"}

LEMMA KnownIsFinite ==
    ASSUME NEW t \in Tables
    PROVE  /\ IsFiniteSet(DOMAIN t) /\ IsFiniteSet(known(t))
           /\ known(t) \subseteq Nat /\ known(t) # {}
           /\ \A c \in DOMAIN t : \E i \in known(t) : Candidates[i] = c
           /\ \A i \in known(t) : Candidates[i] \in DOMAIN t
           /\ \A c \in DOMAIN t, f \in Factors : t[c][f] \in Nat
  <1>1. /\ Len(Candidates) \in Nat /\ DOMAIN Candidates = 1..Len(Candidates)
        /\ DOMAIN t # {} /\ DOMAIN t \subseteq {Candidates[i] : i \in DOMAIN Candidates}
        /\ \A c \in DOMAIN t : t[c] \in Profile
    BY TableAssumption
  <1>2. IsFiniteSet(DOMAIN Candidates)
    BY <1>1, FS_Interval
  <1>3. IsFiniteSet({Candidates[i] : i \in DOMAIN Candidates})
    BY <1>2, ImageIsFinite
  <1>4. IsFiniteSet(DOMAIN t)
    BY <1>1, <1>3, FS_Subset
  <1>5. IsFiniteSet(known(t)) /\ known(t) \subseteq DOMAIN Candidates
    BY <1>2, FS_Subset DEF known
  <1>6. \A c \in DOMAIN t : \E i \in known(t) : Candidates[i] = c
    BY <1>1 DEF known
  <1>7. \A i \in known(t) : Candidates[i] \in DOMAIN t
    BY DEF known
  <1>8. \A c \in DOMAIN t, f \in Factors : t[c][f] \in Nat
    BY <1>1 DEF Factors, Profile
  <1> QED
    BY <1>1, <1>4, <1>5, <1>6, <1>7, <1>8

(* A factor is a share of a spread that is not nothing, and follows what it *)
(* measures.                                                                *)
LEMMA FactorFollows ==
    ASSUME NEW t \in Tables, NEW f \in Factors
    PROVE  /\ spread(t, f) \in Nat /\ spread(t, f) > 0
           /\ \A c \in DOMAIN t : lowerIsBetter(t, c, f) \in Nat /\ higherIsBetter(t, c, f) \in Nat
           /\ \A c, d \in DOMAIN t :
                /\ t[c][f] <= t[d][f] => /\ lowerIsBetter(t, d, f) <= lowerIsBetter(t, c, f)
                                         /\ higherIsBetter(t, c, f) <= higherIsBetter(t, d, f)
                /\ t[c][f] < t[d][f] => /\ lowerIsBetter(t, d, f) < lowerIsBetter(t, c, f)
                                        /\ higherIsBetter(t, c, f) < higherIsBetter(t, d, f)
  <1> DEFINE all == {t[c][f] : c \in DOMAIN t}
             column == [c \in DOMAIN t |-> t[c][f]]
  <1>1. all \subseteq Nat /\ all # {} /\ \A c \in DOMAIN t : t[c][f] \in all
    BY KnownIsFinite
  <1>2. IsFiniteSet(all)
    <2>1. {column[c] : c \in DOMAIN t} = all
      OBVIOUS
    <2> HIDE DEF column, all
    <2>2. IsFiniteSet({column[c] : c \in DOMAIN t})
      BY KnownIsFinite, ImageIsFinite
    <2> QED
      BY <2>1, <2>2
  <1> HIDE DEF column
  <1>3. /\ spread(t, f) = IF Cardinality(all) = 1 THEN 1 ELSE Max(all) - Min(all)
        /\ \A c \in DOMAIN t :
             /\ lowerIsBetter(t, c, f) = IF Cardinality(all) = 1 THEN 1 ELSE Max(all) - t[c][f]
             /\ higherIsBetter(t, c, f) = IF Cardinality(all) = 1 THEN 1 ELSE t[c][f] - Min(all)
    BY DEF spread, lowerIsBetter, higherIsBetter
  <1> HIDE DEF all
  <1>4. Max(all) \in all /\ \A n \in all : Max(all) >= n
    <2>1. \E n \in all : \A m \in all : n >= m
      BY <1>1, <1>2, GreatestOf
    <2> QED
      BY <2>1, Zenon DEF Max
  <1>5. Min(all) \in all /\ \A n \in all : Min(all) <= n
    <2>1. \E n \in all : \A m \in all : n <= m
      BY <1>1, LeastOf
    <2> QED
      BY <2>1, Zenon DEF Min
  <1>6. CASE Cardinality(all) = 1
    <2>1. PICK x : all = {x}
      BY <1>2, <1>6, FS_Singleton
    <2>2. \A c, d \in DOMAIN t : t[c][f] = t[d][f] /\ t[c][f] \in Nat
      BY <1>1, <2>1
    <2>3. /\ spread(t, f) = 1
          /\ \A c \in DOMAIN t : lowerIsBetter(t, c, f) = 1 /\ higherIsBetter(t, c, f) = 1
      BY <1>3, <1>6
    <2> QED
      BY <2>2, <2>3
  <1>7. CASE Cardinality(all) # 1
    <2>1. Max(all) \in Nat /\ Min(all) \in Nat /\ Min(all) <= Max(all)
      BY <1>1, <1>4, <1>5
    <2>2. Min(all) # Max(all)
      <3>1. SUFFICES ASSUME Min(all) = Max(all) PROVE FALSE
        OBVIOUS
      <3>2. \A n \in all : n = Max(all)
        BY <1>1, <1>4, <1>5, <2>1, <3>1
      <3>3. all = {Max(all)}
        BY <1>4, <3>2
      <3> QED
        BY <1>7, <3>3, FS_Singleton
    <2>3. \A c \in DOMAIN t : t[c][f] \in Nat /\ Min(all) <= t[c][f] /\ t[c][f] <= Max(all)
      BY <1>1, <1>4, <1>5
    <2>4. /\ spread(t, f) = Max(all) - Min(all)
          /\ \A c \in DOMAIN t : /\ lowerIsBetter(t, c, f) = Max(all) - t[c][f]
                                 /\ higherIsBetter(t, c, f) = t[c][f] - Min(all)
      BY <1>3, <1>7
    <2> QED
      BY <2>1, <2>2, <2>3, <2>4
  <1> QED
    BY <1>6, <1>7

(* What is no worse by any factor scores no less, and more when it is       *)
(* better by one that has weight.                                           *)
LEMMA ScoreFollows ==
    ASSUME NEW t \in Tables, NEW w \in Weights
    PROVE  /\ \A c \in DOMAIN t : score(t, w, c) \in Nat
           /\ \A c, s \in DOMAIN t :
                /\ t[c].usdPerHour <= t[s].usdPerHour
                /\ t[c].capacity >= t[s].capacity
                /\ t[c].wakeLatencyMs <= t[s].wakeLatencyMs
                /\ \/ w.price > 0 /\ t[c].usdPerHour < t[s].usdPerHour
                   \/ w.capacity > 0 /\ t[c].capacity > t[s].capacity
                   \/ w.latency > 0 /\ t[c].wakeLatencyMs < t[s].wakeLatencyMs
                => score(t, w, s) < score(t, w, c)
  <1> DEFINE p == spread(t, "usdPerHour")  k == spread(t, "capacity")
             l == spread(t, "wakeLatencyMs")
             P(c) == lowerIsBetter(t, c, "usdPerHour")
             C(c) == higherIsBetter(t, c, "capacity")
             L(c) == lowerIsBetter(t, c, "wakeLatencyMs")
  <1>1. w.price \in Nat /\ w.capacity \in Nat /\ w.latency \in Nat
    BY WeightAssumption
  <1>2. /\ p \in Nat /\ p > 0
        /\ \A c \in DOMAIN t : P(c) \in Nat
        /\ \A c, s \in DOMAIN t : /\ t[c].usdPerHour <= t[s].usdPerHour => P(s) <= P(c)
                                  /\ t[c].usdPerHour < t[s].usdPerHour => P(s) < P(c)
    BY FactorFollows DEF Factors
  <1>3. /\ k \in Nat /\ k > 0
        /\ \A c \in DOMAIN t : C(c) \in Nat
        /\ \A c, s \in DOMAIN t : /\ t[s].capacity <= t[c].capacity => C(s) <= C(c)
                                  /\ t[s].capacity < t[c].capacity => C(s) < C(c)
    BY FactorFollows DEF Factors
  <1>4. /\ l \in Nat /\ l > 0
        /\ \A c \in DOMAIN t : L(c) \in Nat
        /\ \A c, s \in DOMAIN t : /\ t[c].wakeLatencyMs <= t[s].wakeLatencyMs => L(s) <= L(c)
                                  /\ t[c].wakeLatencyMs < t[s].wakeLatencyMs => L(s) < L(c)
    BY FactorFollows DEF Factors
  <1>5. \A c \in DOMAIN t : score(t, w, c) = w.price * P(c) * k * l + w.capacity * C(c) * p * l
                                            + w.latency * L(c) * p * k
    BY DEF score
  <1>6. \A c \in DOMAIN t : /\ t[c].usdPerHour \in Nat /\ t[c].capacity \in Nat
                            /\ t[c].wakeLatencyMs \in Nat
    BY KnownIsFinite DEF Factors
  <1> HIDE DEF p, k, l, P, C, L
  <1>7. ASSUME NEW c \in DOMAIN t, NEW s \in DOMAIN t
        PROVE  /\ w.price * P(c) * k * l \in Nat
               /\ P(s) <= P(c) => w.price * P(s) * k * l <= w.price * P(c) * k * l
               /\ w.price > 0 /\ P(s) < P(c)
                    => w.price * P(s) * k * l < w.price * P(c) * k * l
    BY <1>1, <1>2, <1>3, <1>4, <1>7, TermGrows
  <1>8. ASSUME NEW c \in DOMAIN t, NEW s \in DOMAIN t
        PROVE  /\ w.capacity * C(c) * p * l \in Nat
               /\ C(s) <= C(c) => w.capacity * C(s) * p * l <= w.capacity * C(c) * p * l
               /\ w.capacity > 0 /\ C(s) < C(c)
                    => w.capacity * C(s) * p * l < w.capacity * C(c) * p * l
    BY <1>1, <1>2, <1>3, <1>4, <1>8, TermGrows
  <1>9. ASSUME NEW c \in DOMAIN t, NEW s \in DOMAIN t
        PROVE  /\ w.latency * L(c) * p * k \in Nat
               /\ L(s) <= L(c) => w.latency * L(s) * p * k <= w.latency * L(c) * p * k
               /\ w.latency > 0 /\ L(s) < L(c)
                    => w.latency * L(s) * p * k < w.latency * L(c) * p * k
    BY <1>1, <1>2, <1>3, <1>4, <1>9, TermGrows
  <1> DEFINE a(c) == w.price * P(c) * k * l
             b(c) == w.capacity * C(c) * p * l
             e(c) == w.latency * L(c) * p * k
  <1>10. ASSUME NEW c \in DOMAIN t, NEW s \in DOMAIN t
         PROVE  /\ a(c) \in Nat /\ b(c) \in Nat /\ e(c) \in Nat
                /\ P(s) <= P(c) => a(s) <= a(c)
                /\ C(s) <= C(c) => b(s) <= b(c)
                /\ L(s) <= L(c) => e(s) <= e(c)
                /\ w.price > 0 /\ P(s) < P(c) => a(s) < a(c)
                /\ w.capacity > 0 /\ C(s) < C(c) => b(s) < b(c)
                /\ w.latency > 0 /\ L(s) < L(c) => e(s) < e(c)
    BY <1>7, <1>8, <1>9, <1>10
  <1>11. \A c \in DOMAIN t : score(t, w, c) = a(c) + b(c) + e(c)
    BY <1>5
  <1> HIDE DEF a, b, e
  <1>12. \A c \in DOMAIN t : score(t, w, c) \in Nat
    BY <1>10, <1>11
  <1>13. ASSUME NEW c \in DOMAIN t, NEW s \in DOMAIN t,
                t[c].usdPerHour <= t[s].usdPerHour,
                t[c].capacity >= t[s].capacity,
                t[c].wakeLatencyMs <= t[s].wakeLatencyMs,
                \/ w.price > 0 /\ t[c].usdPerHour < t[s].usdPerHour
                \/ w.capacity > 0 /\ t[c].capacity > t[s].capacity
                \/ w.latency > 0 /\ t[c].wakeLatencyMs < t[s].wakeLatencyMs
         PROVE  score(t, w, s) < score(t, w, c)
    <2>1. /\ t[s].capacity <= t[c].capacity
          /\ t[c].capacity > t[s].capacity => t[s].capacity < t[c].capacity
      BY <1>6, <1>13
    <2>2. P(s) <= P(c) /\ C(s) <= C(c) /\ L(s) <= L(c)
      BY <1>2, <1>3, <1>4, <1>13, <2>1
    <2>3. a(s) <= a(c) /\ b(s) <= b(c) /\ e(s) <= e(c)
      BY <1>10, <2>2
    <2>4. a(s) < a(c) \/ b(s) < b(c) \/ e(s) < e(c)
      BY <1>2, <1>3, <1>4, <1>10, <1>13, <2>1
    <2>5. /\ a(c) \in Nat /\ b(c) \in Nat /\ e(c) \in Nat
          /\ a(s) \in Nat /\ b(s) \in Nat /\ e(s) \in Nat
      BY <1>10
    <2> QED
      BY <1>11, <2>3, <2>4, <2>5
  <1> QED
    BY <1>12, <1>13

(* Of the candidates that score most, the first is the best.                *)
LEMMA SomeIsBest ==
    ASSUME NEW t \in Tables, NEW w \in Weights
    PROVE  \E i \in DOMAIN Candidates : best(t, w, i)
  <1> DEFINE Score == [i \in known(t) |-> score(t, w, Candidates[i])]
             Scores == {Score[i] : i \in known(t)}
  <1>1. /\ IsFiniteSet(known(t)) /\ known(t) # {} /\ known(t) \subseteq Nat
        /\ \A i \in known(t) : Candidates[i] \in DOMAIN t
        /\ known(t) \subseteq DOMAIN Candidates
    BY KnownIsFinite DEF known
  <1>2. \A i \in known(t) : Score[i] \in Nat /\ Score[i] = score(t, w, Candidates[i])
    BY <1>1, ScoreFollows
  <1> HIDE DEF Score
  <1>3. IsFiniteSet(Scores) /\ Scores \subseteq Nat /\ Scores # {}
    BY <1>1, <1>2, ImageIsFinite
  <1>4. PICK g \in Scores : \A n \in Scores : g >= n
    BY <1>3, GreatestOf
  <1> DEFINE First == {i \in known(t) : Score[i] = g}
  <1>5. First \subseteq Nat /\ First # {}
    BY <1>1
  <1>6. PICK i \in First : \A j \in First : i <= j
    BY <1>5, LeastOf
  <1>7. ASSUME NEW j \in known(t)
        PROVE  Score[j] <= Score[i] /\ (j < i => Score[j] < Score[i])
    <2>1. Score[j] <= g /\ Score[i] = g /\ Score[j] \in Nat /\ g \in Nat /\ i \in Nat /\ j \in Nat
      BY <1>1, <1>2, <1>4, <1>6
    <2>2. j < i => Score[j] # g
      BY <1>6, <2>1
    <2> QED
      BY <2>1, <2>2
  <1>8. best(t, w, i)
    BY <1>2, <1>6, <1>7 DEF best
  <1> QED
    BY <1>1, <1>6, <1>8

LEMMA ChosenIsNotDominated ==
    ASSUME kind = "select", asked \in [table : Tables, weights : Weights] PROVE NotDominated
  <1> DEFINE t == asked.table
             w == asked.weights
             i == CHOOSE j \in DOMAIN Candidates : best(t, w, j)
             s == selectSubstrate(t, w)
  <1>1. t \in Tables /\ w \in Weights
    OBVIOUS
  <1> HIDE DEF t, w
  <1>2. best(t, w, i) /\ s = Candidates[i]
    BY <1>1, SomeIsBest DEF selectSubstrate
  <1> HIDE DEF i, s
  <1>3. i \in known(t) /\ s \in DOMAIN t
    BY <1>1, <1>2, KnownIsFinite DEF best
  <1>4. ASSUME NEW c \in DOMAIN t,
               t[c].usdPerHour <= t[s].usdPerHour,
               t[c].capacity >= t[s].capacity,
               t[c].wakeLatencyMs <= t[s].wakeLatencyMs,
               \/ w.price > 0 /\ t[c].usdPerHour < t[s].usdPerHour
               \/ w.capacity > 0 /\ t[c].capacity > t[s].capacity
               \/ w.latency > 0 /\ t[c].wakeLatencyMs < t[s].wakeLatencyMs
        PROVE  FALSE
    <2>1. score(t, w, s) < score(t, w, c)
      BY <1>1, <1>3, <1>4, ScoreFollows
    <2>2. PICK j \in known(t) : Candidates[j] = c
      BY <1>1, KnownIsFinite
    <2>3. score(t, w, c) <= score(t, w, s)
      BY <1>2, <2>2 DEF best
    <2>4. score(t, w, c) \in Nat /\ score(t, w, s) \in Nat
      BY <1>1, <1>3, ScoreFollows
    <2> QED
      BY <2>1, <2>3, <2>4
  <1> QED
    BY <1>4 DEF NotDominated, t, w, s

(* The driver chosen is never dominated: no candidate is at least as good by *)
(* every factor and better by one that has weight (selectSubstrate).        *)
THEOREM NotDominatedAlways == Spec => []NotDominated
  <1>1. Init => SInv
    BY SInvInit
  <1>2. SInv /\ [Next]_vars => SInv'
    BY SInvStep
  <1>3. SInv => NotDominated
    <2>1. SInv /\ kind = "select" => NotDominated
      BY ChosenIsNotDominated DEF SInv
    <2>2. kind # "select" => NotDominated
      BY DEF NotDominated
    <2> QED
      BY <2>1, <2>2
  <1> QED
    BY <1>1, <1>2, <1>3, PTL DEF Spec
===============================================================================
