--------------------------- MODULE StoreCredentials ---------------------------
(***************************************************************************)
(* r2-credentials.ts and its two callers in ComputerDO: what a generation is  *)
(* given to open its store with, what that opens, and when the generation is  *)
(* rotated.  Object keys are sequences of path characters, so that one        *)
(* computer's id may begin with another's.  Times are seconds.                *)
(***************************************************************************)
EXTENDS Integers, Sequences, SequencesExt

CONSTANTS Owners, Ids,  \* account digests; computer ids, as sequences
          Ttls,         \* R2_TEMP_TTL_SECONDS as deployments set it, 0 for unset
          Delays,       \* how long a materialize takes
          WakeTimeout, ColdFinalize, None

VARIABLES env,     \* the deployment: store URI, endpoint, secrets, TTL
          owner, computer,
          given,   \* what the generation's environment holds, or the error
          minted,  \* when its credential was minted, or None
          due,     \* the credential deadline, or None
          resumed, \* the generation was resumed from WARM since
          now

vars == <<env, owner, computer, given, minted, due, resumed, now>>

Clamp(ttl) == LET wanted == IF ttl > 0 THEN ttl ELSE 86400 IN
              IF wanted < 900 THEN 900 ELSE IF wanted > 604800 THEN 604800 ELSE wanted
tempCredentialTtlSeconds == Clamp(env.ttl)
lead == LET tenth == tempCredentialTtlSeconds \div 10 IN IF tenth < 3600 THEN tenth ELSE 3600

(* maridEnv scopes the configured store to the owner's opaque root. *)
tenantStoreRoot(o) == IF env.uri = "s3" THEN <<"tenants", "/">> \o o ELSE <<>>
InRoot(root, key) == IF root = <<>> THEN key ELSE root \o <<"/">> \o key

(* Mutant: the prefix ends with the id. *)
storeCredentialPrefixesOpen(c, root) ==
  {InRoot(root, k) : k \in {<<"chunks", "/">>, <<"manifests", "/">>} \cup
                           {<<dir, "/">> \o c : dir \in {"journal", "runs", "state"}}}

storeCredentialPrefixes(c, root) ==
  {InRoot(root, k) : k \in {<<"chunks", "/">>, <<"manifests", "/">>} \cup
                           {<<dir, "/">> \o c \o <<"/">> : dir \in {"journal", "runs", "state"}}}

storeCredentialObjects(c, root) == {InRoot(root, <<"heat", "/">> \o c \o <<".cbor">>)}

Never == -1 \* no deadline: the store needs no credential

Error == [kind |-> "error"]

(* What composeStoreEnv returns for a scoped store, or throws. *)
composeStoreEnv(c, o) ==
  IF env.uri = "fs" THEN [kind |-> "none"]
  ELSE IF ~env.endpoint THEN Error
  ELSE IF env.parent
       THEN [kind |-> "minted", prefixes |-> storeCredentialPrefixes(c, tenantStoreRoot(o)),
             objects |-> storeCredentialObjects(c, tenantStoreRoot(o))]
  ELSE IF env.static /\ env.allowStatic THEN [kind |-> "static"] ELSE Error

--------------------------------------------------------------------------------
Init == /\ env \in [uri : {"fs", "s3"}, endpoint : BOOLEAN, parent : BOOLEAN, static : BOOLEAN,
                    allowStatic : BOOLEAN, ttl : Ttls]
        /\ owner \in Owners /\ computer \in Ids
        /\ given = [kind |-> "absent"] /\ minted = None /\ due = None /\ resumed = FALSE /\ now = 0

(* A cold wake up to the mint: it answers, is refused, or times out (15 s). *)
maridEnv == /\ given.kind \in {"absent", "error"}
            /\ given' \in {composeStoreEnv(computer, owner)}
                          \cup (IF composeStoreEnv(computer, owner).kind = "minted" THEN {Error} ELSE {})
            /\ minted' = IF given'.kind = "minted" THEN now ELSE None
            /\ UNCHANGED <<env, owner, computer, due, resumed, now>>

(* Mutant: the rotation waits for the expiry itself. *)
awakeAtExpiry ==
  /\ given.kind \in {"none", "minted", "static"} /\ due = None
  /\ \E d \in Delays : d <= WakeTimeout /\ now' = now + d
  /\ due' = IF env.uri = "s3" THEN now' + tempCredentialTtlSeconds ELSE Never
  /\ UNCHANGED <<env, owner, computer, given, minted, resumed>>

(* The substrate answers within the wake's budget, and the deadline is armed from
   then on, whatever the generation was given. *)
awake == /\ given.kind \in {"none", "minted", "static"} /\ due = None
         /\ \E d \in Delays : d <= WakeTimeout /\ now' = now + d
         /\ due' = IF env.uri = "s3" THEN now' + tempCredentialTtlSeconds - lead ELSE Never
         /\ UNCHANGED <<env, owner, computer, given, minted, resumed>>

(* A WARM computer is resumed some time later: the deadline starts over, and what
   its machine was given does not change. *)
resume == /\ due \notin {None, Never} /\ ~resumed /\ resumed' = TRUE
          /\ \E d \in Delays : now + d < due /\ now' = now + d
          /\ due' = now' + tempCredentialTtlSeconds - lead
          /\ UNCHANGED <<env, owner, computer, given, minted>>

(* onCredentialDeadline: the cold handshake, then nothing is given any more; the
   next generation's times are counted from here. *)
onCredentialDeadline ==
  /\ due \notin {None, Never} /\ now' = 0 /\ due' = None /\ minted' = None /\ resumed' = FALSE
  /\ given' = [kind |-> "absent"] /\ UNCHANGED <<env, owner, computer>>

Next == maridEnv \/ awake \/ resume \/ onCredentialDeadline

Spec == Init /\ [][Next]_vars

--------------------------------------------------------------------------------
(* The keys a computer's supervisor writes, and the ones that are its own. *)
Own(c, o) == LET root == tenantStoreRoot(o) IN
  {InRoot(root, <<dir, "/">> \o c \o <<"/", "x">>) : dir \in {"journal", "runs", "state"}}
  \cup {InRoot(root, <<"heat", "/">> \o c \o <<".cbor">>)}
Shared(o) == {InRoot(tenantStoreRoot(o), <<dir, "/", "x">>) : dir \in {"chunks", "manifests"}}

Opens(key) == key \in given.objects \/ \E p \in given.prefixes : IsPrefix(p, key)

(* A minted credential opens every key its supervisor writes, and no key of another
   computer or another account, also where one id begins with another. *)
ScopedToComputer ==
  given.kind = "minted" =>
    /\ \A key \in Own(computer, owner) \cup Shared(owner) : Opens(key)
    /\ \A c \in Ids, o \in Owners : <<c, o>> # <<computer, owner>> => \A key \in Own(c, o) : ~Opens(key)
    /\ \A o \in Owners \ {owner} : \A key \in Shared(o) : ~Opens(key)

(* When a generation that was never resumed is rotated, its credential still has
   the whole cold handshake ahead of it, so the final snapshot can be written.
   It holds where a tenth of the TTL covers the materialize and the handshake. *)
RotatedInTime ==
  due \notin {None, Never} /\ minted # None /\ ~resumed /\ lead >= WakeTimeout + ColdFinalize
  => due + ColdFinalize <= minted + tempCredentialTtlSeconds
================================================================================
