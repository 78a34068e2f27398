----------------------------- MODULE ModelGateway -----------------------------
(***************************************************************************)
(* The Model Gateway of GovSafeAgent (safeagent_gov/model_gateway): calls  *)
(* of ModelGateway.chat, each in a thread and event loop of its own        *)
(* (_run_chat, agent_demo/planners/model_gateway.py), over the shared      *)
(* registry, slots, breakers and response cache, while administrators      *)
(* reload the registry (reload_providers, backend/api/model_api.py).       *)
(*                                                                         *)
(* A step ends at every await and at every release of a lock after which   *)
(* another thread can change what the call goes on with.  A registry file  *)
(* is known by its digest.  An audit either succeeds, raises TimeoutError  *)
(* or raises something else.                                               *)
(*                                                                         *)
(* An operator named X_Without... or X_With... is X with a plausible bug,  *)
(* kept to show that a property notices it.                                *)
(***************************************************************************)
EXTENDS CircuitBreaker, ModelProvider, FiniteSets, SequencesExt

CONSTANTS
  None,        \* no provider, no call
  Calls,       \* calls of chat
  Request,     \* what a call asks: its request with tenant and actor
  Requests,
  Restricted,  \* requests that ask for private deployments
  Sticky,      \* requests with allow_fallback off
  Cacheable,   \* requests with cache_enabled
  Wanted,      \* the requested_provider of a request, or None
  Reloads,     \* runs of reload_providers
  Providers,
  Definition,  \* protocol and credential of a provider
  Attempts,    \* max_attempts of a provider
  Threshold,   \* circuit_failure_threshold of a provider
  Digests,     \* registry files
  Known,       \* the providers of a registry file
  Suits,       \* those of them that are enabled and suit a request
  Private,     \* those of them declared private deployments
  Routing,     \* the candidates of the file's routing rule
  PrivateOnly, \* the files whose rule is private_only
  Slots,       \* its max_concurrency
  CacheSize    \* its max_cache_entries

ASSUME ModelGatewayAssumption ==
  /\ None \notin Providers \cup Calls
  /\ IsFiniteSet(Calls)
  /\ Request \in [Calls -> Requests]
  /\ Definition \in [Providers -> Definitions]
  /\ Attempts \in [Providers -> Nat \ {0}]
  /\ Threshold \in [Providers -> Nat \ {0}]
  /\ Wanted \in [Requests -> Providers \cup {None}]
  /\ Known \in [Digests -> SUBSET Providers]
  /\ Suits \in [Digests -> [Requests -> SUBSET Providers]]
  /\ \A d \in Digests, q \in Requests : Suits[d][q] \subseteq Known[d]
  /\ Private \in [Digests -> SUBSET Providers]
  /\ Routing \in [Digests -> Seq(Providers)]
  /\ Slots \in [Digests -> Nat \ {0}]
  /\ CacheSize \in [Digests -> Nat]

VARIABLES
  registry,  \* the registry file in force
  slot,      \* the semaphore: its value and bound
  active,    \* _active_requests
  breaker,   \* the breaker of each provider
  cache,     \* responses by recency of use, the latest last
  chat,      \* where each call is and what it has read
  reload,    \* where each reload is
  prober,    \* the call that is a half-open breaker's probe, None when it
             \* ended without a verdict (history)
  slipped    \* a refresh ran beside a call entering or leaving its slot (history)

history == <<prober, slipped>>
vars == <<registry, slot, active, breaker, cache, chat, reload, history>>

Entering  == {"enter"}
Entered   == {"next", "skip", "attempt", "generate", "answer", "again", "retry",
              "failed", "leave"}
Leaving   == {"release"}
Unslotted == {"idle", "route", "key", "hit", "routed", "slot", "failing"}
Ends      == {"answered", "raised"}
Points    == Unslotted \cup Entering \cup Entered \cup Leaving \cup Ends

Fresh == [at |-> "idle", definitions |-> None, rule |-> None, digest |-> None,
          left |-> {}, current |-> None, attempt |-> 0, reply |-> None, torn |-> FALSE]

Init ==
  /\ registry \in Digests
  /\ slot = [value |-> Slots[registry], bound |-> Slots[registry]]
  /\ active = 0
  /\ breaker = [p \in Providers |-> Closed]
  /\ cache = <<>>
  /\ chat = [c \in Calls |-> Fresh]
  /\ reload = [r \in Reloads |-> [at |-> "idle", config |-> None]]
  /\ prober = [p \in Providers |-> None]
  /\ slipped = FALSE

Goto(c, point) == chat' = [chat EXCEPT ![c].at = point]
Raise(c) == chat' = [chat EXCEPT ![c] = [Fresh EXCEPT !.at = "failing"]]
Current(c) == chat[c].current

-----------------------------------------------------------------------------
(* What a call reads before it waits for a slot.                           *)

(* _candidate_ids and _eligible_candidates: the order and the rule are of  *)
(* one reading of the registry, the definitions of an earlier one.  Suits  *)
(* stands for the filters on capabilities, context, latency and budget.    *)
(* A candidate is <<place, provider>>; the wanted provider comes first.    *)
Candidates(rule, request) ==
  LET wanted == Wanted[request]
      routed == {<<i, Routing[rule][i]>> : i \in DOMAIN Routing[rule]}
  IN  IF wanted = None THEN IF request \in Sticky THEN {c \in routed : c[1] = 1} ELSE routed
      ELSE {<<0, wanted>>} \cup
           (IF request \in Sticky THEN {} ELSE {c \in routed : c[2] # wanted})

IsPrivate(rule, request) == request \in Restricted \/ rule \in PrivateOnly

MayServe(definitions, rule, request, p) ==
  /\ p \in Suits[definitions][request]
  /\ IsPrivate(rule, request) => p \in Private[definitions]

Eligible(definitions, rule, request) ==
  {c \in Candidates(rule, request) : MayServe(definitions, rule, request, c[2])}

IsUnknown(definitions, request) == Wanted[request] \notin Known[definitions] \cup {None}

ReadDefinitions(c) ==
  /\ chat[c].at = "idle"
  /\ chat' = [chat EXCEPT ![c].at = "route", ![c].definitions = registry]
  /\ UNCHANGED <<registry, slot, active, breaker, cache, reload, history>>

ReadRule(c) ==
  /\ chat[c].at = "route"
  /\ LET candidates == Eligible(chat[c].definitions, registry, Request[c])
         read == [chat[c] EXCEPT !.rule = registry, !.left = candidates]
     IN  IF candidates = {} \/ IsUnknown(chat[c].definitions, Request[c])
           THEN Raise(c)
           ELSE chat' = [chat EXCEPT ![c] = [read EXCEPT !.at = "key"]]
  /\ UNCHANGED <<registry, slot, active, breaker, cache, reload, history>>

Key_WithoutDigest(digest, request) == [digest |-> None, request |-> request]
Key(digest, request) == [digest |-> digest, request |-> request]
Found(key) == {i \in DOMAIN cache : cache[i].key = key}
IsTorn(c)  == chat[c].definitions # registry \/ chat[c].rule # registry

(* _cache_key and _cache_get.  A found entry may have outlived its time:   *)
(* it is then dropped.                                                     *)
LookUp(c) ==
  /\ chat[c].at = "key"
  /\ LET key  == Key(registry, Request[c])
         read == [Fresh EXCEPT !.digest = registry, !.torn = IsTorn(c), !.left = chat[c].left]
         Go(point) == chat' = [chat EXCEPT ![c] = [read EXCEPT !.at = point]]
     IN  \/ /\ Request[c] \notin Cacheable \/ Found(key) = {}
            /\ Go("routed")
            /\ UNCHANGED cache
         \/ /\ Request[c] \in Cacheable
            /\ \E i \in Found(key) :
                 \/ /\ cache' = RemoveAt(cache, i)
                    /\ Go("routed")
                 \/ /\ cache' = Append(RemoveAt(cache, i), cache[i])
                    /\ chat' = [chat EXCEPT ![c] = [read EXCEPT !.at = "hit", !.left = {},
                                  !.reply = cache[i].provider, !.torn = cache[i].torn]]
  /\ UNCHANGED <<registry, slot, active, breaker, reload, history>>

AuditHit(c) ==
  /\ chat[c].at = "hit"
  /\ Goto(c, "answered") \/ Raise(c)
  /\ UNCHANGED <<registry, slot, active, breaker, cache, reload, history>>

AuditRouted(c) ==
  /\ chat[c].at = "routed"
  /\ Goto(c, "slot") \/ Raise(c)
  /\ UNCHANGED <<registry, slot, active, breaker, cache, reload, history>>

-----------------------------------------------------------------------------
(* The slot: _slot acquires and counts, counts out and releases, each at   *)
(* another moment; refresh looks at the count only.  The semaphore is read *)
(* and used in one step: one that is replaced in between is as good as     *)
(* replaced after the acquire, or after the release.                       *)

Acquire(c) ==
  /\ chat[c].at = "slot"
  /\ slot.value > 0
  /\ slot' = [slot EXCEPT !.value = @ - 1]
  /\ Goto(c, "enter")
  /\ UNCHANGED <<registry, active, breaker, cache, reload, history>>

Enter(c) ==
  /\ chat[c].at = "enter"
  /\ active' = active + 1
  /\ Goto(c, "next")
  /\ UNCHANGED <<registry, slot, breaker, cache, reload, history>>

Leave(c) ==
  /\ chat[c].at = "leave"
  /\ active' = active - 1
  /\ Goto(c, "release")
  /\ UNCHANGED <<registry, slot, breaker, cache, reload, history>>

(* A BoundedSemaphore refuses a release above its bound with ValueError,   *)
(* which replaces the call's reply or error.                               *)
Release_WithoutErrors(c) ==
  /\ chat[c].at = "release"
  /\ \/ /\ chat[c].reply # None
        /\ slot' = [slot EXCEPT !.value = @ + 1]
        /\ Goto(c, "answered")
     \/ chat[c].reply = None /\ Raise(c) /\ UNCHANGED slot
  /\ UNCHANGED <<registry, active, breaker, cache, reload, history>>
Release_WithoutBound(c) ==
  /\ chat[c].at = "release"
  /\ slot' = [slot EXCEPT !.value = @ + 1]
  /\ \/ chat[c].reply # None /\ Goto(c, "answered")
     \/ chat[c].reply = None /\ Raise(c)
  /\ UNCHANGED <<registry, active, breaker, cache, reload, history>>
Release(c) ==
  /\ chat[c].at = "release"
  /\ \/ /\ slot.value < slot.bound
        /\ slot' = [slot EXCEPT !.value = @ + 1]
        /\ \/ chat[c].reply # None /\ Goto(c, "answered")
           \/ chat[c].reply = None /\ Raise(c)
     \/ /\ slot.value = slot.bound
        /\ Raise(c)
        /\ UNCHANGED slot
  /\ UNCHANGED <<registry, active, breaker, cache, reload, history>>

-----------------------------------------------------------------------------
(* The candidates, one after the other, each with its attempts.            *)

(* Asking a breaker whether the call may pass is one step: it may make the *)
(* call the breaker's probe.                                               *)
Admit(c, p) ==
  /\ breaker' = [breaker EXCEPT ![p] = allow_call(@)]
  /\ prober' = IF PermitsAsProbe(breaker[p]) THEN [prober EXCEPT ![p] = c] ELSE prober
  /\ UNCHANGED slipped

(* An exception leaves the slot; what the call had read goes with it.      *)
Fail(c) == chat' = [chat EXCEPT ![c] = [Fresh EXCEPT !.at = "leave"]]

(* A call gives provider p up without having told its breaker anything.    *)
Abandon(c, p) ==
  /\ prober' = IF prober[p] = c THEN [prober EXCEPT ![p] = None] ELSE prober
  /\ UNCHANGED slipped

Exhausted(c) ==
  /\ chat[c].at = "next"
  /\ chat[c].left = {}
  /\ Fail(c)
  /\ UNCHANGED <<registry, slot, active, breaker, cache, reload, history>>

Try(c) ==
  /\ chat[c].at = "next"
  /\ \E first \in chat[c].left :
       /\ \A other \in chat[c].left : first[1] <= other[1]
       /\ LET p == first[2]
              rest == [chat[c] EXCEPT !.left = @ \ {first}]
          IN  \/ /\ Permits(breaker[p])
                 /\ Admit(c, p)
                 /\ chat' = [chat EXCEPT ![c] =
                      [rest EXCEPT !.at = "attempt", !.current = p, !.attempt = 1]]
              \/ /\ ~Permits(breaker[p])
                 /\ chat' = [chat EXCEPT ![c] = [rest EXCEPT !.at = "skip"]]
                 /\ UNCHANGED <<breaker, history>>
  /\ UNCHANGED <<registry, slot, active, cache, reload>>

AuditSkipped(c) ==
  /\ chat[c].at = "skip"
  /\ Goto(c, "next") \/ Fail(c)
  /\ UNCHANGED <<registry, slot, active, breaker, cache, reload, history>>

(* A verdict of a call on provider p, which ends its breaker's probe.       *)
Tell(p, verdict) ==
  /\ breaker' = [breaker EXCEPT ![p] = verdict]
  /\ prober' = IF verdict.probe THEN prober ELSE [prober EXCEPT ![p] = None]
  /\ UNCHANGED slipped

(* A provider failure: TimeoutError, also that of an audit inside the try, *)
(* and ModelProviderTransportError are retried, a bad response is not.     *)
RecordFailure(c, point) ==
  /\ LET p == Current(c) IN Tell(p, record_failure(breaker[p], Threshold[p]))
  /\ Goto(c, point)

AuditAttempt(c) ==
  /\ chat[c].at = "attempt"
  /\ \/ Goto(c, "generate") /\ UNCHANGED <<breaker, history>>
     \/ RecordFailure(c, "again")
     \/ Fail(c) /\ Abandon(c, Current(c)) /\ UNCHANGED breaker
  /\ UNCHANGED <<registry, slot, active, cache, reload>>

Gives(c, outcome) == outcome \in Generated(Definition[Current(c)])
Generate(c) ==
  /\ chat[c].at = "generate"
  /\ \/ Gives(c, "result") /\ Goto(c, "answer") /\ UNCHANGED <<breaker, history>>
     \/ Gives(c, "transport error") /\ RecordFailure(c, "again")
     \/ Gives(c, "response error") /\ RecordFailure(c, "failed")
     \/ /\ \/ Gives(c, "unavailable") /\ Goto(c, "failed")
           \/ Gives(c, "exception") /\ Fail(c)
        /\ Abandon(c, Current(c))
        /\ UNCHANGED breaker
  /\ UNCHANGED <<registry, slot, active, cache, reload>>

(* _cache_put: the entry goes last, the least recently used ones are       *)
(* evicted down to the size of the registry file now in force.             *)
Without(key) ==
  IF Found(key) = {} THEN cache ELSE RemoveAt(cache, CHOOSE i \in Found(key) : TRUE)
Put(entry) ==
  LET all  == Append(Without(entry.key), entry)
      size == CacheSize[registry]
  IN  IF size = 0 THEN cache
      ELSE SubSeq(all, IF Len(all) > size THEN Len(all) - size + 1 ELSE 1, Len(all))

(* The response is recorded, cached and returned only once its audit is    *)
(* written.  Request counters are left out.                                *)
AuditResponse(c) ==
  /\ chat[c].at = "answer"
  /\ LET p == Current(c)
     IN  \/ /\ Tell(p, record_success(breaker[p]))
            /\ cache' = IF Request[c] \in Cacheable
                          THEN Put([key |-> Key(chat[c].digest, Request[c]),
                                    provider |-> p, torn |-> chat[c].torn])
                          ELSE cache
            /\ chat' = [chat EXCEPT ![c] = [@ EXCEPT !.at = "leave", !.reply = p,
                                             !.left = {}, !.current = None, !.attempt = 0]]
         \/ RecordFailure(c, "again") /\ UNCHANGED cache
         \/ Fail(c) /\ Abandon(c, p) /\ UNCHANGED <<breaker, cache>>
  /\ UNCHANGED <<registry, slot, active, reload>>

Again(c) ==
  /\ chat[c].at = "again"
  /\ LET p == Current(c)
     IN  \/ /\ chat[c].attempt < Attempts[p]
            /\ Permits(breaker[p])
            /\ Admit(c, p)
            /\ Goto(c, "retry")
         \/ /\ chat[c].attempt >= Attempts[p] \/ ~Permits(breaker[p])
            /\ Goto(c, "failed")
            /\ UNCHANGED <<breaker, history>>
  /\ UNCHANGED <<registry, slot, active, cache, reload>>

AuditRetry_WithoutCount(c) ==
  /\ chat[c].at = "retry"
  /\ \/ Goto(c, "attempt") /\ UNCHANGED history
     \/ Fail(c) /\ Abandon(c, Current(c))
  /\ UNCHANGED <<registry, slot, active, breaker, cache, reload>>
AuditRetry(c) ==
  /\ chat[c].at = "retry"
  /\ \/ /\ chat' = [chat EXCEPT ![c].at = "attempt", ![c].attempt = @ + 1]
        /\ UNCHANGED history
     \/ Fail(c) /\ Abandon(c, Current(c))
  /\ UNCHANGED <<registry, slot, active, breaker, cache, reload>>

(* A sticky request has one candidate: it stops here anyway.               *)
AuditFailed(c) ==
  /\ chat[c].at = "failed"
  /\ \/ chat' = [chat EXCEPT ![c].at = "next", ![c].current = None, ![c].attempt = 0]
     \/ Fail(c)
  /\ UNCHANGED <<registry, slot, active, breaker, cache, reload, history>>

(* model_request_failed: without it ModelProviderError replaces the error. *)
AuditRequestFailed(c) ==
  /\ chat[c].at = "failing"
  /\ Goto(c, "raised")
  /\ UNCHANGED <<registry, slot, active, breaker, cache, reload, history>>

-----------------------------------------------------------------------------
(* reload_providers and the clock.                                         *)

Move(r, point) == reload' = [reload EXCEPT ![r].at = point]
Slipping       == \E c \in Calls : chat[c].at \in Entering \cup Leaving

(* load replaces the file in force before refresh may refuse; a file that  *)
(* cannot be read leaves the old one.                                      *)
Load(r) ==
  /\ reload[r].at = "idle"
  /\ \/ registry' \in Digests /\ Move(r, "loaded")
     \/ UNCHANGED registry /\ Move(r, "refused")
  /\ UNCHANGED <<slot, active, breaker, cache, chat, history>>

ReadConfig(r) ==
  /\ reload[r].at = "loaded"
  /\ reload' = [reload EXCEPT ![r] = [at |-> "config", config |-> registry]]
  /\ UNCHANGED <<registry, slot, active, breaker, cache, chat, history>>

Rebuild(r) ==
  LET slots == Slots[reload[r].config]
  IN  /\ slot' = [value |-> slots, bound |-> slots]
      /\ breaker' = [p \in Providers |-> Closed]
      /\ prober' = [p \in Providers |-> None]
      /\ slipped' = (slipped \/ Slipping)

Refresh(r) ==
  /\ reload[r].at = "config"
  /\ \/ active = 0 /\ Rebuild(r) /\ Move(r, "refreshed")
     \/ active > 0 /\ UNCHANGED <<slot, breaker, history>> /\ Move(r, "refused")
  /\ UNCHANGED <<registry, active, cache, chat>>

ClearCache(r) ==
  /\ reload[r].at = "refreshed"
  /\ cache' = <<>>
  /\ Move(r, "done")
  /\ UNCHANGED <<registry, slot, active, breaker, chat, history>>

RecoveryElapses(p) ==
  /\ breaker[p].opened = "open"
  /\ breaker' = [breaker EXCEPT ![p] = Recovered(@)]
  /\ UNCHANGED <<registry, slot, active, cache, chat, reload, history>>

ChatStep(c) ==
  \/ ReadRule(c) \/ LookUp(c) \/ AuditHit(c) \/ AuditRouted(c)
  \/ Acquire(c) \/ Enter(c) \/ Leave(c) \/ Release(c)
  \/ Exhausted(c) \/ Try(c) \/ AuditSkipped(c) \/ AuditAttempt(c) \/ Generate(c)
  \/ AuditResponse(c) \/ Again(c) \/ AuditRetry(c) \/ AuditFailed(c)
  \/ AuditRequestFailed(c)

ReloadStep(r) == Load(r) \/ ReadConfig(r) \/ Refresh(r) \/ ClearCache(r)

Next ==
  \/ \E c \in Calls : ReadDefinitions(c) \/ ChatStep(c)
  \/ \E r \in Reloads : ReloadStep(r)
  \/ \E p \in Providers : RecoveryElapses(p)

Spec == Init /\ [][Next]_vars

-----------------------------------------------------------------------------
Chats == [at: Points, definitions: Digests \cup {None}, rule: Digests \cup {None},
          digest: Digests \cup {None}, left: SUBSET (Nat \X Providers),
          current: Providers \cup {None}, attempt: Nat, reply: Providers \cup {None}, torn: BOOLEAN]
ReloadPoints == {"idle", "loaded", "config", "refreshed", "refused", "done"}
Entries == [key: [digest: Digests \cup {None}, request: Requests], provider: Providers, torn: BOOLEAN]

(* The state is well formed; active_requests counts the calls in a slot.   *)
TypeOK ==
  /\ registry \in Digests
  /\ slot \in [value: Nat, bound: Nat \ {0}]
  /\ active \in Nat
  /\ breaker \in [Providers -> Breakers]
  /\ cache \in Seq(Entries)
  /\ chat \in [Calls -> Chats]
  /\ reload \in [Reloads -> [at: ReloadPoints, config: Digests \cup {None}]]
  /\ prober \in [Providers -> Calls \cup {None}]
  /\ slipped \in BOOLEAN

At(points) == {c \in Calls : chat[c].at \in points}

(* Unless a refresh slipped in while a call was between its semaphore and  *)
(* the count (service.py:157-171), no slot is lost or invented: what the   *)
(* semaphore has left and what calls hold make up max_concurrency, and     *)
(* _active_requests counts exactly the calls at work.                      *)
SlotsConserved ==
  /\ active = Cardinality(At(Entered))
  /\ ~slipped => slot.value + Cardinality(At(Entering \cup Entered \cup Leaving)) = slot.bound

(* Whatever a refresh does to the calls around it, overtaken ones included *)
(* (service.py:155-171), the gateway recovers: there are never more slots  *)
(* than max_concurrency, and one that is taken is held by a call, so that  *)
(* all of them are free again when the calls are gone.                     *)
SlotsRecover ==
  /\ slot.value <= slot.bound
  /\ slot.bound <= slot.value + Cardinality(At(Entering \cup Entered \cup Leaving))

(* The call a half-open breaker waits for is still calling its provider:   *)
(* once a call has moved on, its breaker has a verdict, or the call left   *)
(* with an exception that is no provider failure (service.py:513 and 523). *)
ProbeOwned ==
  \A p \in Providers : prober[p] # None =>
    /\ breaker[p].probe
    /\ chat[prober[p]].at \in {"attempt", "generate", "answer", "retry"}
    /\ Current(prober[p]) = p

(* Threshold failures in a row keep a provider from being called freely:   *)
(* only one success, or a refresh, closes its breaker.                     *)
FailingIsGuarded ==
  \A p \in Providers : LET b == breaker[p] IN
    /\ b.opened # "no" => b.failures >= Threshold[p] /\ ~b.probe
    /\ b.failures >= Threshold[p] => b.opened # "no" \/ b.probe

(* What a caller is given, fresh or from the cache, comes from a provider  *)
(* the registry file of its key allows for its request, private where it   *)
(* must be: unless the call that produced it read two registry files.      *)
AnswersAllowed ==
  \A c \in Calls : chat[c].at \in {"answered", "leave", "hit"} /\ chat[c].reply # None /\ ~chat[c].torn =>
    MayServe(chat[c].digest, chat[c].digest, Request[c], chat[c].reply)

(* How far a call has come: outside, in its slot, on the way out; in the   *)
(* slot, which candidates are left; for one candidate, the attempts before *)
(* the verdict; for one attempt, its steps.                                *)
Stretch(x) ==
  CASE x.at = "idle" -> 0 [] x.at = "route" -> 1 [] x.at = "key" -> 2 [] x.at \in {"hit", "routed"} -> 3
    [] x.at = "slot" -> 4 [] x.at = "enter" -> 5 [] x.at \in Entered \ {"leave"} -> 6
    [] x.at = "leave" -> 7 [] x.at = "release" -> 8 [] x.at = "failing" -> 9 [] x.at \in Ends -> 10
Trying(x) == x.at \in {"attempt", "generate", "answer", "again", "retry"}
Verdict(x) == CASE Trying(x) -> 0 [] x.at \in {"failed", "skip"} -> 1 [] OTHER -> 2
Pace(x) == CASE x.at = "attempt" -> 1 [] x.at = "generate" -> 2 [] x.at = "answer" -> 3
             [] x.at = "again" -> 4 [] OTHER -> 5

NextAttempt(x, y) == x.attempt < y.attempt /\ y.attempt <= Attempts[x.current]
Further(x, y) ==
  \/ Stretch(x) < Stretch(y)
  \/ /\ Stretch(x) = 6 /\ Stretch(y) = 6
     /\ \/ y.left \subseteq x.left /\ y.left # x.left
        \/ y.left = x.left /\ Verdict(x) < Verdict(y)
        \/ /\ y.left = x.left /\ Trying(x) /\ Trying(y) /\ y.current = x.current
           /\ NextAttempt(x, y) \/ (y.attempt = x.attempt /\ Pace(x) < Pace(y))

(* A call never goes back: whatever fails, times out or is reloaded beside *)
(* it, each of its steps takes it further, so that it asks every candidate *)
(* in at most one round of at most max_attempts attempts, and ends         *)
(* (service.py:429-569; an audit that times out after the answer counts as *)
(* a failure of the provider and makes the call ask again).                *)
RetriesEnd == [][\A c \in Calls : chat'[c] = chat[c] \/ Further(chat[c], chat'[c])]_vars
=============================================================================
