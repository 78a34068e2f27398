-------------------------- MODULE ModelGatewayProofs --------------------------
(***************************************************************************)
(* Proofs about the Model Gateway, for every set of calls, reloads and     *)
(* providers and for every registry file.                                  *)
(***************************************************************************)
EXTENDS ModelGateway, FiniteSetTheorems, SequenceTheorems, TLAPS

(* What a call remembers stays well formed when it moves on.               *)
LEMMA Moved ==
  ASSUME chat \in [Calls -> Chats], NEW c \in Calls, NEW point \in Points, Goto(c, point)
  PROVE  chat' \in [Calls -> Chats]
BY DEF Chats, Goto

LEMMA Became ==
  ASSUME chat \in [Calls -> Chats], NEW c \in Calls, NEW r \in Chats,
         chat' = [chat EXCEPT ![c] = r]
  PROVE  chat' \in [Calls -> Chats]
OBVIOUS

LEMMA Raised ==
  ASSUME chat \in [Calls -> Chats], NEW c \in Calls, Raise(c) \/ Fail(c)
  PROVE  chat' \in [Calls -> Chats]
<1>1. [Fresh EXCEPT !.at = "failing"] \in Chats
  BY DEF Chats, Fresh, Points, Unslotted
<1>2. [Fresh EXCEPT !.at = "leave"] \in Chats
  BY DEF Chats, Fresh, Points, Entered
<1> QED
  BY <1>1, <1>2, Became DEF Raise, Fail

LEMMA CandidatesTyping ==
  ASSUME NEW d \in Digests, NEW e \in Digests, NEW q \in Requests
  PROVE  Eligible(d, e, q) \in SUBSET (Nat \X Providers)
<1>1. Routing[e] \in Seq(Providers)
  BY ModelGatewayAssumption
<1>2. \A i \in DOMAIN Routing[e] : <<i, Routing[e][i]>> \in Nat \X Providers
  BY <1>1
<1>3. Wanted[q] # None => <<0, Wanted[q]>> \in Nat \X Providers
  BY ModelGatewayAssumption
<1> QED
  BY <1>2, <1>3 DEF Eligible, Candidates

(* What a call has read when it needs it.                                  *)
Remembers ==
  /\ \A c \in Calls :
       /\ chat[c].at \in {"route", "key"} => chat[c].definitions \in Digests
       /\ chat[c].at = "key" => chat[c].rule \in Digests
       /\ chat[c].at \in {"attempt", "generate", "answer", "again", "retry", "failed"}
            => chat[c].current \in Providers
  /\ \A r \in Reloads : reload[r].at = "config" => reload[r].config \in Digests

LEMMA ReadTyping ==
  ASSUME TypeOK, Remembers, NEW c \in Calls, ReadDefinitions(c) \/ ReadRule(c) \/ LookUp(c)
  PROVE  chat' \in [Calls -> Chats]
<1>t. chat \in [Calls -> Chats] /\ registry \in Digests /\ chat[c] \in Chats /\ Request[c] \in Requests
  BY ModelGatewayAssumption DEF TypeOK
<1>1. CASE ReadDefinitions(c)
  <2>1. [chat[c] EXCEPT !.at = "route", !.definitions = registry] \in Chats
    BY <1>t DEF Chats, Points, Unslotted
  <2>2. chat' = [chat EXCEPT ![c] = [chat[c] EXCEPT !.at = "route", !.definitions = registry]]
    BY <1>1, <1>t DEF ReadDefinitions
  <2> QED
    BY <1>t, <2>1, <2>2, Became
<1>2. CASE ReadRule(c)
  <2> DEFINE candidates == Eligible(chat[c].definitions, registry, Request[c])
             read == [chat[c] EXCEPT !.rule = registry, !.left = candidates]
             r == [read EXCEPT !.at = "key"]
  <2>1. candidates \in SUBSET (Nat \X Providers)
    BY <1>2, <1>t, CandidatesTyping DEF ReadRule, Remembers
  <2>2. r \in Chats
    <3> HIDE DEF candidates
    <3> QED BY <2>1, <1>t DEF Chats, Points, Unslotted
  <2>3. Raise(c) \/ chat' = [chat EXCEPT ![c] = r]
    BY <1>2 DEF ReadRule
  <2> QED
    BY <1>t, <2>2, <2>3, Raised, Became
<1>3. CASE LookUp(c)
  <2> DEFINE read == [Fresh EXCEPT !.digest = registry, !.torn = IsTorn(c), !.left = chat[c].left]
  <2>1. chat[c].left \in SUBSET (Nat \X Providers)
    BY <1>t DEF Chats
  <2>2. IsTorn(c) \in BOOLEAN
    BY DEF IsTorn
  <2>3. [read EXCEPT !.at = "routed"] \in Chats
    BY <1>t, <2>1, <2>2 DEF Chats, Points, Unslotted, Fresh
  <2>4. ASSUME NEW i \in Found(Key(registry, Request[c]))
        PROVE  [read EXCEPT !.at = "hit", !.left = {}, !.reply = cache[i].provider,
                            !.torn = cache[i].torn] \in Chats
    <3>1. cache[i] \in Entries
      BY DEF TypeOK, Found
    <3>2. cache[i].provider \in Providers /\ cache[i].torn \in BOOLEAN
      BY <3>1 DEF Entries
    <3> QED
      BY <1>t, <2>2, <3>2 DEF Chats, Points, Unslotted, Fresh
  <2>5. \/ chat' = [chat EXCEPT ![c] = [read EXCEPT !.at = "routed"]]
        \/ \E i \in Found(Key(registry, Request[c])) :
             chat' = [chat EXCEPT ![c] = [read EXCEPT !.at = "hit", !.left = {},
                        !.reply = cache[i].provider, !.torn = cache[i].torn]]
    BY <1>3 DEF LookUp
  <2> QED
    BY <1>t, <2>3, <2>4, <2>5, Became
<1> QED
  BY <1>1, <1>2, <1>3

LEMMA SlotTyping ==
  ASSUME TypeOK, NEW c \in Calls,
         AuditHit(c) \/ AuditRouted(c) \/ Acquire(c) \/ Enter(c) \/ Leave(c) \/ Release(c)
  PROVE  chat' \in [Calls -> Chats]
<1>t. chat \in [Calls -> Chats]
  BY DEF TypeOK
<1>1. {"enter", "next", "release", "answered", "slot"} \subseteq Points
  BY DEF Points, Unslotted, Entering, Entered, Leaving, Ends
<1> QED
  BY <1>1, <1>t, Moved, Raised DEF AuditHit, AuditRouted, Acquire, Enter, Leave, Release

LEMMA CandidateTyping ==
  ASSUME TypeOK, NEW c \in Calls,
         Exhausted(c) \/ Try(c) \/ AuditSkipped(c) \/ AuditAttempt(c) \/ Generate(c)
  PROVE  chat' \in [Calls -> Chats]
<1>t. chat \in [Calls -> Chats] /\ chat[c] \in Chats /\ chat[c].left \in SUBSET (Nat \X Providers)
  BY DEF TypeOK, Chats
<1>1. {"attempt", "skip", "next", "generate", "again", "answer", "failed"} \subseteq Points
  BY DEF Points, Entered
<1>2. CASE Try(c)
  <2>1. PICK first \in chat[c].left :
          LET rest == [chat[c] EXCEPT !.left = @ \ {first}]
          IN  \/ chat' = [chat EXCEPT ![c] = [rest EXCEPT !.at = "attempt", !.current = first[2], !.attempt = 1]]
              \/ chat' = [chat EXCEPT ![c] = [rest EXCEPT !.at = "skip"]]
    BY <1>2 DEF Try
  <2>2. first[2] \in Providers
    BY <1>t
  <2> DEFINE rest == [chat[c] EXCEPT !.left = @ \ {first}]
  <2>3. rest \in Chats
    BY <1>t DEF Chats
  <2>4. /\ [rest EXCEPT !.at = "attempt", !.current = first[2], !.attempt = 1] \in Chats
        /\ [rest EXCEPT !.at = "skip"] \in Chats
    <3> HIDE DEF rest
    <3> QED BY <1>1, <2>2, <2>3 DEF Chats
  <2> QED
    BY <1>t, <2>1, <2>4, Became
<1> QED
  BY <1>t, <1>1, <1>2, Moved, Raised DEF Exhausted, AuditSkipped, AuditAttempt, Generate, RecordFailure

LEMMA OutcomeTyping ==
  ASSUME TypeOK, Remembers, NEW c \in Calls,
         AuditResponse(c) \/ Again(c) \/ AuditRetry(c) \/ AuditFailed(c) \/ AuditRequestFailed(c)
  PROVE  chat' \in [Calls -> Chats]
<1>t. chat \in [Calls -> Chats] /\ chat[c] \in Chats
  BY DEF TypeOK
<1>1. {"leave", "again", "attempt", "retry", "next", "failed", "raised"} \subseteq Points
  BY DEF Points, Entered, Ends
<1>2. CASE AuditResponse(c)
  <2> DEFINE r == [chat[c] EXCEPT !.at = "leave", !.reply = Current(c),
                                  !.left = {}, !.current = None, !.attempt = 0]
  <2>1. Current(c) \in Providers
    BY <1>2 DEF AuditResponse, Remembers, Current
  <2>2. r \in Chats
    BY <1>t, <1>1, <2>1 DEF Chats
  <2>3. chat' = [chat EXCEPT ![c] = r] \/ Goto(c, "again") \/ Fail(c)
    BY <1>2 DEF AuditResponse, RecordFailure
  <2> QED
    BY <1>t, <1>1, <2>2, <2>3, Became, Moved, Raised
<1>3. CASE AuditRetry(c)
  <2>1. ASSUME chat' = [chat EXCEPT ![c].at = "attempt", ![c].attempt = @ + 1]
        PROVE  chat' \in [Calls -> Chats]
    BY <1>t, <1>1, <2>1 DEF Chats
  <2> QED
    BY <1>t, <1>3, <2>1, Raised DEF AuditRetry
<1>4. CASE AuditFailed(c)
  <2>1. ASSUME chat' = [chat EXCEPT ![c].at = "next", ![c].current = None, ![c].attempt = 0]
        PROVE  chat' \in [Calls -> Chats]
    BY <1>t, <1>1, <2>1 DEF Chats
  <2> QED
    BY <1>t, <1>4, <2>1, Raised DEF AuditFailed
<1> QED
  BY <1>t, <1>1, <1>2, <1>3, <1>4, Moved DEF Again, AuditRequestFailed

-----------------------------------------------------------------------------
(* The cache and the breakers.                                             *)

From(s, t) == \A i \in DOMAIN s : \E j \in DOMAIN t : s[i] = t[j]

LEMMA RemovedFrom ==
  ASSUME NEW S, NEW s \in Seq(S), NEW i \in DOMAIN s
  PROVE  RemoveAt(s, i) \in Seq(S) /\ From(RemoveAt(s, i), s)
<1> DEFINE front == SubSeq(s, 1, i-1)
           back  == SubSeq(s, i+1, Len(s))
<1>1. i \in 1..Len(s) /\ Len(s) \in Nat
  OBVIOUS
<1>2. /\ front \in Seq(S) /\ Len(front) = i-1
      /\ \A k \in 1..(i-1) : front[k] = s[k]
  BY <1>1
<1>3. /\ back \in Seq(S) /\ Len(back) = Len(s) - i
      /\ \A k \in 1..(Len(s) - i) : back[k] = s[i+k]
  BY <1>1
<1> HIDE DEF front, back
<1> DEFINE joined == front \o back
<1>a. /\ joined \in Seq(S)
      /\ Len(joined) = Len(front) + Len(back)
      /\ \A k \in 1..(Len(front) + Len(back)) :
           joined[k] = IF k <= Len(front) THEN front[k] ELSE back[k - Len(front)]
  BY <1>2, <1>3, ConcatProperties, Zenon
<1>4. /\ joined \in Seq(S)
      /\ Len(joined) = (i-1) + (Len(s) - i)
      /\ \A k \in 1..((i-1) + (Len(s) - i)) :
           joined[k] = IF k <= i-1 THEN front[k] ELSE back[k - (i-1)]
  BY <1>a, <1>2, <1>3
<1> HIDE DEF joined
<1>5. (i-1) + (Len(s) - i) = Len(s) - 1
  BY <1>1
<1>6. ASSUME NEW k \in 1..(Len(s) - 1)
      PROVE  \E j \in 1..Len(s) : joined[k] = s[j]
  <2>1. CASE k <= i-1
    <3>1. joined[k] = s[k]
      BY <1>1, <1>2, <1>4, <1>5, <2>1
    <3> QED
      BY <1>1, <3>1
  <2>2. CASE ~(k <= i-1)
    <3>1. k - (i-1) \in 1..(Len(s) - i) /\ i + (k - (i-1)) = k + 1
      BY <1>1, <2>2
    <3>2. joined[k] = back[k - (i-1)]
      BY <1>4, <1>5, <2>2
    <3>3. back[k - (i-1)] = s[i + (k - (i-1))]
      BY <1>3, <3>1
    <3>4. joined[k] = s[k+1]
      BY <3>1, <3>2, <3>3
    <3> QED
      BY <1>1, <3>4
  <2> QED
    BY <2>1, <2>2
<1>7. RemoveAt(s, i) = joined
  BY DEF RemoveAt, joined, front, back
<1>8. DOMAIN joined = 1..(Len(s) - 1) /\ DOMAIN s = 1..Len(s)
  BY <1>4, <1>5
<1> QED
  BY <1>4, <1>6, <1>7, <1>8 DEF From

LEMMA PutFrom ==
  ASSUME TypeOK, NEW entry \in Entries
  PROVE  /\ Put(entry) \in Seq(Entries)
         /\ \A i \in DOMAIN Put(entry) :
              Put(entry)[i] = entry \/ \E j \in DOMAIN cache : Put(entry)[i] = cache[j]
<1> DEFINE rest == Without(entry.key)
           all  == Append(rest, entry)
           size == CacheSize[registry]
           from == IF Len(all) > size THEN Len(all) - size + 1 ELSE 1
<1>1. cache \in Seq(Entries) /\ size \in Nat
  BY ModelGatewayAssumption DEF TypeOK
<1>2. rest \in Seq(Entries) /\ From(rest, cache)
  <2>1. CASE Found(entry.key) = {}
    BY <1>1, <2>1 DEF Without, From
  <2>2. CASE Found(entry.key) # {}
    <3>1. (CHOOSE i \in Found(entry.key) : TRUE) \in DOMAIN cache
      BY <2>2 DEF Found
    <3> QED
      BY <1>1, <2>2, <3>1, RemovedFrom DEF Without
  <2> QED
    BY <2>1, <2>2
<1> HIDE DEF rest, size
<1>3. /\ all \in Seq(Entries) /\ Len(all) = Len(rest) + 1 /\ Len(rest) \in Nat
      /\ \A i \in 1..Len(all) : all[i] = entry \/ \E j \in DOMAIN rest : all[i] = rest[j]
  BY <1>2
<1>4. ASSUME NEW i \in 1..Len(all)
      PROVE  all[i] = entry \/ \E j \in DOMAIN cache : all[i] = cache[j]
  BY <1>2, <1>3 DEF From
<1> HIDE DEF all
<1>5. from \in 1..Len(all)+1
  BY <1>1, <1>3
<1> HIDE DEF from
<1>6. /\ SubSeq(all, from, Len(all)) \in Seq(Entries)
      /\ Len(SubSeq(all, from, Len(all))) = Len(all) - from + 1
      /\ \A i \in 1..(Len(all) - from + 1) : SubSeq(all, from, Len(all))[i] = all[from + i - 1]
  BY <1>3, <1>5
<1>7. Put(entry) = IF size = 0 THEN cache ELSE SubSeq(all, from, Len(all))
  BY DEF Put, all, from, size, rest
<1>8. ASSUME NEW i \in 1..(Len(all) - from + 1)
      PROVE  from + i - 1 \in 1..Len(all)
  BY <1>3, <1>5
<1> QED
  BY <1>1, <1>4, <1>6, <1>7, <1>8

LEMMA BreakerTyping ==
  ASSUME NEW b \in Breakers, NEW n \in Nat
  PROVE  /\ Closed \in Breakers
         /\ allow_call(b) \in Breakers
         /\ record_success(b) \in Breakers
         /\ record_failure(b, n) \in Breakers
         /\ Recovered(b) \in Breakers
<1>1. Closed \in Breakers /\ record_success(b) \in Breakers
  BY DEF Breakers, Closed, record_success
<1>2. [b EXCEPT !.opened = "no", !.probe = TRUE] \in Breakers
  BY DEF Breakers
<1>3. allow_call(b) \in Breakers
  BY <1>2 DEF allow_call
<1>4. b.failures \in Nat /\ b.opened \in {"no", "open", "ripe"}
  BY DEF Breakers
<1>5. record_failure(b, n) \in Breakers
  BY <1>4 DEF Breakers, record_failure
<1>6. Recovered(b) \in Breakers
  BY DEF Breakers, Recovered
<1> QED
  BY <1>1, <1>3, <1>5, <1>6

(* A breaker is touched by asking it, by a verdict, by the clock and by a  *)
(* refresh.                                                                *)
Guarded(b, p) ==
  /\ b.opened # "no" => b.failures >= Threshold[p] /\ ~b.probe
  /\ b.failures >= Threshold[p] => b.opened # "no" \/ b.probe

LEMMA BreakerGuarded ==
  ASSUME NEW p \in Providers, NEW b \in Breakers, Guarded(b, p)
  PROVE  /\ Guarded(Closed, p)
         /\ Guarded(allow_call(b), p)
         /\ Guarded(record_success(b), p)
         /\ (b.opened = "open" => Guarded(Recovered(b), p))
         /\ Guarded(record_failure(b, Threshold[p]), p)
<1>1. Threshold[p] \in Nat \ {0}
  BY ModelGatewayAssumption
<1>2. b.failures \in Nat /\ b.opened \in {"no", "open", "ripe"} /\ b.probe \in BOOLEAN
  BY DEF Breakers
<1>3. Guarded(Closed, p) /\ Guarded(record_success(b), p)
  BY <1>1 DEF Guarded, Closed, record_success
<1>4. Guarded(allow_call(b), p)
  <2>1. CASE PermitsAsProbe(b)
    BY <1>1, <1>2, <2>1 DEF Guarded, allow_call, PermitsAsProbe, Breakers
  <2>2. CASE ~PermitsAsProbe(b)
    BY <2>2 DEF allow_call
  <2> QED
    BY <2>1, <2>2
<1>5. b.opened = "open" => Guarded(Recovered(b), p)
  BY <1>1, <1>2 DEF Guarded, Recovered, Breakers
<1>6. Guarded(record_failure(b, Threshold[p]), p)
  BY <1>1, <1>2 DEF Guarded, record_failure
<1> QED
  BY <1>3, <1>4, <1>5, <1>6

-----------------------------------------------------------------------------
(* Every step keeps the state well formed.                                 *)

LEMMA BreakersTyping ==
  ASSUME TypeOK, NEW p \in Providers, NEW b \in Breakers, breaker' = [breaker EXCEPT ![p] = b]
  PROVE  breaker' \in [Providers -> Breakers]
BY DEF TypeOK

LEMMA TellTyping ==
  ASSUME TypeOK, NEW p \in Providers, NEW b \in Breakers, Tell(p, b)
  PROVE  /\ breaker' \in [Providers -> Breakers]
         /\ prober' \in [Providers -> Calls \cup {None}]
         /\ slipped' = slipped
BY DEF TypeOK, Tell

(* What a step of a call does to the breakers.                             *)
Asks(c)      == \E p \in Providers : Admit(c, p)
Reports(c)   == /\ Current(c) \in Providers
                /\ \/ Tell(Current(c), record_failure(breaker[Current(c)], Threshold[Current(c)]))
                   \/ Tell(Current(c), record_success(breaker[Current(c)]))
Abandons(c)  == UNCHANGED breaker /\ Abandon(c, Current(c))
LeavesAll    == UNCHANGED <<breaker, prober, slipped>>

LEMMA BreakerSteps ==
  ASSUME TypeOK, Remembers, NEW c \in Calls, ReadDefinitions(c) \/ ChatStep(c)
  PROVE  Asks(c) \/ Reports(c) \/ Abandons(c) \/ LeavesAll
<1>1. CASE Try(c)
  <2>1. PICK first \in chat[c].left : Admit(c, first[2]) \/ UNCHANGED <<breaker, history>>
    BY <1>1 DEF Try
  <2>2. first[2] \in Providers
    BY DEF TypeOK, Chats
  <2> QED
    BY <2>1, <2>2 DEF Asks, LeavesAll, history
<1>2. CASE Again(c)
  BY <1>2 DEF Again, Remembers, Current, Asks, LeavesAll, history
<1>3. CASE AuditAttempt(c) \/ Generate(c) \/ AuditResponse(c)
  BY <1>3 DEF AuditAttempt, Generate, AuditResponse, RecordFailure, Remembers, Current,
              Reports, Abandons, LeavesAll, history
<1>4. CASE AuditRetry(c)
  BY <1>4 DEF AuditRetry, Abandons, LeavesAll, history
<1> QED
  BY <1>1, <1>2, <1>3, <1>4
     DEF ReadDefinitions, ChatStep, ReadRule, LookUp, AuditHit, AuditRouted, Acquire, Enter, Leave,
         Release, Exhausted, AuditSkipped, AuditFailed, AuditRequestFailed, LeavesAll, history

LEMMA BreakerStepTyping ==
  ASSUME TypeOK, NEW c \in Calls, Asks(c) \/ Reports(c) \/ Abandons(c) \/ LeavesAll
  PROVE  /\ breaker' \in [Providers -> Breakers]
         /\ prober' \in [Providers -> Calls \cup {None}]
         /\ slipped' \in BOOLEAN
<1>t. /\ breaker \in [Providers -> Breakers] /\ slipped \in BOOLEAN
      /\ prober \in [Providers -> Calls \cup {None}]
  BY DEF TypeOK
<1>1. CASE Asks(c)
  <2>1. PICK p \in Providers : Admit(c, p)
    BY <1>1 DEF Asks
  <2>2. allow_call(breaker[p]) \in Breakers
    BY <1>t, BreakerTyping
  <2> QED
    BY <2>1, <2>2, <1>t DEF Admit
<1>2. CASE Reports(c)
  <2>1. /\ record_failure(breaker[Current(c)], Threshold[Current(c)]) \in Breakers
        /\ record_success(breaker[Current(c)]) \in Breakers
    BY <1>2, <1>t, BreakerTyping, ModelGatewayAssumption DEF Reports
  <2> QED
    BY <1>2, <1>t, <2>1, TellTyping DEF Reports
<1>3. CASE Abandons(c)
  BY <1>3, <1>t DEF Abandons, Abandon
<1> QED
  BY <1>1, <1>2, <1>3, <1>t DEF LeavesAll

LEMMA ChatTyping ==
  ASSUME TypeOK, Remembers, active \in Nat,
         NEW c \in Calls, ReadDefinitions(c) \/ ChatStep(c),
         chat[c].at = "leave" => active > 0
  PROVE  TypeOK'
<1>1. chat' \in [Calls -> Chats]
  BY ReadTyping, SlotTyping, CandidateTyping, OutcomeTyping DEF ChatStep
<1>2. registry' \in Digests /\ reload' \in [Reloads -> [at: ReloadPoints, config: Digests \cup {None}]]
  BY DEF TypeOK, ReadDefinitions, ChatStep, ReadRule, LookUp, AuditHit, AuditRouted, Acquire, Enter,
     Leave, Release, Exhausted, Try, AuditSkipped, AuditAttempt, Generate, AuditResponse, Again,
     AuditRetry, AuditFailed, AuditRequestFailed
<1>3. slot' \in [value: Nat, bound: Nat \ {0}] /\ active' \in Nat
  <2>t. slot \in [value: Nat, bound: Nat \ {0}]
    BY DEF TypeOK
  <2>1. CASE Acquire(c)
    <3>1. slot.value > 0 /\ slot' = [slot EXCEPT !.value = @ - 1] /\ UNCHANGED active
      BY <2>1 DEF Acquire
    <3> QED
      BY <2>t, <3>1
  <2>2. CASE Release(c)
    <3>1. (slot' = [slot EXCEPT !.value = @ + 1] \/ UNCHANGED slot) /\ UNCHANGED active
      BY <2>2 DEF Release
    <3> QED
      BY <2>t, <3>1
  <2>3. CASE Enter(c)
    BY <2>3, <2>t DEF Enter
  <2>4. CASE Leave(c)
    BY <2>4, <2>t DEF Leave
  <2> QED
    BY <2>t, <2>1, <2>2, <2>3, <2>4
       DEF ReadDefinitions, ChatStep, ReadRule, LookUp, AuditHit, AuditRouted, Exhausted, Try,
           AuditSkipped, AuditAttempt, Generate, AuditResponse, Again, AuditRetry, AuditFailed,
           AuditRequestFailed
<1>4. /\ breaker' \in [Providers -> Breakers]
      /\ prober' \in [Providers -> Calls \cup {None}]
      /\ slipped' \in BOOLEAN
  BY BreakerSteps, BreakerStepTyping
<1>5. cache' \in Seq(Entries)
  <2>t. cache \in Seq(Entries)
    BY DEF TypeOK
  <2>1. CASE LookUp(c)
    <3>1. \/ UNCHANGED cache
          \/ \E i \in DOMAIN cache : \/ cache' = RemoveAt(cache, i)
                                     \/ cache' = Append(RemoveAt(cache, i), cache[i])
      BY <2>1 DEF LookUp, Found
    <3>2. ASSUME NEW i \in DOMAIN cache
          PROVE  RemoveAt(cache, i) \in Seq(Entries) /\ cache[i] \in Entries
      BY <2>t, RemovedFrom
    <3> QED
      BY <2>t, <3>1, <3>2
  <2>2. CASE AuditResponse(c)
    <3> DEFINE entry == [key |-> Key(chat[c].digest, Request[c]), provider |-> Current(c), torn |-> chat[c].torn]
    <3>1. entry \in Entries
      BY <2>2, ModelGatewayAssumption DEF TypeOK, Chats, AuditResponse, Remembers, Current, Key, Entries
    <3>2. cache' = Put(entry) \/ UNCHANGED cache
      BY <2>2 DEF AuditResponse
    <3> QED
      BY <2>t, <3>1, <3>2, PutFrom
  <2> QED
    BY <2>t, <2>1, <2>2
       DEF ReadDefinitions, ChatStep, ReadRule, AuditHit, AuditRouted, Acquire, Enter, Leave, Release,
           Exhausted, Try, AuditSkipped, AuditAttempt, Generate, Again, AuditRetry, AuditFailed,
           AuditRequestFailed
<1> QED
  BY <1>1, <1>2, <1>3, <1>4, <1>5 DEF TypeOK

LEMMA OtherTyping ==
  ASSUME TypeOK, Remembers,
         (\E r \in Reloads : ReloadStep(r)) \/ (\E p \in Providers : RecoveryElapses(p))
  PROVE  TypeOK'
<1>t. /\ slot \in [value: Nat, bound: Nat \ {0}]
      /\ reload \in [Reloads -> [at: ReloadPoints, config: Digests \cup {None}]]
      /\ slipped \in BOOLEAN /\ breaker \in [Providers -> Breakers]
  BY DEF TypeOK
<1>1. ASSUME NEW r \in Reloads, NEW point \in ReloadPoints, Move(r, point)
      PROVE  reload' \in [Reloads -> [at: ReloadPoints, config: Digests \cup {None}]]
  BY <1>1, <1>t DEF Move
<1>2. {"loaded", "refused", "config", "refreshed", "done"} \subseteq ReloadPoints
  BY DEF ReloadPoints
<1>3. ASSUME NEW r \in Reloads, Load(r) \/ ClearCache(r)
      PROVE  TypeOK'
  <2>1. reload' \in [Reloads -> [at: ReloadPoints, config: Digests \cup {None}]]
    <3>1. Move(r, "loaded") \/ Move(r, "refused") \/ Move(r, "done")
      BY <1>3 DEF Load, ClearCache
    <3> QED
      BY <1>1, <1>2, <3>1
  <2>2. registry' \in Digests /\ cache' \in Seq(Entries)
    <3>1. <<>> \in Seq(Entries)
      OBVIOUS
    <3> QED
      BY <1>3, <3>1 DEF TypeOK, Load, ClearCache
  <2> QED
    BY <1>3, <2>1, <2>2 DEF TypeOK, Load, ClearCache, history
<1>4. ASSUME NEW r \in Reloads, ReadConfig(r)
      PROVE  TypeOK'
  <2>1. reload' \in [Reloads -> [at: ReloadPoints, config: Digests \cup {None}]]
    BY <1>2, <1>4, <1>t DEF TypeOK, ReadConfig
  <2> QED
    BY <1>4, <2>1 DEF TypeOK, ReadConfig, history
<1>5. ASSUME NEW r \in Reloads, Refresh(r)
      PROVE  TypeOK'
  <2>1. reload' \in [Reloads -> [at: ReloadPoints, config: Digests \cup {None}]]
    BY <1>1, <1>2, <1>5 DEF Refresh
  <2>2. CASE Rebuild(r)
    <3>1. Slots[reload[r].config] \in Nat \ {0}
      BY <1>5, ModelGatewayAssumption DEF Refresh, Remembers
    <3>2. slot' \in [value: Nat, bound: Nat \ {0}]
      BY <2>2, <3>1, <1>t DEF Rebuild
    <3>3. Closed \in Breakers
      BY DEF Breakers, Closed
    <3>4. slipped' \in BOOLEAN
      BY <2>2, <1>t DEF Rebuild, Slipping
    <3> QED
      BY <1>5, <2>1, <2>2, <3>2, <3>3, <3>4 DEF TypeOK, Refresh, Rebuild
  <2>3. CASE UNCHANGED <<slot, breaker, history>>
    BY <1>5, <2>1, <2>3 DEF TypeOK, Refresh, history
  <2> QED
    BY <1>5, <2>2, <2>3 DEF Refresh
<1>6. ASSUME NEW p \in Providers, RecoveryElapses(p)
      PROVE  TypeOK'
  <2>1. Recovered(breaker[p]) \in Breakers
    BY <1>t DEF Breakers, Recovered
  <2> QED
    BY <1>6, <1>t, <2>1 DEF TypeOK, RecoveryElapses, history
<1> QED
  BY <1>3, <1>4, <1>5, <1>6 DEF ReloadStep

-----------------------------------------------------------------------------
(* What moves where.                                                       *)

(* A step of a call moves that call only.                                  *)
LEMMA OneMoves ==
  ASSUME TypeOK, NEW c \in Calls, ReadDefinitions(c) \/ ChatStep(c)
  PROVE  /\ \A d \in Calls \ {c} : chat'[d] = chat[d]
         /\ UNCHANGED reload
<1>1. chat \in [Calls -> Chats]
  BY DEF TypeOK
<1>2. CASE ReadDefinitions(c) \/ ReadRule(c) \/ LookUp(c)
  BY <1>1, <1>2 DEF ReadDefinitions, ReadRule, LookUp, Raise
<1>3. CASE AuditHit(c) \/ AuditRouted(c) \/ Acquire(c) \/ Enter(c) \/ Leave(c) \/ Release(c)
  BY <1>1, <1>3 DEF AuditHit, AuditRouted, Acquire, Enter, Leave, Release, Raise, Goto
<1>4. CASE Exhausted(c) \/ Try(c) \/ AuditSkipped(c) \/ AuditAttempt(c) \/ Generate(c)
  BY <1>1, <1>4 DEF Exhausted, Try, AuditSkipped, AuditAttempt, Generate, Fail, Goto, RecordFailure
<1>5. CASE AuditResponse(c) \/ Again(c) \/ AuditRetry(c) \/ AuditFailed(c) \/ AuditRequestFailed(c)
  BY <1>1, <1>5 DEF AuditResponse, Again, AuditRetry, AuditFailed, AuditRequestFailed, Fail, Goto,
                    RecordFailure
<1> QED
  BY <1>2, <1>3, <1>4, <1>5 DEF ChatStep

(* What each step leaves in the record of its call.                        *)
Stays(c) ==
  /\ chat'[c].definitions = chat[c].definitions /\ chat'[c].rule = chat[c].rule
  /\ chat'[c].digest = chat[c].digest /\ chat'[c].left = chat[c].left
  /\ chat'[c].current = chat[c].current /\ chat'[c].reply = chat[c].reply
  /\ chat'[c].torn = chat[c].torn
Emptied(c) ==
  /\ chat'[c].definitions = None /\ chat'[c].rule = None /\ chat'[c].digest = None
  /\ chat'[c].left = {} /\ chat'[c].current = None /\ chat'[c].reply = None
  /\ chat'[c].torn = FALSE

LEMMA GotoEffect ==
  ASSUME chat \in [Calls -> Chats], NEW c \in Calls, NEW point, Goto(c, point)
  PROVE  chat'[c].at = point /\ Stays(c)
BY DEF Goto, Stays, Chats

LEMMA RaiseEffect ==
  ASSUME chat \in [Calls -> Chats], NEW c \in Calls, Raise(c)
  PROVE  chat'[c].at = "failing" /\ Emptied(c)
BY DEF Raise, Emptied, Fresh

LEMMA FailEffect ==
  ASSUME chat \in [Calls -> Chats], NEW c \in Calls, Fail(c)
  PROVE  chat'[c].at = "leave" /\ Emptied(c)
BY DEF Fail, Emptied, Fresh

LEMMA ReadEffects ==
  ASSUME TypeOK, NEW c \in Calls
  PROVE  /\ ReadDefinitions(c) => /\ chat'[c].at = "route"
                                  /\ chat'[c].definitions = registry
         /\ ReadRule(c) => \/ Raise(c)
                           \/ /\ chat'[c].at = "key"
                              /\ chat'[c].definitions = chat[c].definitions
                              /\ chat'[c].rule = registry
                              /\ chat'[c].left = Eligible(chat[c].definitions, registry, Request[c])
         /\ LookUp(c) => \/ /\ chat'[c].at = "routed"
                            /\ chat'[c].digest = registry /\ chat'[c].torn = IsTorn(c)
                            /\ chat'[c].left = chat[c].left
                            /\ chat'[c].current = None /\ chat'[c].reply = None
                         \/ \E i \in Found(Key(registry, Request[c])) :
                            /\ chat'[c].at = "hit"
                            /\ chat'[c].digest = registry /\ chat'[c].torn = cache[i].torn
                            /\ chat'[c].left = {}
                            /\ chat'[c].current = None /\ chat'[c].reply = cache[i].provider
<1>t. chat \in [Calls -> Chats] /\ chat[c] \in Chats
  BY DEF TypeOK
<1>1. ASSUME ReadDefinitions(c)
      PROVE  chat'[c].at = "route" /\ chat'[c].definitions = registry
  BY <1>1, <1>t DEF ReadDefinitions, Chats
<1>2. ASSUME ReadRule(c), ~Raise(c)
      PROVE  /\ chat'[c].at = "key"
             /\ chat'[c].definitions = chat[c].definitions
             /\ chat'[c].rule = registry
             /\ chat'[c].left = Eligible(chat[c].definitions, registry, Request[c])
  <2> DEFINE eligible == Eligible(chat[c].definitions, registry, Request[c])
  <2>1. chat'[c] = [[chat[c] EXCEPT !.rule = registry, !.left = eligible] EXCEPT !.at = "key"]
    BY <1>2, <1>t DEF ReadRule
  <2> HIDE DEF eligible
  <2>2. /\ chat'[c].at = "key" /\ chat'[c].definitions = chat[c].definitions
        /\ chat'[c].rule = registry /\ chat'[c].left = eligible
    BY <2>1, <1>t DEF Chats
  <2> QED
    BY <2>2 DEF eligible
<1>3. ASSUME LookUp(c),
             chat' = [chat EXCEPT ![c] = [[Fresh EXCEPT !.digest = registry, !.torn = IsTorn(c),
                                                        !.left = chat[c].left] EXCEPT !.at = "routed"]]
      PROVE  /\ chat'[c].at = "routed"
             /\ chat'[c].digest = registry /\ chat'[c].torn = IsTorn(c)
             /\ chat'[c].left = chat[c].left
             /\ chat'[c].current = None /\ chat'[c].reply = None
  BY <1>3, <1>t DEF Fresh
<1>4. ASSUME NEW i \in Found(Key(registry, Request[c])),
             chat' = [chat EXCEPT ![c] = [[Fresh EXCEPT !.digest = registry, !.torn = IsTorn(c),
                                                        !.left = chat[c].left]
                        EXCEPT !.at = "hit", !.left = {},
                               !.reply = cache[i].provider, !.torn = cache[i].torn]]
      PROVE  /\ chat'[c].at = "hit"
             /\ chat'[c].digest = registry /\ chat'[c].torn = cache[i].torn
             /\ chat'[c].left = {}
             /\ chat'[c].current = None /\ chat'[c].reply = cache[i].provider
  BY <1>4, <1>t DEF Fresh
<1>5. LookUp(c) =>
        \/ chat' = [chat EXCEPT ![c] = [[Fresh EXCEPT !.digest = registry, !.torn = IsTorn(c),
                                                      !.left = chat[c].left] EXCEPT !.at = "routed"]]
        \/ \E i \in Found(Key(registry, Request[c])) :
             chat' = [chat EXCEPT ![c] = [[Fresh EXCEPT !.digest = registry, !.torn = IsTorn(c),
                                                        !.left = chat[c].left]
                        EXCEPT !.at = "hit", !.left = {},
                               !.reply = cache[i].provider, !.torn = cache[i].torn]]
  BY DEF LookUp
<1> QED
  BY <1>1, <1>2, <1>3, <1>4, <1>5

LEMMA SlotEffects ==
  ASSUME TypeOK, NEW c \in Calls
  PROVE  /\ AuditHit(c) => Goto(c, "answered") \/ Raise(c)
         /\ AuditRouted(c) => Goto(c, "slot") \/ Raise(c)
         /\ Acquire(c) => Goto(c, "enter")
         /\ Enter(c) => Goto(c, "next")
         /\ Leave(c) => Goto(c, "release")
         /\ Release(c) => Goto(c, "answered") \/ Raise(c)
BY DEF AuditHit, AuditRouted, Acquire, Enter, Leave, Release

LEMMA WorkEffects ==
  ASSUME TypeOK, NEW c \in Calls
  PROVE  /\ Exhausted(c) => Fail(c)
         /\ Try(c) => \E first \in chat[c].left :
              /\ \/ /\ Admit(c, first[2]) /\ Permits(breaker[first[2]])
                    /\ chat'[c].at = "attempt" /\ chat'[c].current = first[2]
                 \/ /\ UNCHANGED <<breaker, history>>
                    /\ chat'[c].at = "skip" /\ chat'[c].current = chat[c].current
              /\ chat'[c].left = chat[c].left \ {first}
              /\ chat'[c].digest = chat[c].digest /\ chat'[c].torn = chat[c].torn
              /\ chat'[c].reply = chat[c].reply
         /\ AuditSkipped(c) => Goto(c, "next") \/ Fail(c)
         /\ AuditAttempt(c) => Goto(c, "generate") \/ Goto(c, "again") \/ Fail(c)
         /\ Generate(c) => Goto(c, "answer") \/ Goto(c, "again") \/ Goto(c, "failed") \/ Fail(c)
         /\ AuditResponse(c) => \/ /\ chat'[c].at = "leave" /\ chat'[c].reply = Current(c)
                                   /\ chat'[c].left = {} /\ chat'[c].current = None
                                   /\ chat'[c].digest = chat[c].digest /\ chat'[c].torn = chat[c].torn
                                \/ Goto(c, "again")
                                \/ Fail(c)
         /\ Again(c) => Goto(c, "retry") \/ Goto(c, "failed")
         /\ AuditRetry(c) => \/ Fail(c)
                             \/ chat'[c].at = "attempt" /\ Stays(c)
         /\ AuditFailed(c) => \/ Fail(c)
                              \/ /\ chat'[c].at = "next" /\ chat'[c].current = None
                                 /\ chat'[c].left = chat[c].left /\ chat'[c].reply = chat[c].reply
                                 /\ chat'[c].digest = chat[c].digest /\ chat'[c].torn = chat[c].torn
         /\ AuditRequestFailed(c) => Goto(c, "raised")
<1>t. chat \in [Calls -> Chats] /\ chat[c] \in Chats
  BY DEF TypeOK
<1>1. ASSUME Try(c)
      PROVE  \E first \in chat[c].left :
              /\ \/ /\ Admit(c, first[2]) /\ Permits(breaker[first[2]])
                    /\ chat'[c].at = "attempt" /\ chat'[c].current = first[2]
                 \/ /\ UNCHANGED <<breaker, history>>
                    /\ chat'[c].at = "skip" /\ chat'[c].current = chat[c].current
              /\ chat'[c].left = chat[c].left \ {first}
              /\ chat'[c].digest = chat[c].digest /\ chat'[c].torn = chat[c].torn
              /\ chat'[c].reply = chat[c].reply
  <2>1. PICK first \in chat[c].left :
          LET rest == [chat[c] EXCEPT !.left = @ \ {first}]
          IN  \/ /\ Admit(c, first[2]) /\ Permits(breaker[first[2]])
                 /\ chat' = [chat EXCEPT ![c] =
                      [rest EXCEPT !.at = "attempt", !.current = first[2], !.attempt = 1]]
              \/ /\ UNCHANGED <<breaker, history>>
                 /\ chat' = [chat EXCEPT ![c] = [rest EXCEPT !.at = "skip"]]
    BY <1>1 DEF Try
  <2>2. CASE /\ Admit(c, first[2]) /\ Permits(breaker[first[2]])
             /\ chat'[c] = [[chat[c] EXCEPT !.left = @ \ {first}]
                              EXCEPT !.at = "attempt", !.current = first[2], !.attempt = 1]
    BY <2>2, <1>t DEF Chats
  <2>3. CASE /\ UNCHANGED <<breaker, history>>
             /\ chat'[c] = [[chat[c] EXCEPT !.left = @ \ {first}] EXCEPT !.at = "skip"]
    BY <2>3, <1>t DEF Chats
  <2> QED
    BY <2>1, <2>2, <2>3, <1>t
<1>2. ASSUME AuditResponse(c), ~Goto(c, "again"), ~Fail(c)
      PROVE  /\ chat'[c].at = "leave" /\ chat'[c].reply = Current(c)
             /\ chat'[c].left = {} /\ chat'[c].current = None
             /\ chat'[c].digest = chat[c].digest /\ chat'[c].torn = chat[c].torn
  <2>1. chat' = [chat EXCEPT ![c] = [@ EXCEPT !.at = "leave", !.reply = Current(c),
                                              !.left = {}, !.current = None, !.attempt = 0]]
    BY <1>2 DEF AuditResponse, RecordFailure
  <2> QED
    BY <2>1, <1>t DEF Chats
<1>3. ASSUME AuditRetry(c), ~Fail(c)
      PROVE  chat'[c].at = "attempt" /\ Stays(c)
  BY <1>3, <1>t DEF AuditRetry, Stays, Chats
<1>4. ASSUME AuditFailed(c), ~Fail(c)
      PROVE  /\ chat'[c].at = "next" /\ chat'[c].current = None
             /\ chat'[c].left = chat[c].left /\ chat'[c].reply = chat[c].reply
             /\ chat'[c].digest = chat[c].digest /\ chat'[c].torn = chat[c].torn
  BY <1>4, <1>t DEF AuditFailed, Chats
<1> QED
  BY <1>1, <1>2, <1>3, <1>4
     DEF Exhausted, AuditSkipped, AuditAttempt, Generate, RecordFailure, Again, AuditRequestFailed

(* The classes of points of a call; a step changes class only where the    *)
(* slot is entered and left.                                               *)
Outside == Unslotted \cup Ends

LEMMA ClassesDiffer ==
  /\ Outside \cap (Entering \cup Entered \cup Leaving) = {}
  /\ Entering \cap Entered = {} /\ Leaving \cap Entered = {} /\ Entering \cap Leaving = {}
  /\ Points = Outside \cup Entering \cup Entered \cup Leaving
BY DEF Outside, Unslotted, Entering, Entered, Leaving, Ends, Points

(* A step that leaves the slots alone stays outside or at work.            *)
LEMMA SameClass ==
  ASSUME TypeOK, NEW c \in Calls, ReadDefinitions(c) \/ ChatStep(c),
         ~Acquire(c), ~Enter(c), ~Leave(c), ~Release(c)
  PROVE  /\ \/ chat[c].at \in Outside /\ chat'[c].at \in Outside
            \/ /\ chat[c].at \in Entered /\ chat'[c].at \in Entered
         /\ UNCHANGED <<slot, active>>
<1>t. chat \in [Calls -> Chats]
  BY DEF TypeOK
<1>1. CASE \/ ReadDefinitions(c) \/ ReadRule(c) \/ LookUp(c)
           \/ AuditHit(c) \/ AuditRouted(c) \/ AuditRequestFailed(c)
  <2>1. UNCHANGED <<slot, active>> /\ chat[c].at \in Outside
    BY <1>1 DEF ReadDefinitions, ReadRule, LookUp, AuditHit, AuditRouted, AuditRequestFailed,
                Outside, Unslotted
  <2>2. chat'[c].at \in {"route", "key", "failing", "routed", "hit", "answered", "slot", "raised"}
    BY <1>1, <1>t, ReadEffects, SlotEffects, WorkEffects, GotoEffect, RaiseEffect
  <2> QED
    BY <2>1, <2>2 DEF Outside, Unslotted, Ends
<1>2. CASE \/ Exhausted(c) \/ Try(c) \/ AuditSkipped(c) \/ AuditAttempt(c) \/ Generate(c)
           \/ AuditResponse(c) \/ Again(c) \/ AuditRetry(c) \/ AuditFailed(c)
  <2>1. UNCHANGED <<slot, active>> /\ chat[c].at \in Entered
    BY <1>2 DEF Exhausted, Try, AuditSkipped, AuditAttempt, Generate, AuditResponse, Again,
                AuditRetry, AuditFailed, Entered
  <2>2. chat'[c].at \in {"leave", "attempt", "skip", "next", "generate", "again", "answer", "failed", "retry"}
    BY <1>2, <1>t, WorkEffects, GotoEffect, FailEffect DEF Stays
  <2> QED
    BY <2>1, <2>2 DEF Entered
<1> QED
  BY <1>1, <1>2 DEF ChatStep

LEMMA MemoryKept ==
  ASSUME TypeOK, Remembers, Next
  PROVE  Remembers'
<1>t. /\ chat \in [Calls -> Chats] /\ registry \in Digests
      /\ reload \in [Reloads -> [at: ReloadPoints, config: Digests \cup {None}]]
  BY DEF TypeOK
<1>1. ASSUME NEW c \in Calls, ReadDefinitions(c) \/ ChatStep(c)
      PROVE  Remembers'
  <2>1. SUFFICES /\ chat'[c].at \in {"route", "key"} => chat'[c].definitions \in Digests
                 /\ chat'[c].at = "key" => chat'[c].rule \in Digests
                 /\ chat'[c].at \in {"attempt", "generate", "answer", "again", "retry", "failed"}
                      => chat'[c].current \in Providers
    BY <1>1, OneMoves DEF Remembers
  <2>2. CASE ReadDefinitions(c) \/ LookUp(c)
    BY <1>t, <2>2, ReadEffects
  <2>3. CASE ReadRule(c)
    <3>1. chat[c].definitions \in Digests
      BY <2>3 DEF ReadRule, Remembers
    <3> QED
      BY <1>t, <2>3, <3>1, ReadEffects, RaiseEffect
  <2>4. CASE AuditHit(c) \/ AuditRouted(c) \/ Acquire(c) \/ Enter(c) \/ Leave(c) \/ Release(c)
    BY <1>t, <2>4, SlotEffects, GotoEffect, RaiseEffect
  <2>5. CASE Exhausted(c) \/ AuditSkipped(c) \/ AuditFailed(c) \/ AuditRequestFailed(c)
    BY <1>t, <2>5, WorkEffects, GotoEffect, FailEffect
  <2>6. CASE Try(c)
    <3>1. \A first \in chat[c].left : first[2] \in Providers
      BY <1>t DEF Chats
    <3> QED
      BY <2>6, <3>1, WorkEffects
  <2>7. CASE AuditAttempt(c) \/ Generate(c) \/ AuditResponse(c) \/ Again(c) \/ AuditRetry(c)
    <3>1. chat[c].current \in Providers
      BY <2>7 DEF Remembers, AuditAttempt, Generate, AuditResponse, Again, AuditRetry
    <3> QED
      BY <1>t, <2>7, <3>1, WorkEffects, GotoEffect, FailEffect DEF Stays
  <2> QED
    BY <1>1, <2>2, <2>3, <2>4, <2>5, <2>6, <2>7 DEF ChatStep
<1>2. ASSUME NEW r \in Reloads, ReloadStep(r)
      PROVE  Remembers'
  <2>1. UNCHANGED chat /\ \A s \in Reloads \ {r} : reload'[s] = reload[s]
    BY <1>2, <1>t DEF ReloadStep, Load, ReadConfig, Refresh, ClearCache, Move
  <2>2. reload'[r].at = "config" => reload'[r].config \in Digests
    <3>1. CASE ReadConfig(r)
      BY <3>1, <1>t DEF ReadConfig
    <3>2. CASE Load(r) \/ Refresh(r) \/ ClearCache(r)
      BY <3>2, <1>t DEF Load, Refresh, ClearCache, Move
    <3> QED
      BY <1>2, <3>1, <3>2 DEF ReloadStep
  <2> QED
    BY <2>1, <2>2 DEF Remembers
<1>3. ASSUME NEW p \in Providers, RecoveryElapses(p)
      PROVE  Remembers'
  BY <1>3 DEF Remembers, RecoveryElapses
<1> QED
  BY <1>1, <1>2, <1>3 DEF Next

-----------------------------------------------------------------------------
(* Slots.                                                                  *)

Held == Entering \cup Entered \cup Leaving

LEMMA AtFinite ==
  ASSUME NEW points
  PROVE  IsFiniteSet(At(points)) /\ Cardinality(At(points)) \in Nat
<1>1. At(points) \subseteq Calls
  BY DEF At
<1> QED
  BY <1>1, FS_Subset, FS_CardinalityType, ModelGatewayAssumption

(* A call that moves joins, leaves or does not change a class of points.   *)
LEMMA Crossing ==
  ASSUME NEW points, NEW c \in Calls, \A d \in Calls \ {c} : chat'[d] = chat[d]
  PROVE  /\ (chat[c].at \in points <=> chat'[c].at \in points)
              => Cardinality(At(points))' = Cardinality(At(points))
         /\ chat[c].at \notin points /\ chat'[c].at \in points
              => Cardinality(At(points)') = Cardinality(At(points)) + 1
         /\ chat[c].at \in points /\ chat'[c].at \notin points
              => Cardinality(At(points)') = Cardinality(At(points)) - 1
<1>1. (chat[c].at \in points <=> chat'[c].at \in points) => At(points)' = At(points)
  BY DEF At
<1>2. chat[c].at \notin points /\ chat'[c].at \in points
        => At(points)' = At(points) \cup {c} /\ c \notin At(points)
  BY DEF At
<1>3. chat[c].at \in points /\ chat'[c].at \notin points
        => At(points)' = At(points) \ {c} /\ c \in At(points)
  BY DEF At
<1> QED
  BY <1>1, <1>2, <1>3, AtFinite, FS_AddElement, FS_RemoveElement

LEMMA Working ==
  ASSUME active = Cardinality(At(Entered))
  PROVE  /\ active \in Nat
         /\ active = 0 <=> At(Entered) = {}
         /\ \A c \in Calls : chat[c].at = "leave" => active > 0
<1>1. active \in Nat /\ (active = 0 <=> At(Entered) = {})
  BY AtFinite, FS_EmptySet
<1>2. ASSUME NEW c \in Calls, chat[c].at = "leave"
      PROVE  c \in At(Entered)
  BY <1>2 DEF At, Entered
<1> QED
  BY <1>1, <1>2

LEMMA SlotsKeptByCalls ==
  ASSUME TypeOK, SlotsConserved, SlotsRecover,
         NEW c \in Calls, ReadDefinitions(c) \/ ChatStep(c)
  PROVE  SlotsConserved' /\ SlotsRecover'
<1> USE DEF Held
<1>t. /\ chat \in [Calls -> Chats] /\ chat[c] \in Chats
      /\ slot \in [value: Nat, bound: Nat \ {0}]
  BY DEF TypeOK
<1>m. \A d \in Calls \ {c} : chat'[d] = chat[d]
  BY OneMoves
<1>s. slipped' = slipped
  BY DEF ReadDefinitions, ChatStep, ReadRule, LookUp, AuditHit, AuditRouted, Acquire, Enter,
     Leave, Release, Exhausted, Try, AuditSkipped, AuditAttempt, Generate, AuditResponse, Again,
     AuditRetry, AuditFailed, AuditRequestFailed, Admit, RecordFailure, Tell, Abandon, history
<1>c. Cardinality(At(Entered)) \in Nat /\ Cardinality(At(Held)) \in Nat
  BY AtFinite
<1>p. Entering \cup Entered \cup Leaving = Held
  OBVIOUS
<1> SUFFICES /\ active' = Cardinality(At(Entered)')
             /\ ~slipped => slot'.value + Cardinality(At(Held)') = slot'.bound
             /\ slot'.value <= slot'.bound /\ slot'.bound <= slot'.value + Cardinality(At(Held)')
  BY <1>s, <1>p DEF SlotsConserved, SlotsRecover
<1>h. /\ active = Cardinality(At(Entered))
      /\ ~slipped => slot.value + Cardinality(At(Held)) = slot.bound
      /\ slot.value <= slot.bound /\ slot.bound <= slot.value + Cardinality(At(Held))
  BY <1>p DEF SlotsConserved, SlotsRecover
<1>1. CASE Acquire(c)
  <2>1. chat[c].at = "slot" /\ chat'[c].at = "enter"
    BY <1>1, <1>t, SlotEffects, GotoEffect DEF Acquire
  <2>2. Cardinality(At(Entered)') = Cardinality(At(Entered))
    BY <2>1, <1>m, Crossing DEF Entered
  <2>3. Cardinality(At(Held)') = Cardinality(At(Held)) + 1
    BY <2>1, <1>m, Crossing DEF Entered, Entering, Leaving
  <2>4. slot'.value = slot.value - 1 /\ slot'.bound = slot.bound /\ active' = active
    BY <1>1, <1>t DEF Acquire
  <2> QED
    BY <1>h, <1>c, <1>t, <2>2, <2>3, <2>4
<1>2. CASE Enter(c)
  <2>1. chat[c].at = "enter" /\ chat'[c].at = "next"
    BY <1>2, <1>t, SlotEffects, GotoEffect DEF Enter
  <2>2. Cardinality(At(Entered)') = Cardinality(At(Entered)) + 1
    BY <2>1, <1>m, Crossing DEF Entered
  <2>3. Cardinality(At(Held)') = Cardinality(At(Held))
    BY <2>1, <1>m, Crossing DEF Entered, Entering
  <2>4. UNCHANGED slot /\ active' = active + 1
    BY <1>2 DEF Enter
  <2> QED
    BY <1>h, <1>c, <2>2, <2>3, <2>4
<1>3. CASE Leave(c)
  <2>1. chat[c].at = "leave" /\ chat'[c].at = "release"
    BY <1>3, <1>t, SlotEffects, GotoEffect DEF Leave
  <2>2. Cardinality(At(Entered)') = Cardinality(At(Entered)) - 1
    BY <2>1, <1>m, Crossing DEF Entered
  <2>3. Cardinality(At(Held)') = Cardinality(At(Held))
    BY <2>1, <1>m, Crossing DEF Entered, Leaving
  <2>4. UNCHANGED slot /\ active' = active - 1
    BY <1>3 DEF Leave
  <2> QED
    BY <1>h, <1>c, <2>2, <2>3, <2>4
<1>4. CASE Release(c)
  <2>1. chat[c].at = "release" /\ chat'[c].at \in {"answered", "failing"}
    BY <1>4, <1>t, SlotEffects, GotoEffect, RaiseEffect DEF Release
  <2>2. Cardinality(At(Entered)') = Cardinality(At(Entered))
    BY <2>1, <1>m, Crossing DEF Entered
  <2>3. Cardinality(At(Held)') = Cardinality(At(Held)) - 1
    BY <2>1, <1>m, Crossing DEF Entered, Entering, Leaving
  <2>4. c \in At(Held)
    BY <2>1 DEF At, Leaving
  <2>5. Cardinality(At(Held)) # 0
    BY <2>4, AtFinite, FS_EmptySet
  <2>6. slipped \/ slot.value < slot.bound
    BY <1>h, <1>c, <1>t, <2>5
  <2>7. /\ slot'.bound = slot.bound /\ active' = active
        /\ \/ slot.value < slot.bound /\ slot'.value = slot.value + 1
           \/ slot.value = slot.bound /\ slot'.value = slot.value
    BY <1>4, <1>t DEF Release
  <2> QED
    BY <1>h, <1>c, <1>t, <2>2, <2>3, <2>5, <2>6, <2>7
<1>5. CASE ~Acquire(c) /\ ~Enter(c) /\ ~Leave(c) /\ ~Release(c)
  <2>1. /\ \/ chat[c].at \in Outside /\ chat'[c].at \in Outside
           \/ /\ chat[c].at \in Entered /\ chat'[c].at \in Entered
        /\ UNCHANGED <<slot, active>>
    BY <1>5, SameClass
  <2>2. /\ chat[c].at \in Entered <=> chat'[c].at \in Entered
        /\ chat[c].at \in Held <=> chat'[c].at \in Held
    BY <2>1, ClassesDiffer
  <2>3. /\ Cardinality(At(Entered)') = Cardinality(At(Entered))
        /\ Cardinality(At(Held)') = Cardinality(At(Held))
    BY <2>2, <1>m, Crossing
  <2> QED
    BY <1>h, <2>1, <2>3
<1> QED
  BY <1>1, <1>2, <1>3, <1>4, <1>5

LEMMA SlotsKeptByOthers ==
  ASSUME TypeOK, Remembers, SlotsConserved, SlotsRecover,
         (\E r \in Reloads : ReloadStep(r)) \/ (\E p \in Providers : RecoveryElapses(p))
  PROVE  SlotsConserved' /\ SlotsRecover'
<1>1. UNCHANGED <<chat, active>>
  BY DEF ReloadStep, Load, ReadConfig, Refresh, ClearCache, RecoveryElapses
<1>2. \A points : At(points)' = At(points)
  BY <1>1 DEF At
<1>3. CASE UNCHANGED <<slot, slipped>>
  BY <1>1, <1>2, <1>3 DEF SlotsConserved, SlotsRecover
<1>4. CASE \E r \in Reloads : Rebuild(r) /\ active = 0
  <2>1. PICK r \in Reloads : Rebuild(r) /\ active = 0
    BY <1>4
  <2>2. At(Entered) = {}
    BY <2>1, Working DEF SlotsConserved
  <2>3. ~slipped' => At(Entering \cup Entered \cup Leaving) = {}
    BY <2>1, <2>2 DEF Rebuild, Slipping, At
  <2>4. slot'.value = slot'.bound
    BY <2>1 DEF Rebuild
  <2>5. /\ ~slipped' => slot'.value + 0 = slot'.bound
        /\ slot'.value <= slot'.bound
        /\ slot'.bound <= slot'.value + Cardinality(At(Entering \cup Entered \cup Leaving))
    <3>1. TypeOK'
      BY OtherTyping
    <3>2. slot'.value \in Nat
      BY <3>1 DEF TypeOK
    <3>3. Cardinality(At(Entering \cup Entered \cup Leaving)) \in Nat
      BY AtFinite
    <3> QED
      BY <2>4, <3>2, <3>3
  <2> QED
    BY <1>1, <1>2, <2>2, <2>3, <2>5, FS_EmptySet DEF SlotsConserved, SlotsRecover
<1> QED
  BY <1>3, <1>4
     DEF ReloadStep, Load, ReadConfig, Refresh, ClearCache, RecoveryElapses, history

-----------------------------------------------------------------------------
(* Breakers.                                                               *)

LEMMA GuardKept ==
  ASSUME TypeOK, Remembers, FailingIsGuarded, Next
  PROVE  FailingIsGuarded'
<1>t. breaker \in [Providers -> Breakers]
  BY DEF TypeOK
<1>g. \A p \in Providers : Guarded(breaker[p], p)
  BY DEF FailingIsGuarded, Guarded
<1> SUFFICES \A p \in Providers : Guarded(breaker'[p], p)
  BY DEF FailingIsGuarded, Guarded
<1>1. ASSUME NEW p \in Providers, NEW b, Guarded(b, p), breaker' = [breaker EXCEPT ![p] = b]
      PROVE  \A q \in Providers : Guarded(breaker'[q], q)
  BY <1>1, <1>t, <1>g
<1>2. ASSUME NEW c \in Calls, ReadDefinitions(c) \/ ChatStep(c)
      PROVE  \A p \in Providers : Guarded(breaker'[p], p)
  <2>1. CASE Asks(c)
    BY <2>1, <1>1, <1>t, <1>g, BreakerGuarded DEF Asks, Admit
  <2>2. CASE Reports(c)
    BY <2>2, <1>1, <1>t, <1>g, BreakerGuarded DEF Reports, Tell
  <2>3. CASE Abandons(c) \/ LeavesAll
    BY <2>3, <1>g DEF Abandons, LeavesAll
  <2> QED
    BY <1>2, <2>1, <2>2, <2>3, BreakerSteps
<1>3. ASSUME NEW r \in Reloads, ReloadStep(r)
      PROVE  \A p \in Providers : Guarded(breaker'[p], p)
  <2>1. UNCHANGED breaker \/ breaker' = [p \in Providers |-> Closed]
    BY <1>3 DEF ReloadStep, Load, ReadConfig, Refresh, ClearCache, Rebuild
  <2>2. \A p \in Providers : Guarded(Closed, p)
    BY <1>t, <1>g, BreakerGuarded
  <2> QED
    BY <2>1, <2>2, <1>g
<1>4. ASSUME NEW p \in Providers, RecoveryElapses(p)
      PROVE  \A q \in Providers : Guarded(breaker'[q], q)
  BY <1>4, <1>1, <1>t, <1>g, BreakerGuarded DEF RecoveryElapses
<1> QED
  BY <1>2, <1>3, <1>4 DEF Next

Probing == {"attempt", "generate", "answer", "retry"}

LEMMA ProbeKeptByCalls ==
  ASSUME TypeOK, Remembers, ProbeOwned, NEW c \in Calls, ReadDefinitions(c) \/ ChatStep(c)
  PROVE  ProbeOwned'
<1>t. /\ chat \in [Calls -> Chats] /\ chat[c] \in Chats
      /\ breaker \in [Providers -> Breakers] /\ prober \in [Providers -> Calls \cup {None}]
      /\ None \notin Calls
  BY ModelGatewayAssumption DEF TypeOK
<1>m. \A d \in Calls \ {c} : chat'[d] = chat[d]
  BY OneMoves
<1>o. \A p \in Providers : prober[p] # None =>
        /\ prober[p] \in Calls /\ breaker[p].probe
        /\ chat[prober[p]].at \in Probing /\ Current(prober[p]) = p
  BY <1>t DEF ProbeOwned, Probing
<1> SUFFICES ASSUME NEW p \in Providers, prober'[p] # None
             PROVE  /\ breaker'[p].probe
                    /\ chat'[prober'[p]].at \in Probing
                    /\ chat'[prober'[p]].current = p
  BY DEF ProbeOwned, Probing, Current
(* Who was probing provider p still is, unless it is the call that moved.  *)
<1>1. ASSUME prober'[p] = prober[p], breaker'[p].probe = breaker[p].probe, prober[p] # c
      PROVE  /\ breaker'[p].probe
             /\ chat'[prober'[p]].at \in Probing
             /\ chat'[prober'[p]].current = p
  BY <1>1, <1>o, <1>m DEF Current
<1>2. CASE chat[c].at \notin Probing /\ LeavesAll
  BY <1>2, <1>1, <1>o DEF LeavesAll
<1>3. CASE Try(c)
  <2>1. PICK first \in chat[c].left :
          \/ /\ Admit(c, first[2])
             /\ chat'[c].at = "attempt" /\ chat'[c].current = first[2]
          \/ UNCHANGED <<breaker, history>>
    BY <1>3, WorkEffects
  <2>2. prober[p] # c
    BY <1>3, <1>o, <1>t DEF Try, Probing
  <2>3. CASE p = first[2] /\ PermitsAsProbe(breaker[p]) /\ Admit(c, first[2]) /\ chat'[c].at = "attempt"
             /\ chat'[c].current = first[2]
    <3>1. prober'[p] = c /\ breaker'[p] = allow_call(breaker[p])
      BY <2>3, <1>t DEF Admit
    <3>2. breaker'[p].probe
      BY <2>3, <3>1, <1>t DEF allow_call, Breakers
    <3> QED
      BY <2>3, <3>1, <3>2 DEF Probing
  <2>4. CASE ~(p = first[2] /\ PermitsAsProbe(breaker[p])) \/ UNCHANGED <<breaker, history>>
    <3>1. prober'[p] = prober[p] /\ breaker'[p] = breaker[p]
      BY <2>1, <2>4, <1>t DEF Admit, allow_call, history
    <3> QED
      BY <3>1, <1>1, <2>2
  <2> QED
    BY <2>1, <2>3, <2>4
<1>4. CASE AuditAttempt(c) \/ Generate(c) \/ AuditResponse(c) \/ AuditRetry(c)
  <2>0. Current(c) \in Providers
    BY <1>4 DEF AuditAttempt, Generate, AuditResponse, AuditRetry, Remembers, Current
  <2>1. \/ /\ UNCHANGED <<breaker, prober>>
           /\ chat'[c].at \in Probing /\ chat'[c].current = chat[c].current
        \/ Abandon(c, Current(c)) /\ UNCHANGED breaker
        \/ Tell(Current(c), record_failure(breaker[Current(c)], Threshold[Current(c)]))
        \/ Tell(Current(c), record_success(breaker[Current(c)]))
    <3>1. ASSUME NEW point \in Probing, Goto(c, point)
          PROVE  chat'[c].at \in Probing /\ chat'[c].current = chat[c].current
      BY <3>1, <1>t, GotoEffect DEF Stays
    <3>2. CASE AuditAttempt(c) \/ Generate(c)
      BY <3>1, <3>2 DEF AuditAttempt, Generate, RecordFailure, history, Probing
    <3>3. CASE AuditResponse(c)
      BY <3>3 DEF AuditResponse, RecordFailure
    <3>4. CASE AuditRetry(c)
      <4>1. Fail(c) \/ (chat'[c].at = "attempt" /\ Stays(c))
        BY <3>4, WorkEffects
      <4>2. \/ UNCHANGED history /\ chat' = [chat EXCEPT ![c].at = "attempt", ![c].attempt = @ + 1]
            \/ Abandon(c, Current(c))
        BY <3>4 DEF AuditRetry
      <4>3. chat' = [chat EXCEPT ![c].at = "attempt", ![c].attempt = @ + 1]
              => chat'[c].at = "attempt" /\ chat'[c].current = chat[c].current
        BY <1>t DEF Chats
      <4> QED
        BY <3>4, <4>2, <4>3 DEF AuditRetry, history, Probing
    <3> QED
      BY <1>4, <3>2, <3>3, <3>4
  <2>2. CASE p # Current(c)
    <3>1. prober'[p] = prober[p] /\ breaker'[p] = breaker[p]
      BY <2>0, <2>1, <2>2, <1>t DEF Abandon, Tell
    <3>2. prober[p] # c
      BY <2>2, <1>o, <1>t
    <3> QED
      BY <1>1, <3>1, <3>2
  <2>3. CASE p = Current(c)
    <3>1. CASE Tell(p, record_failure(breaker[p], Threshold[p])) \/ Tell(p, record_success(breaker[p]))
      <4>1. ~record_failure(breaker[p], Threshold[p]).probe /\ ~record_success(breaker[p]).probe
        BY DEF record_failure, record_success, Closed
      <4>2. prober'[p] = None
        BY <3>1, <4>1, <1>t DEF Tell
      <4> QED
        BY <4>2
    <3>2. CASE Abandon(c, p) /\ UNCHANGED breaker
      <4>1. prober[p] # c /\ prober'[p] = prober[p]
        BY <3>2, <1>t DEF Abandon
      <4> QED
        BY <4>1, <3>2, <1>1
    <3>3. CASE /\ UNCHANGED <<breaker, prober>>
               /\ chat'[c].at \in Probing /\ chat'[c].current = chat[c].current
      BY <3>3, <2>3, <1>1, <1>o DEF Current
    <3> QED
      BY <2>1, <2>3, <3>1, <3>2, <3>3
  <2> QED
    BY <2>2, <2>3
<1>5. CASE Again(c)
  <2>0. Current(c) \in Providers
    BY <1>5 DEF Again, Remembers, Current
  <2>1. prober[p] # c
    BY <1>5, <1>o, <1>t DEF Again, Probing
  <2>2. CASE p = Current(c) /\ PermitsAsProbe(breaker[p]) /\ Admit(c, p) /\ Goto(c, "retry")
    <3>1. prober'[p] = c /\ breaker'[p] = allow_call(breaker[p])
      BY <2>2, <1>t DEF Admit
    <3>2. breaker'[p].probe
      BY <2>2, <3>1, <1>t DEF allow_call, Breakers
    <3>3. chat'[c].at = "retry" /\ chat'[c].current = p
      BY <2>2, <1>t, GotoEffect DEF Stays, Current
    <3> QED
      BY <3>1, <3>2, <3>3 DEF Probing
  <2>3. CASE prober'[p] = prober[p] /\ breaker'[p] = breaker[p]
    BY <2>1, <2>3, <1>1
  <2>4. \/ Admit(c, Current(c)) /\ Goto(c, "retry")
        \/ UNCHANGED <<breaker, history>>
    BY <1>5 DEF Again
  <2>5. ASSUME Admit(c, Current(c)), ~(p = Current(c) /\ PermitsAsProbe(breaker[p]))
        PROVE  prober'[p] = prober[p] /\ breaker'[p] = breaker[p]
    BY <2>5, <2>0, <1>t DEF Admit, allow_call
  <2> QED
    BY <2>2, <2>3, <2>4, <2>5 DEF history
<1> QED
  BY <1>2, <1>3, <1>4, <1>5
     DEF ReadDefinitions, ChatStep, ReadRule, LookUp, AuditHit, AuditRouted, Acquire, Enter, Leave,
         Release, Exhausted, AuditSkipped, AuditFailed, AuditRequestFailed, LeavesAll, history, Probing

LEMMA ProbeKeptByOthers ==
  ASSUME TypeOK, ProbeOwned,
         (\E r \in Reloads : ReloadStep(r)) \/ (\E p \in Providers : RecoveryElapses(p))
  PROVE  ProbeOwned'
<1>1. CASE UNCHANGED <<chat, prober, breaker>>
  BY <1>1 DEF ProbeOwned, Current
<1>2. CASE UNCHANGED chat /\ prober' = [p \in Providers |-> None]
  BY <1>2 DEF ProbeOwned
<1>3. CASE \E p \in Providers : RecoveryElapses(p)
  <2>1. PICK p \in Providers : RecoveryElapses(p)
    BY <1>3
  <2>2. \A q \in Providers : breaker'[q].probe = breaker[q].probe
    BY <2>1 DEF RecoveryElapses, Recovered, TypeOK, Breakers
  <2> QED
    BY <2>1, <2>2 DEF ProbeOwned, Current, RecoveryElapses, history
<1> QED
  BY <1>1, <1>2, <1>3
     DEF ReloadStep, Load, ReadConfig, Refresh, Rebuild, ClearCache, history

-----------------------------------------------------------------------------
(* Answers.                                                                *)

Allowed(d, q, p) == MayServe(d, d, q, p)

(* What a call has in its hands, unless it is torn, its registry file      *)
(* allows; and so has what is in the cache.                                *)
HeldAllowed(c) ==
  /\ chat[c].at = "key" =>
       \A x \in chat[c].left :
         MayServe(chat[c].definitions, chat[c].rule, Request[c], x[2])
  /\ chat[c].at \notin {"idle", "route", "key"} /\ ~chat[c].torn =>
       /\ \A x \in chat[c].left : Allowed(chat[c].digest, Request[c], x[2])
       /\ chat[c].current # None => Allowed(chat[c].digest, Request[c], chat[c].current)
       /\ chat[c].reply # None => Allowed(chat[c].digest, Request[c], chat[c].reply)
CacheAllowed ==
  \A i \in DOMAIN cache :
    ~cache[i].torn => Allowed(cache[i].key.digest, cache[i].key.request, cache[i].provider)
AllAllowed == CacheAllowed /\ \A c \in Calls : HeldAllowed(c)

LEMMA AllowedKeptByCalls ==
  ASSUME TypeOK, Remembers, AllAllowed, NEW c \in Calls, ReadDefinitions(c) \/ ChatStep(c)
  PROVE  AllAllowed'
<1>t. chat \in [Calls -> Chats] /\ chat[c] \in Chats /\ None \notin Providers
  BY ModelGatewayAssumption DEF TypeOK
<1>m. \A d \in Calls \ {c} : HeldAllowed(d)'
  BY OneMoves DEF AllAllowed, HeldAllowed
<1>h. HeldAllowed(c) /\ CacheAllowed
  BY DEF AllAllowed
<1>1. HeldAllowed(c)'
  <2>g. ASSUME NEW point, point \notin {"idle", "route", "key"}, Goto(c, point),
               chat[c].at \notin {"idle", "route", "key"}
        PROVE  HeldAllowed(c)'
    BY <2>g, <1>h, <1>t, GotoEffect DEF Stays, HeldAllowed
  <2>e. ASSUME Raise(c) \/ Fail(c)
        PROVE  HeldAllowed(c)'
    BY <2>e, <1>t, RaiseEffect, FailEffect DEF Emptied, HeldAllowed
  <2>1. CASE ReadDefinitions(c)
    BY <2>1, ReadEffects DEF HeldAllowed
  <2>2. CASE ReadRule(c)
    <3>1. CASE Raise(c)
      BY <3>1, <2>e
    <3>2. CASE ~Raise(c)
      <4>1. /\ chat'[c].at = "key"
            /\ chat'[c].definitions = chat[c].definitions
            /\ chat'[c].rule = registry
            /\ chat'[c].left = Eligible(chat[c].definitions, registry, Request[c])
        BY <2>2, <3>2, ReadEffects
      <4>2. \A x \in Eligible(chat[c].definitions, registry, Request[c]) :
              MayServe(chat[c].definitions, registry, Request[c], x[2])
        BY DEF Eligible
      <4> QED
        BY <4>1, <4>2 DEF HeldAllowed
    <3> QED
      BY <3>1, <3>2
  <2>3. CASE LookUp(c)
    <3>1. CASE /\ chat'[c].at = "routed"
               /\ chat'[c].digest = registry /\ chat'[c].torn = IsTorn(c)
               /\ chat'[c].left = chat[c].left
               /\ chat'[c].current = None /\ chat'[c].reply = None
      <4>1. ~IsTorn(c) => chat[c].definitions = registry /\ chat[c].rule = registry
        BY DEF IsTorn
      <4>2. \A x \in chat[c].left : MayServe(chat[c].definitions, chat[c].rule, Request[c], x[2])
        BY <2>3, <1>h DEF LookUp, HeldAllowed
      <4> QED
        BY <3>1, <4>1, <4>2 DEF HeldAllowed, Allowed
    <3>2. ASSUME NEW i \in Found(Key(registry, Request[c])),
                 /\ chat'[c].at = "hit"
                 /\ chat'[c].digest = registry /\ chat'[c].torn = cache[i].torn
                 /\ chat'[c].left = {}
                 /\ chat'[c].current = None /\ chat'[c].reply = cache[i].provider
          PROVE  HeldAllowed(c)'
      <4>1. cache[i].key.digest = registry /\ cache[i].key.request = Request[c] /\ i \in DOMAIN cache
        BY DEF Found, Key
      <4> QED
        BY <3>2, <4>1, <1>h DEF HeldAllowed, CacheAllowed
    <3> QED
      BY <2>3, <3>1, <3>2, ReadEffects
  <2>4. CASE AuditHit(c) \/ AuditRouted(c) \/ Acquire(c) \/ Release(c)
    BY <2>4, <2>g, <2>e, SlotEffects DEF AuditHit, AuditRouted, Acquire, Release
  <2>5. CASE Enter(c) \/ Leave(c)
    <3>1. /\ chat'[c].at \in {"next", "release"} /\ chat[c].at \in {"enter", "leave"}
          /\ chat'[c].left = chat[c].left /\ chat'[c].current = chat[c].current
          /\ chat'[c].digest = chat[c].digest /\ chat'[c].torn = chat[c].torn
          /\ chat'[c].reply = chat[c].reply
      BY <2>5, SlotEffects, GotoEffect DEF Enter, Leave, Stays, TypeOK
    <3> QED
      BY <3>1, <1>h DEF HeldAllowed
  <2>6. CASE Exhausted(c) \/ AuditSkipped(c) \/ AuditAttempt(c) \/ Generate(c) \/ Again(c)
             \/ AuditRequestFailed(c)
    BY <2>6, <2>g, <2>e, WorkEffects
       DEF Exhausted, AuditSkipped, AuditAttempt, Generate, Again, AuditRequestFailed
  <2>7. CASE Try(c)
    <3>1. PICK first \in chat[c].left :
            /\ chat'[c].at \in {"attempt", "skip"} /\ chat'[c].current \in {first[2], chat[c].current}
            /\ chat'[c].left = chat[c].left \ {first}
            /\ chat'[c].digest = chat[c].digest /\ chat'[c].torn = chat[c].torn
            /\ chat'[c].reply = chat[c].reply
      BY <2>7, WorkEffects
    <3>2. chat[c].at = "next"
      BY <2>7 DEF Try
    <3> QED
      BY <3>1, <3>2, <1>h DEF HeldAllowed
  <2>8. CASE AuditResponse(c)
    <3>1. CASE Goto(c, "again") \/ Fail(c)
      BY <3>1, <2>8, <2>g, <2>e DEF AuditResponse
    <3>2. CASE /\ chat'[c].at = "leave" /\ chat'[c].reply = Current(c)
               /\ chat'[c].left = {} /\ chat'[c].current = None
               /\ chat'[c].digest = chat[c].digest /\ chat'[c].torn = chat[c].torn
      <4>1. chat[c].at = "answer" /\ chat[c].current # None
        BY <2>8, <1>t DEF AuditResponse, Remembers
      <4> QED
        BY <3>2, <4>1, <1>h DEF HeldAllowed, Current
    <3> QED
      BY <2>8, <3>1, <3>2, WorkEffects
  <2>9. CASE AuditRetry(c)
    <3>1. CASE chat'[c].at = "attempt" /\ Stays(c)
      BY <3>1, <2>9, <1>h DEF AuditRetry, Stays, HeldAllowed
    <3> QED
      BY <2>9, <3>1, <2>e, WorkEffects
  <2>10. CASE AuditFailed(c)
    <3>1. CASE /\ chat'[c].at = "next" /\ chat'[c].current = None
               /\ chat'[c].left = chat[c].left /\ chat'[c].reply = chat[c].reply
               /\ chat'[c].digest = chat[c].digest /\ chat'[c].torn = chat[c].torn
      BY <3>1, <2>10, <1>h DEF AuditFailed, HeldAllowed
    <3> QED
      BY <2>10, <3>1, <2>e, WorkEffects
  <2> QED
    BY <2>1, <2>2, <2>3, <2>4, <2>5, <2>6, <2>7, <2>8, <2>9, <2>10 DEF ChatStep
<1>2. CacheAllowed'
  <2>t. cache \in Seq(Entries)
    BY DEF TypeOK
  <2>s. SUFFICES ASSUME NEW i \in DOMAIN cache', ~cache'[i].torn
                 PROVE  Allowed(cache'[i].key.digest, cache'[i].key.request, cache'[i].provider)
    BY DEF CacheAllowed
  <2>0. ASSUME NEW j \in DOMAIN cache, cache'[i] = cache[j]
        PROVE  Allowed(cache'[i].key.digest, cache'[i].key.request, cache'[i].provider)
    BY <2>0, <2>s, <1>h DEF CacheAllowed
  <2>1. CASE LookUp(c)
    <3>1. CASE UNCHANGED cache
      BY <3>1, <2>0
    <3>2. ASSUME NEW j \in DOMAIN cache,
                 cache' = RemoveAt(cache, j) \/ cache' = Append(RemoveAt(cache, j), cache[j])
          PROVE  \E k \in DOMAIN cache : cache'[i] = cache[k]
      <4>1. RemoveAt(cache, j) \in Seq(Entries) /\ From(RemoveAt(cache, j), cache)
        BY <2>t, RemovedFrom
      <4>2. PICK rest \in Seq(Entries) : rest = RemoveAt(cache, j)
        BY <4>1
      <4>3. CASE cache' = rest
        BY <4>1, <4>2, <4>3 DEF From
      <4>4. CASE cache' = Append(rest, cache[j])
        <5>1. cache'[i] = cache[j] \/ (i \in DOMAIN rest /\ cache'[i] = rest[i])
          BY <4>2, <4>4
        <5> QED
          BY <4>1, <4>2, <5>1 DEF From
      <4> QED
        BY <3>2, <4>2, <4>3, <4>4
    <3>3. \/ UNCHANGED cache
          \/ \E j \in DOMAIN cache : \/ cache' = RemoveAt(cache, j)
                                     \/ cache' = Append(RemoveAt(cache, j), cache[j])
      BY <2>1 DEF LookUp, Found
    <3> QED
      BY <3>1, <3>2, <3>3, <2>0
  <2>2. CASE AuditResponse(c)
    <3> DEFINE entry == [key |-> Key(chat[c].digest, Request[c]), provider |-> Current(c), torn |-> chat[c].torn]
    <3>1. entry \in Entries
      BY <2>2, ModelGatewayAssumption DEF TypeOK, Chats, AuditResponse, Remembers, Current, Key, Entries
    <3>2. cache' = Put(entry) \/ UNCHANGED cache
      BY <2>2 DEF AuditResponse
    <3>3. ASSUME cache'[i] = entry
          PROVE  Allowed(cache'[i].key.digest, cache'[i].key.request, cache'[i].provider)
      <4>1. chat[c].at = "answer" /\ chat[c].current # None /\ ~chat[c].torn
        BY <2>2, <2>s, <3>3, <1>t DEF AuditResponse, Remembers
      <4>2. Allowed(chat[c].digest, Request[c], chat[c].current)
        BY <4>1, <1>h DEF HeldAllowed
      <4> QED
        BY <3>3, <4>2 DEF Key, Current
    <3> QED
      BY <3>1, <3>2, <3>3, <2>0, PutFrom
  <2> QED
    BY <1>h, <2>0, <2>1, <2>2
       DEF ReadDefinitions, ChatStep, ReadRule, AuditHit, AuditRouted, Acquire, Enter, Leave, Release,
           Exhausted, Try, AuditSkipped, AuditAttempt, Generate, Again, AuditRetry, AuditFailed,
           AuditRequestFailed
<1> QED
  BY <1>m, <1>1, <1>2 DEF AllAllowed

LEMMA AllowedKeptByOthers ==
  ASSUME AllAllowed,
         (\E r \in Reloads : ReloadStep(r)) \/ (\E p \in Providers : RecoveryElapses(p))
  PROVE  AllAllowed'
<1>1. UNCHANGED chat /\ (UNCHANGED cache \/ cache' = <<>>)
  BY DEF ReloadStep, Load, ReadConfig, Refresh, ClearCache, RecoveryElapses
<1>2. \A c \in Calls : HeldAllowed(c)'
  BY <1>1 DEF AllAllowed, HeldAllowed
<1>3. CacheAllowed'
  BY <1>1 DEF AllAllowed, CacheAllowed
<1> QED
  BY <1>2, <1>3 DEF AllAllowed

LEMMA AllowedAnswers ==
  ASSUME AllAllowed
  PROVE  AnswersAllowed
BY DEF AllAllowed, HeldAllowed, AnswersAllowed, Allowed

-----------------------------------------------------------------------------
(* Retries.                                                                *)

LEMMA StretchOf ==
  ASSUME NEW x
  PROVE  /\ x.at = "idle" => Stretch(x) = 0
         /\ x.at = "route" => Stretch(x) = 1
         /\ x.at = "key" => Stretch(x) = 2
         /\ x.at \in {"hit", "routed"} => Stretch(x) = 3
         /\ x.at = "slot" => Stretch(x) = 4
         /\ x.at = "enter" => Stretch(x) = 5
         /\ x.at \in Entered \ {"leave"} => Stretch(x) = 6
         /\ x.at = "leave" => Stretch(x) = 7
         /\ x.at = "release" => Stretch(x) = 8
         /\ x.at = "failing" => Stretch(x) = 9
         /\ x.at \in {"answered", "raised"} => Stretch(x) = 10
BY DEF Stretch, Entered, Ends

(* The attempts and the tries of a call that moves without reading.        *)
LEMMA GotoCounts ==
  ASSUME TypeOK, NEW c \in Calls, NEW point, Goto(c, point)
  PROVE  /\ chat'[c].at = point /\ chat'[c].left = chat[c].left
         /\ chat'[c].current = chat[c].current /\ chat'[c].attempt = chat[c].attempt
BY DEF TypeOK, Chats, Goto

(* A retry is announced only while attempts are left.                      *)
Counted == \A c \in Calls : chat[c].at = "retry" => chat[c].attempt < Attempts[chat[c].current]

LEMMA CountedKept ==
  ASSUME TypeOK, Remembers, Counted, [Next]_vars
  PROVE  Counted'
<1>1. ASSUME NEW c \in Calls, ReadDefinitions(c) \/ ChatStep(c)
      PROVE  Counted'
  <2>t. chat \in [Calls -> Chats]
    BY DEF TypeOK
  <2>1. CASE Again(c)
    <3>1. \/ Goto(c, "failed")
          \/ Goto(c, "retry") /\ chat[c].attempt < Attempts[chat[c].current]
      BY <2>1 DEF Again, Current
    <3>2. chat'[c].at = "retry" => chat'[c].attempt < Attempts[chat'[c].current]
      BY <3>1, GotoCounts
    <3> QED
      BY <1>1, <3>2, OneMoves DEF Counted
  <2>2. CASE \/ ReadDefinitions(c) \/ ReadRule(c) \/ LookUp(c)
             \/ AuditHit(c) \/ AuditRouted(c) \/ Acquire(c) \/ Enter(c) \/ Leave(c) \/ Release(c)
    <3>1. chat'[c].at # "retry"
      BY <2>t, <2>2, ReadEffects, SlotEffects, GotoEffect, RaiseEffect
    <3> QED
      BY <1>1, <3>1, OneMoves DEF Counted
  <2>3. CASE \/ Exhausted(c) \/ Try(c) \/ AuditSkipped(c) \/ AuditAttempt(c) \/ Generate(c)
             \/ AuditResponse(c) \/ AuditRetry(c) \/ AuditFailed(c) \/ AuditRequestFailed(c)
    <3>1. chat'[c].at # "retry"
      BY <2>t, <2>3, WorkEffects, GotoEffect, FailEffect
    <3> QED
      BY <1>1, <3>1, OneMoves DEF Counted
  <2> QED
    BY <1>1, <2>1, <2>2, <2>3 DEF ChatStep
<1>2. CASE UNCHANGED chat
  BY <1>2 DEF Counted
<1>3. (\E r \in Reloads : ReloadStep(r)) \/ (\E p \in Providers : RecoveryElapses(p)) => UNCHANGED chat
  BY DEF ReloadStep, Load, ReadConfig, Refresh, ClearCache, RecoveryElapses
<1> QED
  BY <1>1, <1>2, <1>3 DEF Next, vars

(* A call that has not got its slot, or has given it back, moves on.       *)
LEMMA PassesOn ==
  ASSUME TypeOK, NEW c \in Calls,
         \/ ReadDefinitions(c) \/ ReadRule(c) \/ LookUp(c)
         \/ AuditHit(c) \/ AuditRouted(c) \/ Acquire(c) \/ Enter(c) \/ Leave(c) \/ Release(c)
         \/ AuditRequestFailed(c)
  PROVE  Stretch(chat[c]) < Stretch(chat'[c])
<1>t. chat \in [Calls -> Chats]
  BY DEF TypeOK
<1>s. "next" \in Entered \ {"leave"}
  BY DEF Entered
<1>1. CASE ReadDefinitions(c)
  <2>1. chat[c].at = "idle" /\ chat'[c].at = "route"
    BY <1>1, ReadEffects DEF ReadDefinitions
  <2> QED
    BY <2>1, StretchOf
<1>2. CASE ReadRule(c)
  <2>1. chat[c].at = "route" /\ chat'[c].at \in {"key", "failing"}
    BY <1>2, <1>t, ReadEffects, RaiseEffect DEF ReadRule
  <2> QED
    BY <2>1, StretchOf
<1>3. CASE LookUp(c)
  <2>1. chat[c].at = "key" /\ chat'[c].at \in {"routed", "hit"}
    BY <1>3, ReadEffects DEF LookUp
  <2> QED
    BY <2>1, StretchOf
<1>4. CASE AuditHit(c) \/ AuditRouted(c)
  <2>1. chat[c].at \in {"hit", "routed"} /\ chat'[c].at \in {"answered", "slot", "failing"}
    BY <1>4, <1>t, SlotEffects, GotoEffect, RaiseEffect DEF AuditHit, AuditRouted
  <2> QED
    BY <2>1, StretchOf
<1>5. CASE Acquire(c)
  <2>1. chat[c].at = "slot" /\ chat'[c].at = "enter"
    BY <1>5, <1>t, SlotEffects, GotoEffect DEF Acquire
  <2> QED
    BY <2>1, StretchOf
<1>6. CASE Enter(c)
  <2>1. chat[c].at = "enter" /\ chat'[c].at \in Entered \ {"leave"}
    BY <1>6, <1>t, <1>s, SlotEffects, GotoEffect DEF Enter
  <2> QED
    BY <2>1, StretchOf
<1>7. CASE Leave(c)
  <2>1. chat[c].at = "leave" /\ chat'[c].at = "release"
    BY <1>7, <1>t, SlotEffects, GotoEffect DEF Leave
  <2> QED
    BY <2>1, StretchOf
<1>8. CASE Release(c)
  <2>1. chat[c].at = "release" /\ chat'[c].at \in {"answered", "failing"}
    BY <1>8, <1>t, SlotEffects, GotoEffect, RaiseEffect DEF Release
  <2> QED
    BY <2>1, StretchOf
<1>9. CASE AuditRequestFailed(c)
  <2>1. chat[c].at = "failing" /\ chat'[c].at = "raised"
    BY <1>9, <1>t, WorkEffects, GotoEffect DEF AuditRequestFailed
  <2> QED
    BY <2>1, StretchOf
<1> QED
  BY <1>1, <1>2, <1>3, <1>4, <1>5, <1>6, <1>7, <1>8, <1>9

(* A call in its slot leaves it, or is further with its candidates.        *)
LEMMA WorksOn ==
  ASSUME TypeOK, Remembers, Counted, NEW c \in Calls,
         \/ Exhausted(c) \/ Try(c) \/ AuditSkipped(c) \/ AuditAttempt(c) \/ Generate(c)
         \/ AuditResponse(c) \/ Again(c) \/ AuditRetry(c) \/ AuditFailed(c)
  PROVE  Further(chat[c], chat'[c])
<1>t. chat \in [Calls -> Chats] /\ chat[c] \in Chats
  BY DEF TypeOK
<1>a. chat[c].at \in {"next", "skip", "attempt", "generate", "answer", "again", "retry", "failed"}
  BY DEF Exhausted, Try, AuditSkipped, AuditAttempt, Generate, AuditResponse, Again, AuditRetry,
         AuditFailed
<1>b. {"next", "skip", "attempt", "generate", "answer", "again", "retry", "failed"}
        = Entered \ {"leave"}
  BY DEF Entered
<1>s. Stretch(chat[c]) = 6
  BY <1>a, <1>b, StretchOf
<1>l. ASSUME chat'[c].at = "leave"
      PROVE  Further(chat[c], chat'[c])
  BY <1>l, <1>s, StretchOf DEF Further
<1>f. ASSUME Fail(c)
      PROVE  Further(chat[c], chat'[c])
  BY <1>f, <1>l, <1>t, FailEffect
<1>c. ASSUME chat'[c].at \in Entered \ {"leave"}, chat'[c].left \subseteq chat[c].left,
             chat'[c].left # chat[c].left
      PROVE  Further(chat[c], chat'[c])
  BY <1>c, <1>s, StretchOf DEF Further
<1>v. ASSUME chat'[c].at \in Entered \ {"leave"}, chat'[c].left = chat[c].left,
             Verdict(chat[c]) < Verdict(chat'[c])
      PROVE  Further(chat[c], chat'[c])
  BY <1>v, <1>s, StretchOf DEF Further
<1>p. ASSUME chat'[c].at \in Entered \ {"leave"}, chat'[c].left = chat[c].left,
             Trying(chat[c]), Trying(chat'[c]), chat'[c].current = chat[c].current,
             \/ NextAttempt(chat[c], chat'[c])
             \/ chat'[c].attempt = chat[c].attempt /\ Pace(chat[c]) < Pace(chat'[c])
      PROVE  Further(chat[c], chat'[c])
  BY <1>p, <1>s, StretchOf DEF Further
<1>1. CASE Exhausted(c)
  BY <1>1, <1>f, WorkEffects
<1>2. CASE Try(c)
  <2>1. PICK first \in chat[c].left :
          /\ chat'[c].at \in {"attempt", "skip"}
          /\ chat'[c].left = chat[c].left \ {first}
    BY <1>2, WorkEffects
  <2> QED
    BY <2>1, <1>b, <1>c
<1>3. CASE AuditSkipped(c)
  <2>1. CASE Goto(c, "next")
    <3>1. /\ chat[c].at = "skip" /\ chat'[c].at = "next"
          /\ chat'[c].left = chat[c].left
      BY <1>3, <2>1, GotoCounts DEF AuditSkipped
    <3>2. Verdict(chat[c]) = 1 /\ Verdict(chat'[c]) = 2
      BY <3>1 DEF Verdict, Trying
    <3> QED
      BY <3>1, <3>2, <1>b, <1>v
  <2> QED
    BY <1>3, <2>1, <1>f DEF AuditSkipped
<1>4. CASE \/ AuditAttempt(c) /\ (Goto(c, "generate") \/ Goto(c, "again"))
           \/ Generate(c) /\ (Goto(c, "answer") \/ Goto(c, "again"))
           \/ AuditResponse(c) /\ Goto(c, "again")
           \/ Again(c) /\ Goto(c, "retry")
  <2>1. /\ chat'[c].left = chat[c].left
        /\ chat'[c].current = chat[c].current /\ chat'[c].attempt = chat[c].attempt
    BY <1>4, GotoCounts
  <2>2. \/ chat[c].at = "attempt" /\ chat'[c].at \in {"generate", "again"}
        \/ chat[c].at = "generate" /\ chat'[c].at \in {"answer", "again"}
        \/ chat[c].at = "answer" /\ chat'[c].at = "again"
        \/ chat[c].at = "again" /\ chat'[c].at = "retry"
    BY <1>4, GotoCounts DEF AuditAttempt, Generate, AuditResponse, Again
  <2>3. Pace(chat[c]) < Pace(chat'[c])
    BY <2>2 DEF Pace
  <2>4. Trying(chat[c]) /\ Trying(chat'[c])
    BY <2>2 DEF Trying
  <2>5. chat'[c].at \in Entered \ {"leave"}
    BY <2>2, <1>b
  <2> QED
    BY <2>1, <2>3, <2>4, <2>5, <1>p
<1>5. CASE (Generate(c) \/ Again(c)) /\ Goto(c, "failed")
  <2>1. /\ chat[c].at \in {"generate", "again"} /\ chat'[c].at = "failed"
        /\ chat'[c].left = chat[c].left
    BY <1>5, GotoCounts DEF Generate, Again
  <2>2. Verdict(chat[c]) = 0 /\ Verdict(chat'[c]) = 1
    BY <2>1 DEF Verdict, Trying
  <2> QED
    BY <2>1, <2>2, <1>b, <1>v
<1>6. CASE AuditRetry(c)
  <2>1. CASE chat' = [chat EXCEPT ![c].at = "attempt", ![c].attempt = @ + 1]
    <3>1. /\ chat'[c].at = "attempt" /\ chat'[c].attempt = chat[c].attempt + 1
          /\ chat'[c].left = chat[c].left /\ chat'[c].current = chat[c].current
      BY <2>1, <1>t DEF Chats
    <3>2. /\ chat[c].at = "retry" /\ chat[c].current \in Providers /\ chat[c].attempt \in Nat
          /\ chat[c].attempt < Attempts[chat[c].current]
      BY <1>6, <1>t DEF AuditRetry, Counted, Remembers, Chats
    <3>3. Attempts[chat[c].current] \in Nat
      BY <3>2, ModelGatewayAssumption
    <3>4. NextAttempt(chat[c], chat'[c])
      BY <3>1, <3>2, <3>3 DEF NextAttempt
    <3>5. Trying(chat[c]) /\ Trying(chat'[c])
      BY <3>1, <3>2 DEF Trying
    <3> QED
      BY <3>1, <3>4, <3>5, <1>b, <1>p
  <2> QED
    BY <1>6, <2>1, <1>f DEF AuditRetry
<1>7. CASE AuditFailed(c)
  <2>1. CASE chat'[c].at = "next" /\ chat'[c].left = chat[c].left
    <3>1. chat[c].at = "failed"
      BY <1>7 DEF AuditFailed
    <3>2. Verdict(chat[c]) = 1 /\ Verdict(chat'[c]) = 2
      BY <2>1, <3>1 DEF Verdict, Trying
    <3> QED
      BY <2>1, <3>2, <1>b, <1>v
  <2> QED
    BY <1>7, <2>1, <1>f, WorkEffects
<1>8. CASE AuditResponse(c)
  BY <1>8, <1>4, <1>f, <1>l, WorkEffects
<1> QED
  BY <1>1, <1>2, <1>3, <1>4, <1>5, <1>6, <1>7, <1>8, <1>f, WorkEffects

-----------------------------------------------------------------------------
(* The inductive invariant and the theorems.                               *)

IInv == /\ TypeOK /\ Remembers /\ SlotsConserved /\ SlotsRecover
        /\ ProbeOwned /\ FailingIsGuarded /\ AllAllowed

LEMMA IInvInit == Init => IInv
<1> SUFFICES ASSUME Init
             PROVE  IInv
  OBVIOUS
<1>1. TypeOK
  <2>1. Fresh \in Chats /\ Closed \in Breakers /\ <<>> \in Seq(Entries)
    BY DEF Fresh, Chats, Points, Unslotted, Closed, Breakers
  <2>2. Slots[registry] \in Nat \ {0}
    BY ModelGatewayAssumption DEF Init
  <2> QED
    BY <2>1, <2>2 DEF Init, TypeOK, ReloadPoints
<1>2. Remembers /\ ProbeOwned
  BY DEF Init, Remembers, Fresh, ProbeOwned
<1>3. SlotsConserved /\ SlotsRecover
  <2>1. At(Entered) = {} /\ At(Entering \cup Entered \cup Leaving) = {}
    BY DEF Init, At, Fresh, Entering, Entered, Leaving
  <2>2. Slots[registry] \in Nat
    BY ModelGatewayAssumption DEF Init
  <2>3. Cardinality({}) = 0
    BY FS_EmptySet
  <2>4. active = 0 /\ slot.value = Slots[registry] /\ slot.bound = Slots[registry]
    BY DEF Init
  <2> QED
    BY <2>1, <2>2, <2>3, <2>4 DEF SlotsConserved, SlotsRecover
<1>4. FailingIsGuarded
  BY ModelGatewayAssumption DEF Init, FailingIsGuarded, Closed
<1>5. AllAllowed
  BY DEF Init, AllAllowed, CacheAllowed, HeldAllowed, Fresh
<1> QED
  BY <1>1, <1>2, <1>3, <1>4, <1>5 DEF IInv

LEMMA IInvStep == IInv /\ [Next]_vars => IInv'
<1> SUFFICES ASSUME IInv, [Next]_vars
             PROVE  IInv'
  OBVIOUS
<1> USE DEF IInv
<1>1. CASE UNCHANGED vars
  <2> USE <1>1 DEF vars, history
  <2>1. TypeOK' /\ Remembers'
    BY DEF TypeOK, Remembers
  <2>2. At(Entered)' = At(Entered)
        /\ At(Entering \cup Entered \cup Leaving)' = At(Entering \cup Entered \cup Leaving)
    BY DEF At
  <2>3. SlotsConserved' /\ SlotsRecover'
    BY <2>2 DEF SlotsConserved, SlotsRecover
  <2>4. ProbeOwned' /\ FailingIsGuarded'
    BY DEF ProbeOwned, FailingIsGuarded, Current
  <2>5. AllAllowed'
    BY DEF AllAllowed, CacheAllowed, HeldAllowed
  <2> QED
    BY <2>1, <2>3, <2>4, <2>5
<1>2. CASE Next
  <2>1. Remembers' /\ FailingIsGuarded'
    BY <1>2, MemoryKept, GuardKept
  <2>2. ASSUME NEW c \in Calls, ReadDefinitions(c) \/ ChatStep(c)
        PROVE  TypeOK' /\ SlotsConserved' /\ SlotsRecover' /\ ProbeOwned' /\ AllAllowed'
    <3>1. active \in Nat /\ (chat[c].at = "leave" => active > 0)
      BY Working DEF SlotsConserved
    <3> QED
      BY <2>2, <3>1, ChatTyping, SlotsKeptByCalls, ProbeKeptByCalls, AllowedKeptByCalls
  <2>3. ASSUME (\E r \in Reloads : ReloadStep(r)) \/ (\E p \in Providers : RecoveryElapses(p))
        PROVE  TypeOK' /\ SlotsConserved' /\ SlotsRecover' /\ ProbeOwned' /\ AllAllowed'
    BY <2>3, OtherTyping, SlotsKeptByOthers, ProbeKeptByOthers, AllowedKeptByOthers
  <2> QED
    BY <1>2, <2>1, <2>2, <2>3 DEF Next
<1> QED
  BY <1>1, <1>2

LEMMA Inductive == Spec => []IInv
  BY IInvInit, IInvStep, PTL DEF Spec

(* The state of the gateway is well formed, the count of requests at work  *)
(* included (service.py:155-171).                                          *)
THEOREM TypeCorrect == Spec => []TypeOK
<1>1. IInv => TypeOK
  BY DEF IInv
<1> QED
  BY Inductive, <1>1, PTL

(* No slot is lost or invented while no refresh slips between a semaphore  *)
(* and the count (service.py:114-123, 155-171).                            *)
THEOREM ConservesSlots == Spec => []SlotsConserved
<1>1. IInv => SlotsConserved
  BY DEF IInv
<1> QED
  BY Inductive, <1>1, PTL

(* Refreshes beside calls, between their semaphore and the count too, make *)
(* no slot and lose none for good: what the semaphore lacks is held by a   *)
(* call (service.py:114-123, 155-171).                                     *)
THEOREM RecoversSlots == Spec => []SlotsRecover
<1>1. IInv => SlotsRecover
  BY DEF IInv
<1> QED
  BY Inductive, <1>1, PTL

(* The half-open probe belongs to a call that is still at its provider     *)
(* (resilience.py:34-62, service.py:495-560).                              *)
THEOREM ProbesAreOwned == Spec => []ProbeOwned
<1>1. IInv => ProbeOwned
  BY DEF IInv
<1> QED
  BY Inductive, <1>1, PTL

(* A provider at its failure threshold is never called freely              *)
(* (resilience.py:34-62).                                                  *)
THEOREM GuardsFailing == Spec => []FailingIsGuarded
<1>1. IInv => FailingIsGuarded
  BY DEF IInv
<1> QED
  BY Inductive, <1>1, PTL

(* Answers, fresh or cached, come from providers their registry file       *)
(* allows, private ones where it must be (service.py:249-327).             *)
THEOREM AnswersAreAllowed == Spec => []AnswersAllowed
<1>1. IInv => AnswersAllowed
  BY AllowedAnswers DEF IInv
<1> QED
  BY Inductive, <1>1, PTL
(* A call asks each candidate in at most one round of at most max_attempts *)
(* attempts and ends, whatever times out, fails or is reloaded beside it   *)
(* (service.py:429-569).                                                   *)
THEOREM RetriesDoEnd == Spec => RetriesEnd
<1>1. Init => Counted
  BY DEF Init, Counted, Fresh
<1>2. IInv /\ Counted /\ [Next]_vars => Counted'
  BY CountedKept DEF IInv
<1>3. IInv /\ Counted /\ [Next]_vars
        => [\A c \in Calls : chat'[c] = chat[c] \/ Further(chat[c], chat'[c])]_vars
  <2> SUFFICES ASSUME IInv, Counted, Next, NEW c \in Calls
               PROVE  chat'[c] = chat[c] \/ Further(chat[c], chat'[c])
    OBVIOUS
  <2>i. TypeOK /\ Remembers
    BY DEF IInv
  <2>1. ASSUME NEW d \in Calls, ReadDefinitions(d) \/ ChatStep(d)
        PROVE  chat'[c] = chat[c] \/ Further(chat[c], chat'[c])
    <3>1. CASE d # c
      BY <2>i, <2>1, <3>1, OneMoves
    <3>2. CASE d = c
      BY <2>i, <2>1, <3>2, PassesOn, WorksOn DEF ChatStep, Further
    <3> QED
      BY <3>1, <3>2
  <2>2. (\E r \in Reloads : ReloadStep(r)) \/ (\E p \in Providers : RecoveryElapses(p))
          => UNCHANGED chat
    BY DEF ReloadStep, Load, ReadConfig, Refresh, ClearCache, RecoveryElapses
  <2> QED
    BY <2>1, <2>2 DEF Next
<1> QED
  BY Inductive, <1>1, <1>2, <1>3, PTL DEF Spec, RetriesEnd
=============================================================================
