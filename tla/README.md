# Verification of oauth2-token-exchange

This directory holds TLA+ models of the service in this repository, the TLC
configurations that check them on small instances, and proofs that TLAPS
checks for instances of any size. Paths below are relative to the root of the
repository.

To check a run: `tlc -config AuthzSafety.cfg MCAuthz.tla`; to check the proofs:
`tlapm AuthzProofs.tla`, and likewise the other modules whose names end in `Proofs`. PROJECT.json lists every
run with its module, configuration and expected outcome, and maps every definition to the lines it models.

## 1. The system

oauth2-token-exchange is an external authorizer for Envoy/Istio, and an API by
which users manage the Personal Access Tokens (PATs) they authorize with. A
replica keeps no state of its own; everything that lasts is in Redis or at ZITADEL.

```
 client --> Envoy --Check--> handler --> authz domain service --> Redis (cache)
              |                                 |--> ZITADEL: userinfo, token exchange
              +--Connect RPC--> PAT handler --> pat domain service
                                                |--> ZITADEL: search/create user,
                                                     add/list/remove PAT
```

| Component | Source | State | Operations | Hard part |
|---|---|---|---|---|
| ext_authz handler | `internal/transport/http/handler.go`, `internal/app/authz` | none | `Check` | runs concurrently with itself; client may leave |
| authorization domain service | `internal/domain/authz/service.go` | admin PAT | `AuthorizePAT` | four remote operations in a row, none atomic with another |
| Redis token cache | `internal/infra/cache/redis.go` | PAT digest -> claims or invalid marker, with TTL | `Get`, `Set` | stale entries, crossing writes, TTL 0, errors that are ignored |
| ZITADEL client | `internal/infra/zitadel` | none | userinfo, exchange, five user/PAT operations | errors mean refusal, outage and disconnect alike; a 404 means that nobody is there; a success without a result is a success; conflict branch; one page |
| HTTP client | `pkg/http/client.go` | shared resty client | `Request` | tries every method again, POST included |
| PAT handlers and domain service | `internal/transport/http/handler/pat.go`, `internal/app/pat`, `internal/domain/pat` | none | `CreatePAT`, `ListPATs`, `DeletePAT` | several remote steps, each may be half done, executed late or twice |
| router, middleware | `router.go`, `middleware.go` | list of origins | routes, CORS headers, access log, recovery | refuses nothing itself, so browsers' two-step protocol must |
| server assembly | `di.go` | - | `NewServer` | time limits of server and clients differ |
| process lifecycle | `cmd/authz/main.go` | signal, error channel | start, graceful shutdown | shutdown races long handlers; one deadline for two shutdowns |
| configuration | `internal/config` | viper | `MustLoad` | three sources; errors of the second are dropped; no default for the cache TTL |
| dates | `zitadel/types.go`, `handler/pat.go` | - | to and from seconds, times, JSON | wrap-around; null, blank and zero |
| logging, tracing | `pkg/logger`, `pkg/otel`, `pkg/tracer` | global providers | - | spans not yet exported at exit |

What makes each of them correct:

* authorization: an allowance names the owner of the PAT; it rests on a recent
  confirmation by ZITADEL; a revoked PAT stops working in bounded time; a valid PAT is not
  refused for somebody else's failure; every request is answered.
* PAT management: a created PAT is the caller's; a call cannot mint without bound; what is
  reported as deleted is gone; nobody deletes another's PAT; a list is neither
  invented nor incomplete; racing first calls of one user both succeed.
* both together: who creates a PAT is who is served with it; a new PAT works at once and a
  deleted one stops in bounded time.
* lifecycle: running requests get their time, then the process ends, whatever they do.
* headers: a hit answers what a miss would have. Dates: what is stored is what was asked for.
  CORS: only pages that are let in get an operation to run. Configuration: the most specific source of
  a key decides its value.

PROJECT.json lists the hazards behind these, each at its line.

## 2. Modules

| Module | Models |
|---|---|
| `Authz` | `Check`, `AuthorizePAT`, the cache, userinfo and exchange; clock, outages, disconnects, crashes, revocations |
| `AuthzDocs` | what README.md says of this path and the code does not do |
| `AuthzProofs` | theorems about `Authz` |
| `Lease` | the abstract promise of authorization |
| `AuthzLease` | the refinement mapping from `Authz` to `Lease` |
| `MCAuthz` | model values for `Authz` and `AuthzLease` |
| `AuthzLeaseProofs` | the proof that `Authz` implements `Lease` |
| `PatService` | the three PAT calls, the user and PAT operations of the ZITADEL client, the retries of the HTTP client |
| `MCPatService` | symmetry for `PatService` and `PatRegistry` |
| `Registry` | the abstract promise of PAT management |
| `PatRegistry` | the refinement mapping from `PatService` to `Registry` |
| `PatProofs` | theorems about `PatService`, and the proof that it implements `Registry` |
| `PatDocs` | what the documents say of PAT management and the code does not do |
| `System`, `MCSystem` | `Authz` and `PatService` composed over one ZITADEL |
| `SystemProofs` | theorems about `System`, from those about its halves |
| `Lifecycle` | `main`, the HTTP server and the tracer, from start to exit |
| `LifecycleProofs` | theorems about `Lifecycle` |
| `Decision`, `MCDecision` | the claims, the cached token, and the headers of an allowance on a hit and on a miss |
| `DecisionProofs` | theorems about `Decision` |
| `Dates` | the expiration date of a PAT between seconds, `time.Time` and JSON |
| `DatesProofs` | theorems about `Dates`, for words of any width |
| `Cors`, `MCCors` | the cross-origin middleware and the browser it talks to |
| `CorsProofs` | theorems about `Cors` |
| `Config` | `MustLoad`, and what README.md says of it and the code does not do |

### 2.1 Authz

`req[r]` is a handler goroutine: `pc` is the remote operation it waits for, `due` the time
that operation has left, `gone` whether its context is done, `user` and `age` what
ZITADEL said of the PAT and how long ago, `reason` the answer. `redis[k]` is the
`CachedToken` under a key with its remaining time to live; the claims are abstracted to
the user they name. `live` is what ZITADEL accepts. `deadFor`, `calm` and `age` are
history: only properties read them.

| Action | Code |
|---|---|
| `Check` | `handler.go` 41-56: missing header, blank header, else the lookup starts |
| `CacheGet` | `service.go` 85-108: marker, grant, or miss and error; no admin PAT |
| `GetUserInfo` | `client.go` 183-211 as called at `service.go` 110 |
| `CacheInvalid` | `service.go` 112-127 |
| `ExchangeWithActor` | `client.go` 133-181 and the parsing of the ID token, `service.go` 138-158 |
| `CacheSet` | `service.go` 160-180 |
| `Disconnect`, `Crash` | the context of `net/http`; the end of a process or a recovered panic |
| `Revoke`, `Fail`, `Recover`, `Tick` | ZITADEL, Redis and time |

Decisions in the model that a reader should know:

* **Time** is relative: lifetimes count down, ages count up and saturate at `Horizon`, so
  the state space is finite and no behaviour is cut off. `CallBudget` bounds one
  remote operation, retries included, *and* its effect (a Redis write that its caller gave
  up on is not executed later than that). In the code the bounds are 3 attempts of 60 s and
  resty's waits in between for ZITADEL, and go-redis's timeouts and retries for Redis.
* **The end of a context** is a client that leaves, or the server's `ReadTimeout`: `net/http` reads
  ahead on the connection while a handler runs, the read fails at the deadline, and the context is
  cancelled as if the client had left. `Disconnect` stands for both; a property that speaks of a client that
  waits means one that waits less than that.
* **A context that is done** makes go-redis refuse the next command and resty fail. While a
  cache write is under way a disconnect changes nothing, so `Disconnect` leaves it out.
* **Failing** of a service is its environment's choice and lasts: timeouts, 5xx, an admin PAT
  ZITADEL does not accept, a body that is no ID token. While failing, a service may still
  answer. A Redis value that does not parse is a failing Redis.
* **A revoked PAT** may belong to a user who is gone, so its exchange may be refused; a
  live PAT belongs to a user ZITADEL exchanges.
* **The digest** is free of collisions (SHA-256).
* The handler's 500 branch and the `!ok` branch at `service.go` 131 are dead:
  `AuthorizePAT` returns no error, and the client handed in by `NewServer` is a `Client`.

### 2.2 PatService

`rpc[c]` is a call and where it is. Searches and lists change nothing and are one step,
whatever retries they take. An operation that changes something is a message in `flight`,
one per HTTP attempt: `Execute` carries it out at any later time, even when the client has
given up; the reply advances the call that still waits for that very attempt, is lost, or is
replaced by an error. `Timeout` is the failure of an attempt seen by the client, which sends
the next one until `Retry` is used up (`DefaultRetry`, resty's retry on error). `machines`,
`owner` and `live` are ZITADEL's data; `minted` is history.

| Action | Code |
|---|---|
| `Begin` | `handler/pat.go`: header check, expiration check; also `service_impl.go` 31 |
| `GetMachineUser` | `client.go` 213-321, and what each domain operation does with the result |
| `CreateUser`, `GetExistingUser` | `client.go` 323-415 with its conflict branch 358-379 |
| `AddToken` | `client.go` 417-481 |
| `ListTokens` | `client.go` 483-561 |
| `RemoveToken`, `Refuse` | `client.go` 563-601 |
| `Timeout` | `pkg/http/client.go` 28-37 |

An answer need not say what there is. A search that is answered 404, be it by a gateway before ZITADEL, is
read as "no machine user" (`client.go` 259-266), also when there is one; so `GetMachineUser` and `GetExistingUser` may always find
nobody, and then `ListPATs` succeeds with an empty list, `DeletePAT` says that there is no machine user, and `CreatePAT` tries to
create one. A success without a list is an empty list, and one without a token is a success of `CreatePAT` that hands over nothing
(`client.go` 462-480, which only warns). `misled` is history: it marks a call that ended that way although there was
something. What is assumed of statuses is that a success comes of a message that ZITADEL executed, and that nothing
between ZITADEL and the service changes a body in a more inventive way; an answer with a token but a blank ID counts as one
with the PAT, since the token is what a client can use.

A machine user goes by the human whose ID is its username. ZITADEL keeps usernames unique and
answers searches from what it has executed. `Taken` are usernames in use by something a search for
machine users of the organization does not find. E-mail and names are not modelled; dates are in `Dates`.

### 2.3 Abstract specifications

`Lease` is what a client may rely on, without cache, operations or Redis: a request is granted in the
name of the owner of its PAT, while the PAT is accepted or for less than `Grace` after; a valid PAT is
refused only for an outage under way or over for less than `Window`, to a client that has left, or
where there is no admin PAT. `AuthzLease` maps `Authz` to it: `req[r]` is seen as free, asking,
granted or refused; `deadFor` is the lapse of a PAT; `Grace` is `2 * CallBudget + CacheTTL` and
`Window` is `CallBudget + CacheTTL`. Every step of `Authz` is one step of `Lease` or a stutter.

`Registry` is what a caller of PAT management may rely on, without machine users, messages, attempts or replies.
A call that succeeds takes effect at one instant between its beginning and its answer: a list shows a page of what is there at
that instant, a creation adds the PAT it answers with, a deletion removes the PAT it names. A call that is refused has
no effect, nor has a deletion told that there is no machine user, and that is told only to a human who never had a PAT. A call that fails, or
whose caller hears nothing, may have taken effect, and still may afterwards: a creation as often as it was
attempted. And a caller may be misled: told of no PAT by a list, though there are some; told that there is no machine user by a deletion; or told of
success by a creation that did mint a PAT, but not which. `PatRegistry` maps `PatService` to it: the phases of a call are seen as one state, `open`; `Attempts` is `Retry + 1`; a
PAT is created or deleted when ZITADEL executes the message.

### 2.4 System

`System` instantiates `Authz` as `A` and `PatService` as `P` and shares `live`. A step belongs to one
of them, except that a PAT that is minted or removed at ZITADEL begins or ceases to be accepted. Requests
present PATs that were returned to somebody (`Held`); one of which its caller was not told is presented by nobody. `Authz` takes the owner of a PAT as given;
`AddToken` ties it to the human for whom `PatService` mints, which is what userinfo and exchange
report at the real ZITADEL: the username of the machine user is the ID of the human.
`Presented`, `Operations` and `Callers` bound what clients do.

### 2.5 Lifecycle

`main` walks from `boot` over `spawned`, `waiting`, `draining` and `flushing` to `returned`; `serve` is the
goroutine that calls `ListenAndServe`; `conn[k]` a connection, its handler if it has one and what became
of its last answer; `left` the rest of `shutdownCtx`, which both shutdowns use.

| Action | Code |
|---|---|
| `Boot` (`InitTracer`, `NewServer`, `Fatal`) | `main.go` 20-28, `di.go` 30-48, `otel/tracer.go` 28-73 |
| `Notify`, `Signal` | `main.go` 38-39: before it a signal kills |
| `Listen`, `ServeFails` | `main.go` 29-36 |
| `Stop`, `Drain`, `GiveUp` | `main.go` 41-58, `http.Server.Shutdown` |
| `Flush` | `main.go` 60-64, `otel/tracer.go` 119-133 |
| `Answer` | the return of a handler, against `di.go` 83 |

A tick is as long as the limits need. Handlers may hang, the collector may be away. A step of the
shutdown that waits for nothing takes no tick (`Prompt`): the deadline of ten seconds is long compared
with a round of polling. That a failed server ends in exit status 0 is visible in the code and not modelled.

### 2.6 Decision, Dates, Cors, Config

These are small state machines around computations. `Decision`: `Miss` stores an entry and answers from
claims, `Hit` answers from the entry, `Reconfigure` is a replica with other header names;
`Responses` is a set, since two fields under names equal up to case are written in the order of a Go map.
`Dates`: words of `Width` bits, so that every second a request can hold is tried, those included
that wrap around when 1970 is moved to the year 1. `Cors`: the browser asks with OPTIONS, remembers, calls,
and may hide the answer; the browser is external. `Config`: viper is external, modelled by what `MustLoad` asks of it.

## 3. Runs

All runs that should pass exhaust their state space. Deadlock is not checked: the models stop
where the system does, when clients, revocations and calls have been used up.

| Run | Instance | Shows |
|---|---|---|
| `AuthzSafety` | 2 requests, 1 PAT, TTL 1, budget 1, fairness | `TypeOK`, `IInv`, `FreshGrant`, `RevocationLag`, `PoisonWindow`, `RequestsEnd`, `OutageHeals`, `ImplementsLease` |
| `AuthzOwners` | 3 requests, one of them on a replica without admin PAT, 2 PATs of 2 users, TTL 1, budget 0 | `AllowNamesOwner` |
| `PatSafety` | 2 calls, 2 humans (one taken), 3 PATs, 1 retry, page of 2 | `TypeOK`, `CreatedIsOwn`, `MintBound`, `ConflictIsForeign`, `DeletedIsGone`, `OnlyOwnDeleted`, `ListIsFaithful`, `ImplementsRegistry` |
| `PatLiveness` | 2 calls, 1 human, 1 PAT, 1 retry, fairness | `CallsEnd` |
| `SystemSafety` | 1 request, 1 call, 2 PATs of 2 humans, TTL 1, budget 0 | `TypeOK`, `ServedAsCreator`, `CreatedWorks`, `DeletedStops` |
| `LifecycleSafety` | 2 connections, deadline 2, write timeout 3, fairness | `TypeOK`, `CutAfterGrace`, `StopBound`, `SpansKept`, `ServerEndsProcess` |
| `DecisionSafety` | 5 configurations of header names, claims present or not, up to 2 groups | `HitRepeatsMiss`, `HeadersAreClaims` |
| `DatesSafety` | words of 5 bits, up to 2 PATs | `SentAsAsked`, `DatesAsStored` |
| `CorsSafety` | 2 origins, 4 lists, every kind of page and call | `OnlyPagesLetIn`, `PagesLetInServed` |

What the properties of the two components mean in terms of the code:

* `RevocationLag`: after `DeletePAT`, or after a PAT expires at ZITADEL, it may still be allowed
  for up to `2 * CallBudget + CacheTTL`, and no longer. The code invalidates nothing, and a
  slow fill may even put a grant over a newer marker; the bound holds because no hit renews an
  entry and every step before the write has a budget.
* `FreshGrant`: the same bound for the JWT handed to the backend; the issuer's token lifetime must
  exceed it, as `expires_in` is ignored.
* `PoisonWindow`: a valid PAT is refused only while ZITADEL fails or within `CallBudget + CacheTTL`
  after. The marker of another client's disconnect never gets written, because
  the write uses the context that is done. This is why a refactoring that detaches the cache write
  from the request context would break the service; the mutant `CacheWriteDetached` does just that.
* `AllowNamesOwner`: fills of different PATs, under way at once on replicas that share the cache, and answers from hits never
  take each other's claims.
* `MintBound`, `CreatedIsOwn`: retries of the POST may mint more PATs than the call returns, at
  most one per attempt, all for the caller; the one returned is one of these. Only a success of ZITADEL's that holds no token is
  passed on without a PAT, and then one was minted.
* `ConflictIsForeign`: racing first calls, and a retry that meets its own first attempt, recover by
  the conflict branch. A 404 of the first search does no harm for that reason; one of the second makes the call fail over a machine
  user of this service.
* `ListIsFaithful`: never a PAT of another, nor one that is dead; and complete when a page suffices. The exception is a caller whose
  search is answered 404, or whose list comes without a result: such a caller is shown none, and cannot tell that from having none.
* `OnlyOwnDeleted`, `DeletedIsGone`: see the comments at their definitions.
* `ImplementsRegistry`: the properties above in one: whatever crosses, is lost or comes late, a caller sees atomic calls, of which
  those that failed may have taken effect; and is misled only in the ways that `Registry` names.
* `DeletedStops`: a PAT that `DeletePAT` has reported as deleted is allowed for one lease at most, counted
  from its removal at ZITADEL; the report comes after that.
* `CreatedWorks`: nothing in the cache can speak against a PAT nobody has presented before, since
  keys are digests; a marker under a shared key would.
* `ServedAsCreator`: the one chain from the header of `CreatePAT` to the header of an allowance.
* `CutAfterGrace`, `StopBound`, `SpansKept`: a handler that still runs when the process exits had all of
  the ten seconds; the process takes no more than those, two shutdowns or not; and spans are lost only
  to a deadline that was used up or a collector that was away.
* `HitRepeatsMiss`, `HeadersAreClaims`: for every configuration, and also when it changes while entries live,
  a hit may answer exactly what a miss may, and a field with a name of its own carries its claim.
* `SentAsAsked`: a date that wraps around is refused by the comparison with the clock, because
  times and not seconds are compared; null is never sent.
* `OnlyPagesLetIn`, `PagesLetInServed`: the middleware stops no call, so an operation runs for a page of
  another origin only after an OPTIONS that let it in; and a page let in throughout gets through, with
  Connect (the headers of gRPC-Web are not on the list, so that pages using it are refused).

**Bounds.** Two requests per PAT are enough for every crossing of fills of one PAT: the properties
speak of one request and what it finds in the cache, and the entry it finds has one writer. TTL 1 with
budget 1 lets a slow fill outlive the entry it crosses; the bounds on grants and markers, and the lease,
are proved for every TTL and budget, so that the instance has to be no larger than what the liveness
properties need. `Horizon` is the least value the assumption allows, so that every bound can just be
missed. `AuthzOwners` has two requests with an admin PAT, so that two fills of one or of two PATs are under way at once, and one without,
for the refusal that has nothing to do with ZITADEL and for hits it takes from the entries of the others. Its budget of 0 lets
an operation last less than a tick: operations interleave as they do with a larger one, and no property of that run is about time. Two humans with
one taken name give the conflict branch both outcomes; three PATs with a page of 2 give a full and
an overfull page; one retry gives late, lost and doubled attempts (the code has two). Three calls
are beyond TLC's reach here in reasonable time.

In `SystemSafety` a budget of 0 makes a remote operation of `Authz`
last less than a tick, which keeps its interleavings and leaves the TTL as the only wait; a PAT is there before the
call that deletes it or comes of the call that creates it; two humans with two PATs are the least in which
identities can cross. `LifecycleSafety` needs two connections
for one that closes while another hangs, and a write timeout beyond the deadline, as in the shipped configuration. Words of 5 bits
hold dates before 1970, readable ones, ones past the last year that has four digits, and ones that wrap.

**Fairness.** `RequestsEnd` and `OutageHeals` assume that a goroutine whose operation can return is
scheduled, and that time passes: each operation ends because resty has a timeout, a retry count,
and go-redis has its own. Since `Tick` waits for no operation beyond its budget, that the
operations end is an assumption on these libraries, and what is checked is that the handler adds
no other wait. `CallsEnd` assumes that the timeout of an attempt fires; it says
that calls end, not how, and nothing of a machine user that was created for a PAT that was not, which is what `ConflictIsForeign` and
`ImplementsRegistry` are about. Neither ZITADEL nor a client
owes anything. `ServerEndsProcess` assumes that main and the serving goroutine are scheduled and that time
passes; no handler has to return and no collector to answer.

**Disagreements with the documents.** Each of these has a run that TLC finds violated:

| Run | The document says | The code does |
|---|---|---|
| `AuthzExchangeFailure` | README.md:353, 362: a failing exchange is cached | it is not (`service.go` 145); a failing userinfo call is |
| `PatDuplicate` | README.md:186, e2e/test-pat/README.md:76: one PAT per `CreatePAT` | a lost reply makes it two (`pkg/http/client.go` 32) |
| `ConfigVariables` | README.md:100: variables override all values | only those of keys a file has (`config.go` 88) |

Others are plain from the code, which the models follow: README.md:360 promises 200 without an Authorization
header (401, `handler.go` 46); README.md:363 a 500 on a Redis error (logged and ignored, `service.go` 86,
168); README.md:55 a list of all PATs (the first 100, `client.go` 490); README.md:208 shows the date of
`CreatePAT` as text (an int64, `req.proto` 10); `handler/pat.go` 147 expects an `ErrPATNotFound` that nothing
returns; README.md:33 a graceful end on signals (not before `signal.Notify`, `main.go` 39, which comes after the
server has started); and `config.go` 84 logs a second file as loaded that could not be.
The comments in `client.go` at 265 and 286, "nil machine user with nil error indicates not found", hold for an empty result, and
for a 404 only if ZITADEL sent it and for that reason.

## 4. Proofs

`AuthzProofs` proves, for any sets of requests, PATs and users and any time limits that satisfy
the assumptions in `Authz`:

| Theorem | States |
|---|---|
| `TypeCorrect` | `Spec => []TypeOK` |
| `Identity` | `Spec => []AllowNamesOwner` |
| `Safety` | `CacheTTL > 0` implies `Spec => []IInv` |
| `Freshness` | ... `Spec => []FreshGrant` |
| `RevocationTakesHold` | ... `Spec => RevocationLag` |
| `PoisonIsBounded` | ... `Spec => PoisonWindow` |

`Identity` has an invariant of its own, `OwnInv`: what ZITADEL said of a PAT, in the request that asked and under
the key of the PAT, is about its owner. It rests on `hashPAT` keeping PATs apart and on nothing about time, so that
it holds for a TTL of 0 as well.

None of the other properties is inductive by itself: an answer from the cache is as good as the
entry, and an entry as good as the request that wrote it. `IInv` says what is passed along that chain.
A request on its way to the write has `age + due` bounded by the budgets of the operations behind and
before it, and it is at least as old as the revocation of its PAT (`RequestInv`); an entry
has `age + ttl` bounded by `GrantLimit` (`EntryInv`); ages and countdowns move in
step, so the sums do not change with time, and each action hands a bounded sum on. Markers are bounded in the same way by
`calm`: one for a live PAT is owed to an outage. The proof has one lemma for each
way a request moves (`CallEffect`, `DenyEffect`, `AllowEffect`, ...), one for what an
action preserves of the requests (`RequestKept`, `StepKeeps`) and of the entries (`EntryKept`,
`WriteKeeps`), and `NextSafe` puts them together. The action properties follow from `IInv` and the
action (`AnswerLag`, `RefusalCalm`).

`AuthzLeaseProofs` proves `Implementation`: `CacheTTL > 0` implies `Spec => ImplementsLease`, that is, `Authz`
implements `Lease` under the mapping of section 2.3. It has one lemma per kind of step (`CheckMaps`, `DenyMaps`,
`AllowMaps`, `UnseenMaps`, `DisconnectMaps`, `CrashMaps`, `TickMaps`, `AroundMaps`), each of which says
which step of `Lease` is seen; the bounds on grants and refusals come from `AnswerLag` and `RefusalCalm`.

The hypothesis `CacheTTL > 0` is needed: with a TTL of 0 an entry stays for ever, as go-redis sets no expiry (`redis.go` 80).

`PatProofs` proves, for any sets of calls, humans and taken names, any finite set of PATs, any number of retries
and any page limit:

| Theorem | States |
|---|---|
| `TypeCorrect` | `Spec => []TypeOK` |
| `CreationIsOwn` | `Spec => []CreatedIsOwn` |
| `MintsAreBounded` | `Spec => []MintBound` |
| `ConflictsAreForeign` | `Spec => []ConflictIsForeign` |
| `DeletionHolds` | `Spec => []DeletedIsGone` |
| `DeletionIsOwn` | `Spec => OnlyOwnDeleted` |
| `ListsAreFaithful` | `Spec => ListIsFaithful` |
| `Implementation` | `Spec => ImplementsRegistry` |

The argument is about messages that outlive the attempt that sent them. A call passes through its phases in one
direction (`Leads`), and a message can only be of the phase its call is in or has left (`MsgInv`): so a late message of a call
acts for the user and the PAT the call had when it sent it, and no PAT is minted before the last phase (`PatInv`). A
search after a conflict is made only while the name is in use, by a machine user that no step takes away or by a foreign
one (`CallInv`), so that if it finds nobody in spite of that it was told so by a 404 (`misled`). A PAT that was owned is never minted again (`WorldMoves`), so a deleted one stays deleted; and its machine user
is there (`OwnedInv`), so a search that rightly finds nobody is for a human without PATs; the answer of any other is `misled`, and
a call is that only when it has ended. A step of a
call is one of two kinds, `Proceeds` or `Ends`, and so is what a reply makes of it (`Executed`): each action is shown to be of its
kind, and the kinds to keep the invariant (`ProceedingSafe`, `EndingSafe`, `Assembled`). `MintBound` needs a second invariant on top:
PATs minted and attempts that may still be executed are together no more than the attempts made (`AttemptInv`); an attempt
more needs one more allowance, a PAT more uses one attempt up (`Accounted`).

`Implementation` has one lemma per kind of step (`BeginMaps`, `MovingMaps`, `LeavingMaps`, `CreateUserMaps`, `AddTokenMaps`,
`RemoveTokenMaps`, `RefuseMaps`), each of which names the step of `Registry` that is seen, or none (a call that is misled takes
`Mislead`, or `Create` without the PAT). What `Registry` asks of a step comes from
the invariant: that a message belongs to a call that was not refused and acts for its caller (`MsgInv`, `MessageShown`), that a search that
finds nobody is for a human without PATs (`OwnedInv`), that nothing is answered before the end (`CallInv`); and the number of
PATs a call may create from `MintsAreBounded`, in the state after the step.

`LifecycleProofs` proves, for any set of connections and any time limits:

| Theorem | States |
|---|---|
| `TypeCorrect` | `Spec => []TypeOK` |
| `HandlersGetGrace` | `Spec => []CutAfterGrace` |
| `StopIsBounded` | `Spec => []StopBound` |
| `SpansAreKept` | `Spec => []SpansKept` |

Here the invariant is that the time since the stop and what is left of the deadline make up `Grace` (`ClockInv`); that the
listener is closed from then on, so that no connection comes (`ListenerInv`); that the server's shutdown returned for want
of connections or of time (`DrainInv`); and that spans end in a tracer only (`BootInv`).

`SystemProofs` proves, for any instance that satisfies the assumptions of both halves and any bounds on what clients do:

| Theorem | States |
|---|---|
| `TypeCorrect` | `Spec => []TypeOK` |
| `CreatorsAreServed` | `Spec => []ServedAsCreator` |
| `DeletionTakesHold` | `CacheTTL > 0` implies `Spec => DeletedStops` |
| `CreationTakesHold` | ... `Spec => CreatedWorks` |
| `ManagementUndisturbed` | `Spec => []` of `CreatedIsOwn`, `ConflictIsForeign`, `DeletedIsGone` of `PatService` |
| `AuthorizationUndisturbed` | `CacheTTL > 0` implies `AllowNamesOwner`, `FreshGrant`, `RevocationLag`, `PoisonWindow` of `Authz` |

Neither half is simply an instance of its own specification here: a PAT that ZITADEL lets expire dies under
`PatService`, which knows only `DeletePAT`, and a PAT that is minted starts to live under `Authz`, which knows only of PATs that die. So the
proof takes the lemmas about single steps from `AuthzProofs` and `PatProofs`, by instance, and adds what the foreign steps do: an
expiry keeps the invariant of PAT management, and a minted PAT keeps that of authorization.
The latter needs a fact neither half has (`KnownInv`): before a PAT is minted it was in no request and left no marker in the cache,
for otherwise a marker of the time before would stand against a new PAT. `OwnersInv` says that the two halves mean the same
human by the owner of a PAT; with `OwnInv` of the one and `PatInv` of the other it gives `ServedAsCreator`. For the two
properties about time the invariant of the halves at the time of the answer is enough.

`DecisionProofs` proves `HitRepeatsMiss` (`HitsRepeatMisses`) and `HeadersAreClaims` (`HeadersCarryClaims`) for any claims and any set of configurations of header
names. The invariant is that the entry was made of the claims; the rest is about what is left under a name when fields are written in any order: the
last one (`LastUnder`), and that is the field itself where it is alone.

`DatesProofs` proves `SentAsAsked` (`NoDateWraps`) and `DatesAsStored` (`DatesComeBack`) for words of every width and any era. What is sent was
compared with the clock before, and a date that wrapped around lies before the year 1, thus before the clock (`ExactUnlessExpired`): so a date that passes is the one
asked for, and its text is readable and names it. Powers of two are beyond the prover's arithmetic; half of the range of a word is a name of
its own (`Half`), of which the proof uses only that `Era` and `LastSecond` fit.

`CorsProofs` proves `OnlyPagesLetIn` (`OnlyThoseLetIn`) and `PagesLetInServed` (`ThoseLetInAreServed`) for any origins and lists. The
invariant (`CorsInv`) is that whatever the browser remembers or reads is an answer the middleware gave with a list the
service has had since the page was opened.

Only model-checked: the liveness properties `RequestsEnd`, `OutageHeals`, `CallsEnd` and `ServerEndsProcess` (fairness and
`ENABLED` are outside the prover), and `Config`. Every safety and action property of a run that passes is proved.

## 5. Not modelled

`Exchange` of the ZITADEL client (never called); logging, the names and attributes of spans, the
propagation headers; the protocol definitions beyond the dates; e-mail addresses and
display names; the trimming of the Authorization header, which handler and domain
service both do (a PAT is what is left of it); PAT IDs that are no IDs (`client.go` 564 puts the caller's into a path as it is: `Nameable` holds only
IDs of PATs and one of none); what a browser still remembers when a page is opened (`Cors` starts each page with nothing remembered, while
browsers keep the answers to OPTIONS for an origin across reloads, so the bound of `OnlyPagesLetIn` counts from the first page
that asked); load (concurrent misses for one PAT are not merged, `AuthzSafety`
runs two of them); the exit status of the process. PROJECT.json gives the reason for every component.

## 6. Plan

Done, in order of what matters to the system: `Authz` with its proofs; `PatService`; `Lease` and the proof that
`Authz` implements it; `System`; `Lifecycle`; `Decision`, `Dates`, `Cors`, `Config`; the proofs for all of them but
`Config`; `Registry` and the proof that `PatService` implements it.

Left:

1. `System` against one abstract specification made of `Lease` and `Registry`, so that a client sees atomic PAT calls and leased
   authorization at once; both parts are proved for their component.
2. `Config` has the run of its disagreement with README.md only. That each key has the value of its most specific source follows
   from the definitions of `Merged` and `Resolved` alone, and nothing is gained by stating it again.
