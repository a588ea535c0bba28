# A TLA+ model of go-away

go-away is an HTTP reverse proxy that asks clients to pass *challenges* before
it hands their requests to a backend. This directory holds TLA+ modules that
model its core, TLC configurations that check them on small instances, and
TLAPS proofs of the properties that matter most.

## 1. The system

| Part | State it keeps | Operations | What makes it correct |
|---|---|---|---|
| Request pipeline (`lib/http.go`, `lib/challenge/data.go`) | none between requests; per request a `RequestData`: token map, verdicts | `ServeHTTP` = `CreateRequestData`, `EvaluateChallenges`, then the mux | a request reaches the backend only with a proof of its own client that still counts |
| State cookie (`data.go`) | lives in the browser: one encrypted map of tokens for each network prefix | rewritten whole by every response that earned something; expired by `clear-state` | earning a proof loses none the request came with; an answer that passed nothing loses none |
| Registrations and keys (`register.go`, `key.go`) | fixed after the policy is loaded | `Expiration`, `GetChallengeKeyForRequest` | a key identifies challenge, network, headers and window |
| CHALLENGE / CHECK action (`lib/action/challenge.go`) | none | `Handle`: look for a valid challenge, then issue them in order | clients get through or are refused, not sent in circles |
| Verify handlers (`helper.go`) | none | `VerifyHandlerFunc`, `NewKeyVerifier` | only the key the proof was made for passes |
| Runtimes cookie, refresh, resource-load, http | none | `IssueChallenge`, their own routes | they earn what `Gate` counts |
| js runtime (`challenge/wasm/`) | one WebAssembly runtime and one error variable for each State | make-challenge, verify, `Close` | only a proof that solves its challenge passes, whoever else runs the module |
| dnsbl runtime (`challenge/dnsbl/`, `utils/dnsbl.go`) | a `DecayMap` of answers | `lookup`, a ticker | a verdict follows the blocklist within a known time |
| preload-link runtime and `Awaiter` | a concurrent map from key to callback | page request: hint, `Await`; fetch: `Solve` twice | every page gets an answer, callbacks neither leak nor run twice |
| `DecayMap` (`utils/decaymap.go`) | a map with expiry times under a lock | `Get`, `Set`, `Decay` | fresh entries stay, expired ones go |
| Loading and reloading (`cmd/go-away/main.go`, `lib/state.go`, `lib/settings/bind.go`) | the handler pointer, the key seed, the `State`s and their objects, the backends' ErrorHandler | first load, SIGHUP, `swap`, `Close` | new connections get a complete State that is never older; what is replaced is released |
| Network lists and disk cache (`lib/state.go`, `lib/policy/network.go`, `utils/radb.go`, `utils/cache.go`) | cache files, shared by States and processes; a list for each State | `network()`, `Get`, `FetchPrefixes`, `Set` | a list in use is one that was published, whole and not long out of date |
| Rule engine, all actions, response policy (`lib/rule.go`, `lib/action/`, `lib/http.go`, `response_policy.go`) | rules and handlers, fixed after loading; per request a `RequestData` | `NewRuleState`, `handleRequest`, `Evaluate`, a `Handle` for each action | rules are met in the order of the policy and no chain of them lets a refused request through; one answer, which carries what was earned |
| Policy files, CEL, templates, TLS fingerprints, utilities, metrics | none, or configuration | — | modelled in part or not at all, see section 7 |

Components meet in five places. The pipeline calls the rules, which call the
actions, which call the runtimes; what they earn travels through the browser's
cookie and comes back in another request, so concurrent requests of one browser
race *in the browser*. The dnsbl runtime and the page-tag cache share a
`DecayMap` between request goroutines and a ticker. The preload-link runtime
joins two requests of one client through an `Awaiter`. The reload goroutine
swaps the whole `State` under running requests and closes the old one. States,
old and new and of several processes, meet in the files of the network cache.

What is hard to test: the order in which responses of concurrent requests reach
the cookie jar; the window arithmetic of the rounded expiry; clients that change
address or headers between two requests; lost responses and clients that refuse
cookies; the two critical sections of `DecayMap.Get`; waits that replace each
other and deadlines that race with late results; reloads that fail half way or
hang; a State closed under the requests inside it; verifications that share an
error variable; cache files that are read, truncated and written by several at
once, with a crash in between; nested rules whose pass and fail actions are
challenges themselves. `PROJECT.json` lists each of these at its line.

## 2. The modules

```
Registration ── Gate ──────────────────── GateProofs          MCGate
TTLMap ┄┄┄┄┄┄┄ DecayMap ── Dnsbl ──────── DecayMapProofs      MCDnsbl
Awaiter ────── Preload ────────────────── PreloadProofs       MCPreload
        └───── AwaiterProofs ───────────┘
PolicyService ┄ Reload ── ReloadProofs ┐                      MCReload
                   └───── Service ──────── ServiceProofs      MCService
NetworkCache ──────────────────────────── NetworkCacheProofs  MCNetworkCache
RuleEngine ────────────────────────────── RuleEngineProofs    MCRuleEngine
```

A line is EXTENDS, a dotted one the abstract specification a module implements.

**Registration** holds the pure functions: `Expiration` (with Go's rounding,
half a period up), the request key, `VerifyChallengeToken`, `verifyChallenge`
and `verifyChallengeState`. A SHA-256 key is the record of the values that are
hashed, so two keys are equal exactly when those values are. A JWE cookie is the
record it decrypts to; it decrypts only for the network it was made for.
Signatures and encryption are assumed perfect. Time counts seconds, as the dates
in a token do. A random spot check is a nondeterministic choice. NotBefore is
left out: the token of a challenge has none, and that of the cookie is a day
before it is written (data.go:551), so neither ever refuses a token.

**Gate** is one host guarded by one CHALLENGE or CHECK rule, and a browser with
any number of connections. `pc[q]` says where the request of connection `q` is:

| Action | Code |
|---|---|
| `Navigate`, `Follow`, `PostClear` | the browser sends a page request, follows what a response gave it, or posts to clear-state, with the cookie its jar holds *now* |
| `EvaluateChallenges` | `ServeHTTP`, `CreateRequestData`, `EvaluateChallenges` |
| `HandleValid`, `HandleIssue` | the two loops of `Challenge.Handle`, with pass and fail action |
| `MakeChallenge` | make-challenge of the js runtime |
| `VerifyPass`, `VerifyReject` | `VerifyHandlerFunc` with the response function of the runtime |
| `ClearChallengeState` | the clear-state route |
| `Receive`, `Lose` | the response arrives, its Set-Cookie included, or is lost |
| `Tick` | a second passes |

A handler reads nothing that another request can change, so it is one step;
what interleaves is sending, evaluating, answering and receiving. `earned` is a
history variable: each key a challenge was really passed for, and when. The
properties compare what is admitted with it. `InitUpgraded` starts from a
browser that holds a proof an earlier release made with the legacy header list.

**DecayMap** splits `Get` where the lock is released: `GetRead` (read lock),
`GetCheck` (the clock, no lock), `GetDelete` (write lock). **TTLMap** is the
promise: a value stays until it is replaced or has expired.

**Dnsbl** composes `lookup` with the `DecayMap` it caches in: every step of a
request is a step of the map, or of the resolver. `Enter`, `Hit` and `Expired`
are the parts of `decayMap.Get`; `Ask` is the query, which the blocklist answers
or which fails, and the code does not tell the two apart (dnsbl.go:47); `Store`
keeps whatever came back. `Relist` changes the blocklist at any time. `changed`
and `failed` are history variables for the property.

**Awaiter** has one step for each operation of the concurrent map and for each
line of the callback; the deferred `Del` runs after the result was loaded and
deletes whatever is under the key. **Preload** drives it as preload-link does:
the hint is sent before the callback is stored, and the fetch solves under its
own request's key and, when it failed, under the token it brought, which may be
any. A page whose link cannot be made fails at once (`IssueError`). `expired`
remembers whose deadline passed, `told` what the callback of a page was given.

**Reload** models the goroutine of `main` (read, build, swap, close, wait), the
channel that holds one signal and is only there after the first swap (`Notify`;
until then a SIGHUP ends the process), the seed slice that `NewState` clears, main's
`handler` and `oldHandler`, and the pointer the connections load. A policy file
can be good, unparsable, or rejected by `NewState` after the key was made; and
`NewState` may not return, when a condition names a network whose list server
says nothing (conditions.go:159 preloads it, and the client has no timeout).
**PolicyService** is what reloading promises the operator.

**Service** extends `Reload` with what is inside the States. `objects` are the
ticker of the tag cache and the Objects of the js and dnsbl challenges; `Close`
is the steps `CloseChannel`, `CloseObject`, `CloseFails` and `CloseReturns`. A
request loads the pointer once (`Enter`) and keeps that State. The js runtime is
taken apart where requests meet: `Instantiate` is refused while the State has
another instance of the same name or once it is closed, `EndRun` is the end of
the call, `Assign` writes the error variable all verifications share and
`Decide` reads it again. `Install` is the ErrorHandler a backend gets from the
first `NewState`, and `Backend` a request that meets it. `Edit`, `Sighup` and the
loading steps are those of `Reload`.

**NetworkCache** is the function behind a network's `sync.OnceValue`, in any
number of States. `Get` is `Stat`, `Read` and `Compare`, in the code's order;
`Set` is `SetCreate`, which empties the file, `SetWrite`, which brings all of the
bytes or part of them, goes on from there or gives up, and `SetTouch`. A file is
the sequence of a list's prefixes and the closing bracket; a write goes to its
own offset whatever others have done to the file (`Written`), and what was never
written is a `Hole`. `Unmarshal` gives no prefix for anything but one whole
array. An answer may be cut: RADb's scanner takes a closed connection for the
end, and a body without a length ends where it ends. A publication may have no
prefix that matches: that is a list like another, cached and used. `Crash` ends the process of
a State at any step, `Renew` is a reload, `Publish` a new list. `superseded`,
`torn` and `short` are history variables.

**RuleEngine** loads a policy (`NewRuleState`, which refuses unknown actions,
codes of 0 and challenges nobody registered) and takes one request through it.
`stack` holds the loops over rules that are running; the handlers are actions of
their own:

| Action | Code |
|---|---|
| `HandleRequest` | the start of `handleRequest`: verdicts from the cookie, the backend of the host |
| `EvaluateMiss`, `EvaluateHit`, `EvaluateError`, `EvaluateReturn` | `RuleState.Evaluate`: the condition misses, holds or fails; the children are through |
| `DefaultPass` | the end of `handleRequest` |
| `None`, `Context`, `Pass`, `Proxy`, `ProxyError`, `Deny`, `Block`, `Code`, `Drop` | `Handle` of these actions |
| `ChallengeValid`, `ChallengeNoneValid`, `ChallengeSkip`, `ChallengeIssue`, `ChallengeDefault` | `Challenge.Handle`: its first loop, each round of its second, the default action |
| `BackendInforms`, `BackendAnswers`, `BackendFails` | the backend sends a 1xx, its response, or cannot be reached |
| `WritePage` | the end of `ChallengePage` and `ErrorPage`, after the backend's tags if an option asks for them |

A CHALLENGE hands over to its pass or fail handler, which may be a CHALLENGE
again. `header` is what `ResponseHeaders` put into the header map: done() does so
before the backend is asked, and `httputil.ReverseProxy` copies a 1xx response
into the same map, sends it and clears the map, so the state cookie and Vary are
gone from the final response; an error page sets them again. `Committed` is what
`responsePolicyWriter` makes of a final response: private or not, with or without
the broad Vary and the state cookie. Sealing the cookie does not fail: the key and
the algorithms are fixed, so the error branch of data.go:424 is unreachable.
`ToldOf` is what a backend sees of the two sets of X-Away headers; a transparent
one does not get the second. A condition may have any value. Where `Gate` follows
one rule over many requests, with keys and expiry, `RuleEngine` follows one
request over many rules and takes the verdicts of `EvaluateChallenges` as given.

## 3. The runs

| Run | Instance | Checks |
|---|---|---|
| `gate_concurrent` | 2 connections, dnsbl + refresh, clear-state, 1 lost response, 1 second | `TypeOK`, `BackendNeedsFreshProof`, `EarningKeepsProofs`, `ProofNotOverwritten` |
| `gate_windows` | js + refresh, duration 2 over 4 seconds (three windows), two header values and IPv6, legacy proofs, spot checks | `BackendNeedsFreshProof` |
| `gate_progress` | http, resource-load, refresh, cookie; patient browser, 2 lost responses, 2 seconds | `ForwardedStatePrintable`, `ReachesBackend` |
| `dnsbl` | 2 requests for one address, decay 1, timeout 1, clock to 5 | `DnsblTypeOK`, `NoFreshLoss`, `ImplementsTTLMap`, `ExpiredEntryLeaves`, `VerdictsFollowList` |
| `preload` | 2 page requests, 2 fetches, an IPv4 and an IPv6 key | `AwaiterTypeOK`, `NoLeakedCallback`, `CallbackOwnedOnce`, `PassNeedsFetch`, `FailHasCause`, `FetchEndsWait`, `EveryPageReturns` |
| `reload` | 4 versions, 4 loads, 4 signals, passthrough | `TypeOK`, `PointerOpen`, `ImplementsPolicyService`, `ReloadApplied` |
| `service` | 2 requests, 3 versions, 2 loads, 2 signals, passthrough | `ServiceTypeOK`, `LeakOnlyAfterFailure`, `ServedObjectsOpen`, `VerdictIsOwn`, `ErrorPageComplete` |
| `networks` | 2 States, a url entry, lists of 2, 1 and no prefixes, a file that expires after 1, Sets of up to 1, clock to 4 | `TypeOK`, `ListsWhole`, `FreshEnough` |
| `rules` | two rules and a nested one, each with any of 15 handlers (three cannot be loaded); an http, a cookie, a page and a preload-link challenge; 3 hosts, one without backend, one with a transparent one | `TypeOK`, `AnsweredOnce`, `BackendNotRefused`, `IssuedOnce`, `EarnedIsSent`, `CookieNotShared`, `RulesInOrder`, `ToldWhoDecided`, `RequestEnds` |

What the properties say is stated above each definition. Four are easily read
for more than they say. `EarningKeepsProofs` and `ProofNotOverwritten` do not
speak of two requests in flight that both pass a challenge: each answer replaces
the whole cookie, so the later one drops what the earlier one earned.
`EarnedIsSent` names two ways to lose a proof, DROP and a backend's 1xx.
`AnsweredOnce` counts the 403 of a DROP as its answer. `RequestEnds` does not say
that a request is answered: it may wait for another server for good.

Three runs are expected to fail: each checks what the repository says of itself,
and TLC shows how the code departs from it.

| Run | Statement | What TLC shows |
|---|---|---|
| `gate_loop_two` | data.go:306 "must skip to prevent loops" | with two blocking challenges a browser without cookies alternates between them; the fail action is never reached |
| `gate_condition` | register.go:137 "must return true for this challenge to be allowed to be executed" | the condition is not looked at while the request has no token for the challenge |
| `reload_seed` | main.go:97 "Seed for the jwt private key" | `NewState` clears the shared seed; after SIGHUP the key comes from 32 zero bytes |

Four more places where the code departs from what it says are steps of the
models, without a run of their own:

- The writer that `ServeHTTP` hands out has `Unwrap` but no `Hijack`
  (http.go:416), so DROP always answers 403 (`Drop` of `RuleEngine`), where
  policy/rule.go:19 says "without sending a reply" and drop.go:25 "drop without
  sending data".
- When a list cannot be fetched, state.go:178 returns the expired cached prefixes
  with the error (state.go:177 "use cached meanwhile"), and the caller drops both
  (state.go:194-203): `FetchFail` leaves the entry empty.
- A transparent backend ("prevents GoAway headers from being set",
  settings/backend.go:34) still gets the three X-Away headers rule.go:108-110 sets
  on the request, unless the request passed by default: `ToldOf`.
- A backend that sends a 1xx before its response takes the state cookie and Vary
  with it (`BackendInforms`): the proof a request earned is then not in the final
  response. `EarnedIsSent` names the exception; `CookieNotShared` still holds,
  because both go together.

Other observations from the models:

- The script of the js runtime returns to the page address without
  `__goaway_challenge` (script.mjs:52), so the skip of data.go:306 never applies
  to it, and a browser that refuses cookies repeats its work even when it is the
  only challenge.
- A fetch over IPv6 of an IPv4 preload link verifies as OK but is only solved
  under the IPv6 key, so the page waits for its deadline; `FetchEndsWait` states
  this exception.
- The rounded expiry is part of the key (data.go:387), so a proof may be refused
  before its Duration is over; `BackendNeedsFreshProof` bounds the other side.
- A failed reload assigns nil to `handler` (main.go:321), and the next successful
  one does not close the State it replaces; `LeakOnlyAfterFailure` names this as
  one of three ways to leave something behind.
- The retry after Happy Eyeballs (helper.go:143; README.md:210 "the challenge
  will automatically be retried") repeats the verify URL without its arguments
  and is answered with an error page: the `retry` route of `VerifyReject`.
- A process that dies between `os.Create` and the end of the write leaves a file
  that is empty or broken and young: it counts as an empty list until it expires
  ("torn cache" in `ListsWhole`).
- A CODE with an http-code outside 100 to 999 is accepted when the policy is
  loaded, and net/http panics on it; the model's codes are those it can write.
- The preload for the deprecated `inNetwork` looks at its second argument, the
  address (conditions.go:137), so such a list is loaded by the first request.
- Two verifications that overlap in one State can fail each other, by the shared
  name (runner.go:116) and by the shared error variable (registration.go:110).
  Neither lets a wrong proof pass: `VerdictIsOwn`.
- A failed DNS query is stored like a clean answer (dnsbl.go:46-50) and may
  replace a listing another request has just stored; `VerdictsFollowList` bounds
  how long that counts.
- A passthrough request whose backend fails after the first `NewState` has begun
  meets an ErrorHandler that needs a `RequestData` it does not have;
  `ErrorPageComplete` states this exception.
- The backend-host option a CONTEXT sets is looked at but never used
  (http.go:315, data.go:200): the backend is that of the request's host.
- For a nested rule the backend gets the name and action of the outer rule and
  the hash of the nested one (http.go:330 replaces what rule.go:108 set), unless
  it is transparent.

### Bounds and why they are enough

`MaxTime` in the gate runs covers what each run is about: with a duration of 2,
the key's expiry moves at seconds 1 and 3, so four seconds hold proofs used in
their window, in the next one, and after two. Two connections are enough for
every race on the jar, where one response overwrites another. One lost response
is enough for a request to be repeated while its first answer is gone; the
progress run has two. Two goroutines make the stale deletion of `DecayMap`
possible; a third adds no new conflict on a key. A clock of 5 lets a
listing change, an answer expire, and the list settle after it. Two waiters and two solvers can
replace, delete and solve each other's callbacks under one key and under two.
Four loads hold a success, a failure, a success and one more to close what was
left; in `service` two loads hold a State that serves, one that replaces it and
the Close of the first, or one that fails, with two requests in either. In
`networks` a clock of 4 holds two Sets of the longest duration, one inside the
other, and the expiry of what they leave; entries share nothing, so one that is
cached is enough, and the proofs are for any. Two prefixes are enough for a write in
parts, a shorter second list for one that leaves the end of the first, and an
empty third one for a list that is not missing although it has no prefix. Two
levels of rules with a rule after them hold every way `next` can travel: into
children, out of them, and past them; `ask` fails over to `choose`, which names one of its challenges again. The runs have from 14 thousand
(`gate_progress`) to 3.6 million (`networks`) distinct states. `Symmetry`
permutes connections, requests or States in the runs without liveness that have
two. Every bound is a constant and the proofs hold for all of them.

Deadlock is checked except where the modelled work ends: `preload` (all requests
answered), `rules` (the request is answered), and the reload runs and `service`
(all signals sent, or the process ended).

### Fairness

- `PatientSpec`: net/http runs every handler to its end and delivers what is not
  lost, and the browser under discussion keeps going. The clock and losses are
  not fair: they may stop at any point, and are bounded. `ReachesBackend` thereby
  assumes that the server of the http check answers or refuses: the client the
  check uses has no timeout (state.go:69).
- `DnsblFairSpec`: the runtime's ticker keeps firing until its State is closed
  (dnsbl.go:102). The clock is not fair; an entry has to leave only once it has
  expired.
- `Preload!FairSpec`: a page request keeps running and its deadline passes
  (`context.WithTimeout`). Nothing is assumed of the fetches: they may never
  come, or stop half way with the callback in hand.
- `Reload!FairSpec`: the loading goroutine is scheduled. Signals and edits are
  not fair.
- `RuleEngine!FairSpec`: net/http runs the handler of a request to its end, but
  nothing is assumed of other servers. `WaitsForServer` names where one may keep
  a request: the http check, the backend, the tags of a page; and the networks
  preloaded with a policy. A step is fair only outside of these.

## 4. Mutations

Each property of a passing run is paired in `PROJECT.json` with a mutation of
the definition it guards, as a slip in that code would make it: the key of a
stored token not compared, the expiry left out of the key, rejected checks
stored, the map started anew, the second look before a deletion dropped, the
callback read but not taken or not there, cancelled before the result is
stored, children evaluated under a condition that is false, the signal channel
without room, a check that said
no taken for a yes, headers not set before a bare code, the old State closed
before the swap, an error of one verification kept for the next, a broken array
read up to its damage, the age of a cache file not looked at. TLC finds the
property violated under each.

## 5. What is proved

All proofs hold for every value of the constants that satisfies the named
assumptions of the modules: any rule, any runtimes and durations, any number of
connections, goroutines, waiters, keys and loads.

**Gate.** `BackendIsGuarded`: `Spec => []BackendNeedsFreshProof`. The property
alone is not inductive, because a token takes a long way from the response that
set it to the request that is admitted with it. The invariant `Inv` is `TypeOK`
together with `ProofsBacked` (tokens in the jar, in a request's cookie, in a
`RequestData` and in a Set-Cookie are all earned; each earned key carries the
expiry of the moment it was earned; a verdict of OK has a proof that still
counts) and `AllLinksOK` (links name their challenge and carry a key). Two
lemmas carry the arithmetic: `ExpirationBounds` places the rounded expiry
between half a duration and one and a half after the request, and `SameWindow`
concludes that two requests with the same expiry are less than one duration
apart. That is why comparing keys suffices although a token's own expiry may be
later. `VerdictType` shows that a verdict of OK compared keys, `RespondInv`
states once what a handler's answer has to preserve, and there is one lemma for
each action.

`ProofsKept`, `HeadersPrint` and `JarKept` (the theorems of `EarningKeepsProofs`,
`ForwardedStatePrintable` and `ProofNotOverwritten`) share a second invariant,
`Carried`, which follows one request from its evaluation to its answer: after
the evaluation nothing is marked for writing, every verdict of OK has its token
in the RequestData and a state that prints; in the answer that is still so, a
cookie is set only when a challenge was passed in this very request and with the
tokens of its RequestData, and it is expired only for a clear-state post. The
work is in `IssueCarries`: a challenge that the second loop of `Challenge.Handle`
marks OK is one that `IssueChallengeToken` stored a token for.

`ProofsHonoured` is the other direction of `BackendIsGuarded`, so that the gate
does not only turn the wrong requests away: an unexpired cookie with a token for
one of the request's keys admits it, and the token is kept. No run checks it; the
definition, `ProofHonoured`, is in `GateProofs`. It rests on `Whole`: a token in
the jar, in a request, in a RequestData or in an answer says that its challenge
was passed and expires together with the window its key is for, and a cookie is
kept and sent on the network it was encrypted for. Only then do the key's window
and `ExpirationBounds` show that a token with an accepted key is not past its own
expiry. The one exception is the spot check of the js runtime: when running the
module fails, a good token is dropped.

**DecayMap.** `FreshEntriesStay` rests on `StaleIsExpired`: a `Get` about to
delete has seen its copy expired, the clock does not go back, and the deletion
only happens when the entry has the same expiry. `Refinement` shows that the
module implements `TTLMap`, step by step.

**Dnsbl.** `DnsblUsesDecayMap` shows that every behaviour of `Dnsbl` is one of
`DecayMap`, so both results carry over (`DnsblRefines`). `VerdictsProved` needs an
invariant that dates answers: whatever the map, a `Get` or a request about to
store holds agrees with the list, unless the list changed or a lookup failed
after the answer was asked for; what waits to be stored is at most a timeout
old, and what is stored expires a decay later.

**Awaiter, Preload.** `CallbacksDoNotLeak` and `CallbacksRunOnce` are proved for
`AwaiterSpec` from the inductive invariant of both together with
`CallbackPlaced`; the corollary `PreloadUsesAwaiter`, that the runtime only takes
steps of `AwaiterSpec`, carries both over. `PassesAreFetched` needs an
invariant that follows a result of OK from the verifier through the solver, the
callback's variable and the return value to the page. `FailuresHaveCauses` (of
`FailHasCause`) is the other side: a wait that was cancelled has the result of a
fetch in its variable, or its deadline has passed. `FetchesEndWaits` (of
`FetchEndsWait`) needs `WaitsEnd`, which says at every step of the verify handler
which of its Solves has already ended the wait: the first one when the token is
its own key, the second one otherwise. Other handlers and timers may only help,
because a page stores its callback once and, out of the map, stays out
(`GoneStays`).

**Reload.** `ServedStateOpen` and `ReloadRefines`, the refinement of
`PolicyService`, rest on `LoaderInv`, which relates `handler`, `oldHandler`,
`pointer` and the State being loaded: the old handler is never the one just put
in place, and versions only grow.

**Service.** `ServiceUsesReload` shows that every behaviour of `Service` is one of
`Reload`, so the refinement holds of the composed system (`ServiceRefines`).
`LeaksProved` and `ServedObjectsProved` share an invariant (`MainAll`) of main's
variables, of how far `Close` is, and of the objects: the State about to be
swapped in has all of its objects, a State inside `Close` is `oldHandler` and no
longer served, and a State that was not begun has none.
`VerdictsAreOwn` adds an invariant about requests: a
verification that runs alone in an open State ends in its own outcome, and while
it is between `Assign` and `Decide` nobody else has written the error variable.
`ErrorPagesComplete` follows from the ErrorHandler's State being built once
any State serves: a first load that fails ends the process.

**NetworkCache.** `FreshProved` rests on `Ages`: no file is dated in the future
(`FileDated`); a Set is at most `SetTime` old and its list was current when it
began (`SetTimely`); what a file holds was current two Sets before its date, or
one Set before the answer of a Set that has it open (`FileUpto`); the date `Get`
took is not later than that of the contents it reads (`ReadDated`). The bound has
two `SetTime`s because one Set may date what another wrote. `ListsWholeProved`
rests on `Wholes`: as long as no answer was cut and no write in
parts met other bytes, every file is laid out by one publication (`FileWhole`)
and every Set writes one (`SetWhole`); while no Set was cut short or overlapped
either, a file has one writer, which finds it empty, or is complete
(`OneWriter`); so `Get` finds one publication, or none in a torn file
(`GetWhole`). Publications may have any size, 0 too.

**RuleEngine.** For any policy, however deep its rules and its chains of pass and
fail actions: `OneAnswer`, `RefusalsHold`, `ChallengedOnce`, `ProofsAreSent` and
`CookieStaysPrivate`. Their common invariant adds five parts. `HitsAdmit` says that
every rule left behind admits the request and that the one being handled does,
too, or has not decided, or is about to refuse; it needs that a verdict of OK is
never taken back, which the skip of challenges that are OK ensures.
`IssuedMarked` ties the count of issues to VerifyStatePass, and `BackendKnown`
remembers that a host without backend never got to the rules, so that `done` has
no reason to answer for a PROXY. `HeaderKept` says that the cookie is never in the
header map without Vary, and is there while a backend works unless an
informational response was sent; `HandedLast` that nothing earns a proof, and no
rule is hit, after the request was handed over.

`DeciderTold` (of `ToldWhoDecided`) uses two more: `Nested`, the loops on the stack
are those of the rules that contain each other, and the second one belongs to
the outer rule; and `ToldAtEnd`. `PolicyOrder` (of `RulesInOrder`) needs to know of
every rule that was hit that the loop over its list, if it still runs, is past
it. These two need `TreeAssumption`, that no rule has two parents: `policy.Rule`
holds its rules by value, so a policy cannot say otherwise.

## 6. Only model-checked

Liveness (`ReachesBackend`, `ExpiredEntryLeaves`, `EveryPageReturns`,
`ReloadApplied`, `RequestEnds`) is out of the proof system's reach. Every invariant,
every action property and every refinement that a passing run checks has a
theorem.

## 7. Not modelled

- Cryptography, HTML, header clean-up, logging and metrics: no effect on the
  properties, or assumed correct.
- The page tags copied from a backend (tagfetcher.go): that a page may wait for
  them is in `RuleEngine`, and the cache they are kept in is `DecayMap`; parsing
  HTML is not modelled.
- The http runtime with an http-cookie parameter.
- The host name of a DNS query, jq queries and regular expressions over a list,
  and the RADb protocol: a list is a publication or the beginning of one.
- A cache file is read in one piece in `NetworkCache`; a read that a writer
  overtakes sees a mixture that `Unmarshal` may refuse where the model sees one
  of its two ends. The calls of one `Set` are assumed to take at most `SetTime`
  together.
- A shared error value in the js runtime is read whole; Go does not promise
  that of an interface two goroutines use without a lock.
- Headers a CONTEXT sets and paths a PROXY rewrites: data no property looks at.
- Flags, listeners, TLS and ACME set-up, the debug and metrics servers.
- Policy parsing, the CEL language, TLS fingerprints, the query and hex codecs,
  the proof of work itself: sequential functions on text, without state.

## 8. Plan

The order follows the importance of the behaviour. Done: `Registration`, `Gate`,
`DecayMap`, `Awaiter`, `Preload`, `Reload`, `RuleEngine`, `Dnsbl`, `Service`,
`NetworkCache`, the abstract `TTLMap` and `PolicyService`, and their proofs.

1. `Gate` and `RuleEngine` related: the one rule of `Gate` as an instance of the
   steps of `RuleEngine`.
2. The http runtime with its cookie in `Gate`.
3. Pure operators against reference definitions: raw query codec, policy snippet
   merge, difficulty of the proof of work.
