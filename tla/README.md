# Verification of plugfy.framework.contracts

TLA+ models of the parts of this repository that have state and concurrency:
the `resilience` primitives, the `idempotency` store and the replay protocol
over it, the `errs` model and the `ids` generator. TLC
checks them on small instances, TLAPS proves their main safety properties for
every value of the constants. Source references are to the repository's files
under `src/`.

## 1. The system

The repository is the L1 contracts module of the Plugfy platform: interfaces,
data types and a few reference implementations that import only the standard
library. The implementations carry the program's logic.

| Part | State | Operations | Uses |
|---|---|---|---|
| `resilience.Breaker` | `state`, `failures`, `successes`, `openedAt`, under `mu` | `Allow`, `Record`, `State`, `Do` | clock, `fn` |
| `resilience.RetryPolicy` | locals of one `Do`: index, delay | `Do`, `applyJitter`, `sleepCtx` | timer, context, `fn` |
| `resilience.Bulkhead` | a buffered channel `sem` | `Do` | context, `fn` |
| `resilience.Guard` | none of its own | `Do` = bulkhead(retry(breaker(fn))), each optional | the three above |
| `idempotency.MemStore` | `entries` under an RWMutex, `stop`, the sweeper goroutine and its ticker | `Get`, `Set`, `Delete`, `Close`, `Len` | clock |
| `idempotency.Store` | interface: a cache keyed by an opaque string | `Get`, `Set`, `Delete`; a request is Get, then handler and Set on a miss | implemented by `MemStore` |
| `errs` | an error value and its unwrap chain | `New`, `Wrap`, `Classify`, `IsClass`, `WithDetail(s)`, `HTTPStatus` | `errors.As` |
| `ids` | a 16-byte buffer per call, filled under `mu` | `New`, `encode`, `Prefixed` | wall clock, `crypto/rand` |
| `events` | none | `New` | |
| `spi/core` | `DefaultUnit.handlers`; `UnitError` in an error chain | `Method`, `Invoke`, `ErrMethodNotFound`, `ErrorClass` | meets `errs` in one chain |
| `spi` | interfaces, no-op default | | |
| `abi`, `scripts` | test and build tooling | | |

**What is hard here.**

* `Breaker.Do` calls `fn` with no lock held: an outcome may be recorded in a
  state the call was not admitted in, and calls in flight at a trip go on to
  report failures to an open breaker. `Do` has no `defer`, so a panic records
  nothing.
* `Bulkhead.Do` races a slot against the end of a context, and `fn` may panic
  with the slot held.
* `RetryPolicy.Do` computes delays in `int64` and through `float64`, and its
  sleep races a timer against the context.
* `Guard.Do` holds a slot across the whole retry loop, and feeds every attempt
  to a breaker shared with other callers, whose `ErrOpen` comes back to the loop.
* `MemStore.Get` looks at an entry, drops the lock, looks at the clock and
  deletes by key; the sweeper reads the clock before it has the lock; `Close`
  tests and closes a channel in two steps.
* A request overlaps others with its key: between its `Get` and its `Set` the
  clock, the sweeper and another request's `Get` and `Set` all run.
* `errs.Wrap` returns a pointer type that its callers convert to an interface,
  and drops what was wrapped around an `*Error`, a `UnitError` included.
* `ids.encode` is 26 lines of masks and shifts that no type checks, over a buffer
  that `New` fills from two sources whose ranges meet at byte 6.

**What makes each part correct.**

* *Breaker*: opens after, and only after, `failureThreshold` consecutive
  failures (or one in half-open); closes only after `successThreshold`
  consecutive successes in half-open; an open window ends; it recovers.
* *Bulkhead*: never more than `max` calls; no slot lost; nobody left waiting.
* *RetryPolicy*: the right number of attempts, the right result, a real and
  capped backoff, termination.
* *Guard*: uses each layer as it is meant to be used, leaves it as often as it
  enters it, and always returns.
* *MemStore*: what it returns was stored and unexpired; what is live stays;
  what has expired goes; the sweeper stops.
* *Store*: a request within the TTL of a recorded response is answered with it.
* *errs*: one classification, the first one; the cause survives; each detail has
  the value given last; the retry class changes only where it is known to.
* *ids*: identifiers sort by their millisecond and hold all 128 bits.

`PROJECT.json` lists every component, the hazards at their lines, and the
source lines of every definition.

## 2. Modules

| Module | Models | Extends / instantiates |
|---|---|---|
| `Breaker` | `Breaker`, called by `Callers` | |
| `Bulkhead` | `Bulkhead`, called by `Callers` | |
| `Retry`, `MCRetry` | one `RetryPolicy.Do`; the policies for TLC | |
| `Guard` | `Guard.Do` | instances of `Breaker` and `Bulkhead` |
| `Store` | the interface: an abstract cache with concurrent users | |
| `MemStore` | `MemStore`, its clients and sweeper | `Store`, under a refinement mapping |
| `Replay` | requests with idempotency keys, Get-then-Set | extends `MemStore` |
| `Errs` | one error value on its way up, `UnitError` included | |
| `Ulid`, `MCUlid` | `ids.New` and `encode`; instants and entropies for TLC | |
| `BreakerProofs`, `BulkheadProofs`, `RetryProofs`, `GuardProofs`, `MemStoreProofs`, `ErrsProofs`, `UlidProofs` | theorems | the module of that name |
| `ReplayProofs` | theorems | `Replay` and `MemStoreProofs` |

Each operator keeps the name of the Go function or field it models. The
operators named `Mut...` next to a definition are plausible wrong versions of
it; no specification uses them. Each property is known to fail for the one
listed with it under `mutants` in `PROJECT.json`.

**Breaker.** `state`, `failures` and `successes` are the fields. `openFor` is
`now() - openedAt`, saturated at `resetTimeout`, because the code asks only
whether that has been reached; this makes the model finite with no bound on
time. `call[c]` says where goroutine `c` is in `Do`: `Allow` is one step,
`fn` returns (`FnReturns`) or panics (`FnPanics`) in another, `Record` is a
third. `healthy` is the dependency. `failRun`, `okRun`, `trials` and `restarts`
are history that only properties read: consecutive recorded failures, successes
recorded in this half-open period, trial calls running, restarts of the window.

**Bulkhead.** `sem` counts the values in the channel, `slot[c]` is the caller's
place in `Do`. The Go runtime queues blocked senders in order and hands a freed
place to the first; `ahead[c]`, the waiters before `c`, is that queue. A caller
whose context ends while it waits leaves the queue (`Cancel`). When the slot and
the context are ready together either case of the select may be taken.

**Retry.** One call of `Do`. `policy` is the receiver; `Multiplier` counts
halves and `Jitter` quarters, so that floating-point results are exact
fractions truncated as the conversion truncates them. `Doubled` wraps in a word
whose largest value is `MaxInt`; `Scaled` may give the smallest or the largest
word when the float does not fit, because the Go specification leaves that to
the implementation (amd64 and arm64 differ). `float64(delay)` is taken as exact:
the rounding of delays above 2^53 ns (104 days) is left out. `applyJitter` is any value of the
documented band. The context is looked at in the sleep only, as in the code.

**Guard.** The actions conjoin an action of an instance (`Br!Allow(c)`,
`Bh!Acquire(c)`...) with the step of the retry loop it happens in. `conf`
is the set of layers that are not nil, plus `backoff` when `Base > 0`; it is
chosen in `Init` and every subset is explored. `Retry`'s arithmetic is left to
`Retry`: here a policy sleeps after each failed attempt that it retries or after
none; a `Multiplier` below 1 that brings the delay to 0 in the middle of a call
mixes the two in the code, and no property of `Guard` tells them apart. `Inside(c)` says that the caller has
begun an attempt and has not left `Do`, sleeping or not.

**Store.** What `iface.go` lets a user of the interface rely on. `cache[k]` is
the response a request may be answered with. `Set` overwrites, `Remove` is a
Delete or an expiry and may take any keys at any time, and a `Get` returns what
its key held at some moment between call and return: `offered[c]` collects what
was there. `got[c]` is the result, `None` for `(nil, false)`.

**MemStore.** One step per critical section. `GetRead`, `GetCheck` and `GetEvict`
are the three parts of `Get`, `Return` the caller's taking of the result;
`CloseSelect` and `CloseChannel` are the two parts of `Close`; `SweepTick` takes
the tick and reads the clock, `purgeExpired` works under the lock with that
clock. A `Delete` of an absent key and `Len` change nothing.
*Refinement mapping to `Store`*: `cache` is the unexpired entries, so the passing
of time is a `Remove`; `phase` is `getting` from `GetRead` to the end of `GetCheck`
or `GetEvict`; `offered` is the history variable `seen`. `GetRead` of a missing
key is `GetAtOnce`; a `GetEvict` is a `GetReturn` that also removes. The sweeper,
the ticker and `Close` leave the cache alone.

**Replay.** The protocol of the package comment (`iface.go:6-9`) and of `Set`'s
(`iface.go:57-60`): a request calls `Get`; a hit is answered (`Replayed`), a miss
runs the handler (`Invoke`), whose response is recorded with `Set` (`Record`)
unless the request dies in it (`HandlerFails`). Only this order comes from
comments, because the middleware is in another repository; each call is
`MemStore`'s own action. `promise[k]` is the last recorded response and its
expiry, `owed[c]` what it was when `c`'s request came; `lost` are the keys whose
live entry a lazy eviction has taken since their last `Set`, `excused` the
requests that came to such a key. `Delete` and `Close` are not part of the
protocol. The operators that have a namesake in `MemStore` are called
`ReplayInit`, `ReplayNext`, `LookupCheck` and so on.

**Errs.** An error value is the sequence of its unwrap chain; `<<>>` is nil, and
a nil `*Error` in an `error` is a node of its own kind. Layers wrap with
`fmt.Errorf("%w")`, `return errs.Wrap(...)`, put the error under a
`core.UnitError`, or attach details to the `*Error` that `errors.As` finds. The
bottom is nil, a foreign error, `errs.New`, or what `DefaultUnit.Invoke` returns
for an unknown method. `Details` is a Go map: `NilMap`, or a function from the
keys to values, with `NoValue` for an absent key; `Made` is the nil test and
`make`, `Assigned` the loop that adds or overwrites. `attached` is what the layers
gave, key by key. `ErrorClass` is the method; `RetryClassOf`, the outermost
`UnitError` of a chain, is the engine's lookup and external. `unitClass`,
`belowClass` and `dropped` remember the class given last, the one given last
before the error held an `*Error`, and whether a `Wrap` has since returned that
`*Error`: such a `Wrap` takes the class back to the lower one, or to none, and
`RetryClassExact` says that nothing else does. `policy.go:39-41` promises of a
`UnitError` that the retry decision works "UNIFORMLY on the in-proc and the spawned
path"; neither it nor `Wrap`'s comment says what becomes of the class there. Codes
and messages are text and left out.

**Ulid.** `New` is three steps that callers interleave: read the clock and put
it in the buffer, fill the entropy, encode. The 48-bit time is its six bytes,
because the code only shifts it into place. `encode` uses one `Group` for each
five bytes, as the code's lines repeat every eight characters; the first byte has
two characters of its own; `digits` are the 26 indices into the alphabet. The
properties read the buffer as 128 bits (`Bit`, `Digit`) instead. The wall clock may step back between calls.
`rand.Read` has no error branch: in the Go version of `go.mod` it never returns
one.

## 3. Runs

Runs that pass:

| Run | Instance | Shows |
|---|---|---|
| `breaker` | 4 callers, thresholds 2 and 2, `resetTimeout` 2 (31,858 states) | opening and closing only for cause, in whatever state outcomes arrive; bounded extension of an open window by stragglers; the window ends; recovery |
| `bulkhead` | 4 callers, 2 slots (705) | bound, no lost slot, no cancelled waiter, no starvation |
| `retry` | 810 policies with the context live or done at the start, 7-bit word (64,071) | attempts and result, backoff, each delay but the first min(Max, Base·m^i), termination |
| `guard` | 2 callers, 1 slot, 2 attempts, `ErrOpen` retryable (114,572) | refinement of `Breaker!Spec` and `Bulkhead!Spec`, bound on the callers inside, results, layers left as often as entered, every call returns |
| `memstore` | 2 clients, 1 key, 2 responses, 5 instants (260,840) | refinement of `Store!Spec`, losses are deletes or the one race, expired entries go, the sweeper stops |
| `replay` | 2 clients, 1 key, 2 responses, 5 instants (173,528) | a replay is the response of the last Set before the request; a handler runs twice within the TTL only when an eviction took the live entry before the request |
| `errs` | chains up to 6, 4 classes, 2 retry classes, 2 detail keys with 2 values (64,904) | one classification, first class kept, cause preserved, each detail at its last value, which retry class is read |
| `ulid` | 2 callers, 13 instants, 10 entropies (75,076) | the characters are the 128 bits, identifiers sort by millisecond, no bit lost |

Runs that find what a comment says to be otherwise in the code:

| Run | Comment | Code |
|---|---|---|
| `breaker_trials` | "a limited number of trial calls allowed" | half-open admits every caller |
| `memstore_close` | "Safe to call multiple times" | two concurrent calls can close the channel twice, a panic |
| `replay_once` | requests "within the TTL receive the cached response verbatim, without re-invoking the handler" | `Get`'s eviction deletes by key and can take the entry a concurrent request just recorded; the next request runs the handler again |
| `errs_nil` | "safe for use as `return errs.Wrap(...)`" | in a function returning `error` the nil `*Error` is a non-nil error |

Three comments no run is about, because a passing property says what holds instead:

* "rejects calls for resetTimeout" (`resilience.go:40`): failures of calls in
  flight at the trip may start the window over. `OpenExtensionBounded` bounds how
  often, `OpenWindowEnds` says that it ends.
* "capped exponential backoff" (`resilience.go:137`): the first delay is `Base` and
  is not compared with `Max`. `BackoffHeld` and `DelayClosedForm` cap every other.
* `memstore.go:13` says that every operation removes a few expired entries; only
  `Get` does, for its own key. `ExpiredCollected` states what the sweeper
  guarantees.

**Bounds and why they suffice.**

* *Breaker*: with four callers and a failure threshold of two, two calls trip
  the breaker while two more are in flight, enough to trip it again during the
  open window. Thresholds of two separate "first" from "last". The proofs cover
  the other values.
* *Bulkhead*: two slots and four callers give a queue of two, so that a waiter
  may leave from its front or its back while a slot is handed over.
* *Retry*: in a 7-bit word some of the policies overflow within five attempts and
  others do not; caps lie below, above and beside the delays; jitter is none,
  partial and clamped.
* *Guard*: two callers and one slot give waiting; two attempts and a failure
  threshold of two let one call trip the breaker, or two callers together.
* *MemStore*: no operation relates two keys, so one key shows every interleaving
  on it. `MaxTime` 4 lets an entry with the default lifetime of 2 expire, be
  replaced and expire again. The clock stops at `MaxTime`, where clients and
  sweeper go on. Time 0 is the start, so `now` is a duration since it.
* *Replay*: the same store. The shortest way to a second run of the handler takes
  15 steps and one expiry; with five instants two lifetimes can pass.
* *Errs*: six nodes hold a cause, a classification and layers on either side.
  `fmt` layers add nothing new beyond that. Two keys tell a lost key from a kept
  one, two values a later from an earlier one. The error may stop anywhere on its
  way, so the run does not look for deadlock.
* *Ulid*: among the instants and among the entropies every bit of every byte is
  set in one value and clear in others; three instants lie close together, across
  a carry. Sorting and equality compare two identifiers, hence two callers.

**Fairness.** Weak fairness on the steps of a goroutine that is inside a call:
the Go scheduler runs it, timers and tickers fire, and `fn` is assumed to
return. No caller is obliged to call, and no context to end. `Recovery` takes
demand as a hypothesis (callers call `Allow` again and again), because
the code half-opens only when called. `SweepStop` has strong fairness:
`select` picks at random among ready cases, so the stop case cannot lose
for ever to a ticker that is ready each time. The hand-over of a slot to the
first waiter is the Go runtime's and makes `NoStarvation` true without strong
fairness. In `Guard`, the fairness of `Bulkhead` (a call that holds a
slot ends) is not assumed: it is shown, as part of `ImplementsBulkhead`, from
the fairness of the retry loop's steps.

## 4. Proofs

Each proof module shows `Init => Inv`, `Inv /\ [Next]_vars => Inv'` with one
step per action, and derives its theorems. `Inv` (in `Replay`, `ReplayInv`) is in
the module it is about.
The constants are arbitrary up to the named assumptions: caller sets are
finite, the arguments of constructors are integers (of any sign: the defaults
are part of the model), policies are records of the right type, `None` is not
an entry, `NoClass` is not a class, `NoValue` no value and `NilMap` no map, instants and entropies are bytes.

Every invariant and every safety property over steps that a passing run checks is
a theorem; of the refinements, that of `Store` is.

* **BreakerProofs**: `TypeCorrect`, `OpensInTime`, `ExtensionsBounded`,
  `TripsAreJustified`, `ClosesAreJustified`. None of these properties is
  inductive by itself. `Inv` adds what ties the fields to the history in each
  state: `failures` equals the run of failures while closed but not while open;
  `okRun` equals `successes` in half-open; `successes` is zero elsewhere. The
  bound on restarts is inductive in the form `restarts * failureThreshold +
  failures + calls in flight < callers`: while the breaker is open no call is
  admitted, and every recorded outcome uses up a call in flight. At the trip
  itself the recording caller has just left, which gives the strict inequality.
* **BulkheadProofs**: `TypeCorrect`, `AtMostMaxRun`, `NoSlotIsLost`,
  `CancelledCallersLeave`.
  `Inv` says that `sem` is the number of callers running `fn` and that callers
  wait only at a full channel. A hand-over exchanges one holder for another, so
  the number stays; the lemmas about cardinality come from that.
* **RetryProofs**: `TypeCorrect`, `ResultIsSound`, `BackoffIsHeld`,
  `BackoffIsExponential`. `Inv` says how index, calls and sleeps relate in each
  phase. `BackoffIsHeld` needs that the growth of the largest delay, `Base` or
  `Max`, stays within the word (`GrowthFits`) and that it does not shrink
  (`Multiplier # 1/2`); a lemma bounds `NextDelays` under these.
  `BackoffIsExponential` is `DelayClosedForm`, inductive on top of `Inv`: the loop
  caps after each multiplication, the closed form once at the end, and the two
  agree because a factor of at least one cannot bring a capped delay below the
  cap. It rests on `PowerValues`, which says what the recursive function in `Power`
  computes. That is proved by least counterexample, from the well-foundedness of
  `<` on the naturals: the approximations of the function exist up to every n
  (`StepsExist`) and agree where both are defined (`StepsAgree`).
* **GuardProofs**: `TypeCorrect`, `InsideIsBounded`, `ResultIsSound`,
  `LayersAreBalanced`, for every set of layers. `Inv` says that `sem`
  is the number of slots held and at most `max` (`SlotsCounted`), that where a
  caller is in each layer follows from where it is in `Guard.Do`, and that a nil
  layer is never touched (`LayersHeld`), and that a caller that enters has
  attempts left (`AttemptsLeft`). The callers inside are then a subset of the
  holders, which is the bound; with nobody in `Do` there is no holder, so the
  channel is empty. A panic and the hand-over of a slot to a waiter are the steps
  that could break it: the lemmas `SlotEffect` and `SlotKept` say what a release
  does to the caller that makes it and to the others.
* **MemStoreProofs**: `TypeCorrect`, `Refinement`, `LossesAreRaces`. `Inv`
  says of a Get in progress that its copy, if still unexpired, is among what it
  has seen live, and that a Get about to evict holds an expired copy. From the
  latter, an evicted live entry is not the copy; from `swNow <= now`, the
  sweeper takes no live entry. `Refinement` is `Spec => ImplementsStore`: the
  initial states map to initial states, and one lemma per action maps it to the
  step of `Store` named in section 2 or to a stutter; the conjunct about `seen`
  is what makes a hit one of the responses offered.
* **ReplayProofs**: `RerunsAreRaces`, `ReplaysAreVerbatim`, `ReplayRefinement`.
  Every step of the protocol is a step of `MemStore` or none, so its
  invariant and its refinement carry over. `ReplayInv` adds that the store holds
  the last `Set` or nothing, and does hold it while it is live and not lost
  (`StoreKeeps`), and that a lookup works with the entry that stood when it began
  (`LookupKeeps`). The second is why nothing that happens during a lookup can make
  a promised response be missed or mixed up: only an eviction before it can.
* **ErrsProofs**: `ClassifiedOnce`, `CauseIsPreserved`, `ClassIsKept`,
  `DetailsAreKept`, `RetryClassIsExact`, for chains of any length and any keys and
  values. `Inv` says that a value holds at most one `*Error`, that it holds one
  exactly when a class has been given, and that it then carries the first class
  and, in a map that is nil until the first write, the details (`OneMatch`,
  `Carried`); and that the chain from the `*Error` down, the part a `Wrap` returns,
  has the retry class given below it (`RetryHeld`), without which
  `RetryClassExact` is not inductive. `errors.As` takes the first match,
  `RetryClassOf` the first `UnitError`; lemmas say how these firsts move when a
  layer is put in front of a chain or a prefix is dropped, again from the
  well-foundedness of `<`.
* **UlidProofs**: `EncodingIsExact`, `IdsSort`, `NothingIsLost`, for all instants
  and entropies. `Inv` is small (the buffer begins with the instant, an identifier
  is the encoding of its buffer); the work is in `encode`. `GroupIsBits` compares
  the eight expressions with masks and shifts to the bits they should hold, one
  case each. `GroupInjective` solves them for the five bytes, so `encode` is
  injective. `TimeOrdered` takes the first byte of the time that differs and finds
  the first digit that does, one of two or three; `Alphabet` turns digits to
  characters, because Crockford's alphabet is in ASCII order.

**Only model-checked**: all liveness (`OpenWindowEnds`, `Recovery`,
`NoStarvation`, `Terminates`, `CallReturns`, `ExpiredCollected`, `SweeperStops`)
and `ImplementsBreaker` and `ImplementsBulkhead`, because TLAPS does not reason
about fairness and ENABLED here. The fairness is what these two refinements are
about: the guard's actions are conjunctions with the layers' own, so its steps are
theirs by definition (lemmas `BreakerStep` and `BulkheadStep`). The four violations of section 3
are counterexamples, which are TLC's to find.

## 5. Not modelled

* The text of `Error()`, codes, messages, `String()`: formatting.
* `RetryPolicy`'s injectable `sleep` and `rng`, the breaker's and the store's
  injectable `now`: tests only; the models have the defaults.
* The clock of breaker and store running backwards: Go's `time.Now` carries a
  monotonic reading. (`ids` uses the wall clock, which may.)
* What a caller does to the `*CachedResponse` that `Get` hands out: responses are
  opaque values. Details written into one `*Error` by two goroutines: the
  repository shares no such value, and the model follows one error through one
  goroutine.
* `DefaultUnit.Method` and an `Invoke` that finds its handler: a map write and a
  map read without a guard. When `Method` may be called is nowhere stated, so there
  is nothing to check it against. `Method` does not enforce the reserved `sys.`
  prefix that `descriptor.go:52-56` relies on.
* `descriptor.go`, `unit.go`, `doc.go`, `policy.go` but for `UnitError`,
  `spi/evaluator.go`, `spi/lifecycle.go`: data types and interfaces, with no-op
  defaults. The Runner and the pipeline engine that give them behaviour are in
  other repositories, so a model would say something of code that is not here.
* `events.New`: one marshalling call with one error return. `ids.Prefixed`: a
  prefix. `abi`, `scripts`: test and build tooling.
* The users of the contracts (HTTP middleware, Runner, pipeline engine): other
  repositories; `Replay` takes from them only the protocol the package states.

## 6. Plan

Built, in this order: `Breaker`, `Bulkhead`, `Retry`, `Guard`, `MemStore`, `Errs`
and their first proofs; then `Store` with the refinement and its proof, `Replay`,
`Ulid`, and `UnitError` in `Errs`; then the proofs about `Guard`, `Replay`, `Errs`,
`Ulid` and the closed form of the backoff. To come:

1. The properties of the layers seen through the guard: `TripJustified`,
   `CloseJustified` and `ConcurrencyBounded` of `Guard`'s instances, from
   the lemmas `BreakerStep` and `BulkheadStep`.
2. The safety that the liveness properties rest on, as theorems: the variants
   that decrease (stragglers of an open window, waiters ahead in the queue,
   attempts left), whose descent TLC now checks only as part of liveness.
