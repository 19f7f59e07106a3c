# A TLA+ development of httpx

`httpx` is a Go library of HTTP client mechanisms. Its centre is one retry loop
behind three doors (`Do`, `GetBytes`, `RetryRoundTripper`), and around it the
rules that decide whether an error or a response is worth another attempt, a
conditional GET, redirect policies, bounded body reads and error redaction. This
directory models that logic in TLA+, checks it with TLC on small instances and
proves almost all of its safety with TLAPS for every value of the constants.

## 1. The system

| Component | Code | State | Operations | What makes it correct |
|---|---|---|---|---|
| Retry schedule | `loop.go` `schedule.run`, `httpx.go` `SleepCtx`, `SafeDouble`, `JitteredBackoff` | attempt index, backoff, wait, timer, start time | run an attempt, resolve a wait, check the ceiling, sleep, stop | never more than the budget; exhaustion reported after the last attempt only; waits in range; no sleep or retry past the ceiling; every call returns |
| Options | `loop.go` options, `normalize`; `roundtripper.go` `TransportConfig` | a config record | apply an option, normalize | whatever is passed, the loop gets at least one attempt, a positive base and positive ceilings; two exclusive modes are refused |
| Error rules | `httpx.go` marks, `IsTransient`, `LogSafeError`; `cause.go` `CauseOf`; `loop.go` `classify` | none: functions of an error tree | mark, wrap, join, judge, name, reduce, redact | permanence beats transience; the caller's own context is never retried; a reduced error hides its URL and keeps its verdict |
| `Do` | `loop.go` | captured error, the attempt's derived context | run the function, mark a timeout, judge, wait | what settles a call is not retried; cancellation wins; the mark only for the attempt's own bound |
| `GetBytes` | `loop.go` `getAttempt`, `httpx.go` `ReadLimitedBody` | captured body, error, hint; the open response | request, read a bounded body, exhaust | whole body or error; the hint is the last attempt's; no raw URL leaves; no body left open; as a function of `Do` it returns once its context ends, and the two loops agree on what to retry |
| `RetryRoundTripper` | `roundtripper.go` | captured response and error, open bodies, the request's body | build, prepare, send, check, pause, drain | each response body closed once or handed out; response xor error; nothing unsafe sent twice |
| Status and Retry-After | `httpx.go` | none | parse, cap, classify a status | delta-seconds by value without overflow; the doors agree on a status |
| Conditional GET | `conditional.go` | request headers; the caller's validators | send, take a 304, take a 200 | a 304 vouches for the copy the caller has, all of it |
| Redirect policies | `httpx.go` | the chain of requests | judge a hop | hop cap, origin, scheme and method rules hold of whole chains |
| Body helpers | `httpx.go` `Drain`, `DrainClose`, `ReadLimitedBody`, `LimitedBody` | remaining bytes | drain, read to a cap, limit, close | bounded reads; a stream that ends in bounds is read to its end; always closed |
| Redaction | `httpx.go` `RedactTransportError`, `RedactSecret`, `redactURL` | none | reduce an error, rewrite text | no secret in text; the verdict survives when no secret was found |
| TLS, `certtest`, logging | `tls.go`, `certtest/` | none | assemble a transport, make certificates, log | (not modelled) |

How they interact. A door builds a `schedule` from its configuration and passes
it two closures, an attempt and a pause; `schedule.run` calls them in turn and
sleeps between them. A loop may run inside a loop: `docs/retries.md` and
`docs/timeouts.md` run `GetBytes` as the function of a `Do`. All doors share the caller's `context.Context`, which other
goroutines end at any moment. The attempt closures call out: to the caller's
function (`Do`), to an `http.Client` (`GetBytes`), to a base `RoundTripper` and
three hooks (`RetryRoundTripper`). They judge what comes back with the error and
status rules. A redirect policy is a callback of `http.Client`. `DoConditional`
is one call of a client, between a server whose resource changes and a caller
that stores the validators it got.

What is hard here is time and order, not data: a timer and a cancellation that
are ready together; two contexts, one derived from the other, read one after the
other; results captured by a closure and overwritten by the next attempt; a
response whose body must be closed on each of eight ways out; an integer that
saturates; a chain of hops each of which is allowed; two loops that judge two
forms of one error. `PROJECT.json` lists these
hazards at their lines, with the properties that cover them.

## 2. The modules

| Module | Models | Variables and actions, and the code behind them |
|---|---|---|
| `Durations` | the arithmetic of `time.Duration` | `SafeDouble`, `JitteredBackoff` and `resolveWait` over a signed integer of width `MaxDur`; a random wait is the set of its possible values |
| `BoundedRetry` | the abstract promise of a call | `made`, `phase`; conclude, fail, retry, give up |
| `Schedule` | `schedule.run` and `SleepCtx` | `n`, `backoff`, `wait` are run's locals, `pc` is where it stands, `timer` and `elapsed` are the clock, `ctx` the caller's context; one action per branch of the loop, of `SleepCtx`'s select, and of the environment |
| `Errors` | the error rules | pure operators over an error's tree, written in the order `errors.Is` and `errors.As` walk it; a `join` layer says how many layers its first branch has |
| `ErrorChains` | the life of an error | `err`; make, mark, wrap, join, name, reduce, redact |
| `Responses` | status and Retry-After | `code`, `header`; the header's digits arrive one at a time |
| `Verdicts`, `MCVerdicts` | an exchange up to its verdict | EXTENDS `Responses` and `ErrorChains`: a failure or a checked response becomes the error that then travels up |
| `Do`, `MCDo` | door 1 | EXTENDS `Schedule`; `rlMode` and `attemptTimeout` are the call's options, `step`, `err`, `attemptTimer` its closure: the three reads of clocks and contexts are a step each |
| `GetBytes`, `MCGetBytes` | door 2 | EXTENDS `Schedule`; `maxBodyBytes`, `step`, `body`, `err`, `retryAfter`, `open`, `served` |
| `NestedGet`, `MCNestedGet` | doors 1 and 2 composed | EXTENDS `GetBytes`, whose `ctx` is the context its caller gives it; the loop around it is the instance `Outer` of `Do` over variables of its own (`oPc`, `oErr`, `attemptTimer`, ...), with what `GetBytes` may return as its `FnErrors`; `def`, `defTimer` are `ContextWithDefaultTimeout`'s |
| `RoundTripper`, `MCRoundTripper` | door 3 | EXTENDS `Schedule`; `rt` (the configuration), `req`, `step`, `resp`, `err`, `respBody` (one per attempt), `tryBody` |
| `Config`, `MCConfig` | options and normalization | `cfg`; one action per option; `normalize` and `transportSchedule` of the result |
| `Bodies` | the body helpers | one body at a time: `stream` (its size, and how it ends), `reader`, `limit`, `room`, `got`, `end`, `open`, `reqCtx`; one byte per step |
| `Conditional`, `MCConditional` | conditional GET | EXTENDS `Bodies`; `resource`, `cache`, `headers`, `maxBodyBytes`, `response`, `status`, `call`; the door drains or reads with the helpers' actions |
| `Redirects`, `MCRedirects` | redirect policies | `policy`, `orig`, `last`, `hops`, `result`; `check` is the policy's decision on one hop |
| `ScheduleProofs`, `RoundTripperProofs`, `DoProofs`, `GetBytesProofs` | proofs about the loop and its doors | section 5; `GetBytesProofs` EXTENDS `NestedGet`, so it has the nest too |
| `OperatorProofs`, `VerdictProofs` | proofs about the error rules and about verdicts | section 5; `OperatorProofs` is lemmas alone, which the proofs of the loop, of its doors and of verdicts cite |
| `OptionProofs`, `ConditionalProofs` | proofs about `Redirects` and `Config`, and about `Bodies` and `Conditional` | section 5 |

The three doors are not copies of the loop. Each EXTENDS `Schedule`, uses its
actions as conjuncts of its own (`AttemptFails(wait)` is what a closure that
returns "not done" makes `run` do) and adds the closure's state. Time and the
caller's context are one for both.

A call's options (`rlMode`, `attemptTimeout`, `rt`, `maxBodyBytes`) are variables
no action changes: one run then covers every combination of them. Variables
named in a module as `history` (`endedAt`, `hint`, `startedDead`, `modes`, `whole`,
`deadBegun`) are
not in the code; they record what a property has to compare with.

An operator commented as `Mutant` is a plausible mistake in the definition that
follows it. No specification uses one. `PROJECT.json` pairs each property with a
mutant that TLC finds the property to reject.

## 3. The runs

Times and sizes are small integers. `MaxDur` is the largest duration, so 15 is a
five-bit signed integer; saturation, rounding to zero and the overflow guards
depend on the width only through comparisons with `MaxDur`, and the runs reach
all of them. `Lag` is how many ticks late a due timer may be served; at one, a
timer and a cancellation can be ready at once, which is the race that matters,
and `TLAPS` covers every other value of it for the schedule. Three attempts give
a first, a middle and a last one.

| Run | Instance | What it shows |
|---|---|---|
| `schedule` | 6 attempts, base 1 (its half is zero), ceiling 11, waits 0, 1, 4, widest duration 15 | the loop's invariant, the backoff to its saturation, the elapsed ceiling, and that the loop implements `BoundedRetry`, liveness included |
| `do` | 3 attempts, base 1, with no attempt bound and one of 2, rate-limit ceiling 3, ten errors with hints none, below and past it, all three rate-limit modes | `Do`: what settles a call is not retried, cancellation wins, the mark's race, bounded waits, and that calls return |
| `round_trip` | 3 attempts, base 2, ceiling 5, six kinds of request, four configurations | `RoundTrip` under the default policy and under a `CheckRetry` that may answer anything or fail: response ownership, one response open, response xor error, no unsafe repeat |
| `get_bytes` | `GetBytes` with 2 attempts inside a `Do` with 2; bodies of 0 to 3 bytes against a cap of 2, and to 7 against a cap as wide as the integer; attempt bound none or 2, default timeout none or 1, caller with and without a deadline, function that marks an exhausted status or not | `GetBytes`: whole body or error, no raw URL, no body left open. The nest: the loops agree on what is worth a retry (`LoopsAgree`), the last response's hint is what the outer loop waits (`HintHonored`), at most one request begun for a caller that is gone (`OneDeadRequest`), a live caller is told of no deadline but the default's (`LiveCallerNoDeadline`), and it implements `Do` with its fairness (`NestImplementsDo`) |
| `verdicts` | 15 status codes, headers of up to 4 digits against an 8-bit integer, all trees of up to 5 layers over 12 kinds of root and 4 wrappers, with marks and joins | the status, Retry-After and error rules, the reduction and the redaction |
| `config` | up to 4 options, arguments below, at and above each threshold | the constants the other modules assume |
| `conditional` | two versions of a resource; streams of 0, 2, 3 and 4 bytes, each with its end on its own read, with its last byte, broken or stalled; drain limit 2, caps 2 and 4 of a 4-wide integer | conditional GET with its bodies: a 304 vouches for a whole copy, reads stay in bounds and reach the end they can reach, every body is closed |
| `redirects` | 11 policies, 4 origins, 78 targets, chains up to 5 hops | redirect policies |
| `do_permanent`, `do_mark_race`, `rt_rewind`, `get_bytes_body_read` | the smallest that shows it | one disagreement each between the code and what it or its documents say (section 6) |

`CHECK_DEADLOCK FALSE` is in the two runs whose system stops: `config` (all
options applied) and `redirects` (the request is answered or refused).

Bounds in the models themselves: `Horizon` holds `elapsed` at the first value
past which the ceiling decides the same; `MaxLayers`, `MaxDigits`, `MaxOptions`
and `MaxVersion` bound error trees, headers, option lists and changes of the
resource. Two versions of a resource tell the caller's copy from what a response
vouches for, each with or without its validators; the sizes are one below, at and
one and two past the limits. Two attempts in each of two nested loops give an
inner retry, an inner exhaustion and an outer retry; five layers hold a mark and
a wrapper around a `*url.Error` over a net error over its cause, or over a join
of two. In `Do` and `GetBytes` a
canceled context and an expired one are read the same way and are one value.

## 4. Fairness

- The loop's goroutine is scheduled: weak fairness of the code's own steps.
- Time passes: weak fairness of the tick. A due timer stops the clock after `Lag`
  ticks, so that a sleep cannot be outrun for ever.
- The caller's function, the client and the base transport honor the context they
  are given: weak fairness of their return *only while that context has ended*.
  While it is live they owe nothing, so `EndedCtxReturns` and, for `Do` with an
  attempt bound, `BoundedCallReturns` are what can be promised. In `Schedule`
  alone, where an attempt is a single step, an attempt returns.
- A response body may stall. A drain between two attempts of `RoundTrip` ends
  only with the stream or the request's context: `MaxElapsedTime` is checked after
  it and does not interrupt it, so no fairness is assumed of a drain under a live
  context. In `Bodies`, bytes the far end does send arrive, and a read sees an
  ended context.
- `Do` assumes that its function honors its context. For `GetBytes` that is not
  assumed but shown: `NestImplementsDo` has fairness of the client and the bodies
  alone on its left, and `Do`'s specification, fairness included, on its right.
- Nothing is assumed of the caller: it may never end its context.

## 5. What is proved

Every safety invariant the passing runs check, and every action property that is
not a liveness property, is a theorem for every value of the constants under the
modules' assumptions, and for a few a hypothesis named below. The assumptions are
named in the modules, TLC evaluates each, and `Config` shows the code to establish
the ones on a call's budget.

- `Schedule`. `ScheduleInv` is inductive (`InductiveInvariant`). The type
  invariant is not inductive by itself: that `n` stays within the budget needs
  that a wait is only for a retry the budget still has. The wait is positive once the
  backoff is above one nanosecond, and the backoff never falls below the base, so with
  a base above one nanosecond no wait is empty. From it: types, the range of every wait, no sleep past the ceiling, no retry begun past the ceiling
  plus the lag, and that the loop implements `BoundedRetry` (safety).
  `BackoffDoubles`: the backoff before attempt n is the base doubled n times and
  saturated. `Exponential` is a recursive function; that it satisfies its own
  equation is `GeometricRecursion` of `OperatorProofs`. `LoopCannotGoRound` is the
  half of termination that needs no fairness: every move of the loop uses one of at
  most three per attempt of the budget and nothing gives one back, so `run` can fail
  to return only by waiting for an attempt, a pause or a timer.
- `RoundTripper`. Each step of the door is a step of the schedule or leaves it
  alone, so the schedule's theorems hold of the transport (`RTRunsSchedule`), the
  bounded-retry promise among them (`RTKeepsPromise`). `RTInv` is the types and
  `Ownership`, which says when a response is the door's to close: from the base's
  answer to the end of the pause, and after the call. With it: every response
  body closed but the returned one, none open while an attempt is built or sent,
  response xor error, nothing sent twice that may not be, and no retry for a caller
  whose context has ended, but for the one a sleep let through.
- `Do`. The same argument: `DoRunsSchedule` and `DoKeepsPromise` reduce the door
  to the schedule; `DoInv` relates the closure's step, its captured error and the
  resolved wait to where the loop is. From it: the settled errors are never
  retried, a rate limit's wait is positive and within the ceiling, no retry for a
  caller that is gone, a cancellation is returned as one
  (`DoCallerSeesCancellation`). `DoMarkOverruled` needs one more invariant,
  `MarkInv`: a wrongly marked error about to be judged means that the caller's
  context has ended, which the closure is about to read. It assumes that the
  caller's function marks nothing itself.
- The error rules. An error is a sequence of layers of any length, so the lemmas of
  `OperatorProofs` say what each operator makes of an error in terms of the error
  below its outermost layer (`IsOnTop`, `FirstOnTop`, `PrefixKeepsTransience`,
  `TimeoutUnrolled`, `ReductionUnrolled`, ...), and for the reduction that eight
  peelings leave no `*url.Error` or the placeholder. Timeout and the reduction are
  recursive functions over a finite range; `RecursionSolvable`, by a least
  counterexample, shows that such a definition has a solution and so obeys its
  equation. `VerdictProofs` puts them together over an exchange: the decimal value
  of a Retry-After of any length, the doors' agreement on every status, and the
  reduction and the marks on errors of any depth. The reduction keeps what the first
  `*url.Error` wraps and drops what is around and beside it; a part of a tree reads
  the same alone as in the whole (`EndInPart`, `TimeoutInPart`), so a transient
  verdict is lost only with a dropped layer that decided it (`ReducedStaysRetryable`,
  whose `Decisive` names those kinds: TLC finds the statement false without one
  that an error of the run can hold there). `MarksAreTransparent` takes a
  mark out of the middle of a tree with joins, so it rests on what the operators make
  of an arbitrary part of an error: the tree without that layer keeps every other
  layer, in order, over what it wrapped before (`LayerKept`, `EndWithout`), so only
  a layer directly above the mark can read differently (`KindsWithout`,
  `TimeoutWithout`, `IsResetWithout`), and the first recognised cause is the same
  (`CauseInOrder`). It is false of arbitrary trees: an `io.EOF` with a mark below it
  would be a hang-up only once the mark is gone. `EOFIsLeaf`, that nothing is ever
  wrapped in an `io.EOF`, is inductive in `Verdicts` because `io.EOF` is a value and
  not one of the `Wrappers` (`ErrorChainsAssumption`).
- `GetBytes`. `GBInv` had to be strengthened before it was inductive, each part of
  it by what the next step needs: a captured error is one an attempt can have and is
  not nil while a retry is pending, the retry's hint is the last response's, an
  exhausted call failed last with a retryable status or a transient failure of the
  client, and the context's own error is captured only once the context has ended.
  From it: whole body or error (`GBBodyWhole`), no raw URL in what is returned
  (`GBErrorsHoldNoURL`, without a hypothesis) and a cause worth the retries in it
  (`GBErrorSafe`).
- `NestedGet`. `NestRunsDo` is the safety half of `NestImplementsDo`: each step
  of the nest is one of `Do` or leaves `Do`'s variables alone. `NestInv` joins
  `ScheduleInv` and `GBInv` with how the contexts hang together: `GetBytes` runs
  only while the outer loop is in its function, the caller's end is seen through
  every derived context, and an inner context that ended alone means a bound or
  the default expired. The theorems add one invariant each, since none follows from
  the others: `DeadInv` (a request begun under the ended context fails with an error
  neither loop retries) for `NestOneDeadRequest`; `JudgeInv` (the error the outer
  closure holds is the one `GetBytes` returned, or that one marked, and what it waits
  is that error's hint) for `NestHintHonored` and `NestLoopsAgree`; `MarkInv` (a
  deadline past its own bound is marked before it is judged) for
  `NestLiveCallerNoDeadline`.
- `Redirects` and `Config`. `ChainInv` is the types and the chain's promises, which
  are inductive together; `SuffixNamesDomain` is kept by every step on its own.
  `ConfigInv` says that the modes asked for are the one the configuration holds, or
  both once they conflicted.
- `Bodies` and `Conditional`. `BodyInv`: what was read and what may still be read
  add up to the helper's limit, and a body is closed only when its reads are over.
  `CopyInv`: the caller's copy is whole, its validators are its own version's, the
  request carries that copy's, and a 304 in hand answers for it. The copy is whole
  because a read without an error met the end or has as many bytes as any stream.

Some theorems have hypotheses beyond the modules' assumptions. The instances the
runs use satisfy all of them.

- `GBErrorSafe`, `NestKeepsGet` and, as part of `PlainFailures`, the theorems on the
  outer loop's verdicts: a failure below the client's `*url.Error` holds no second
  one. `http.Client.Do` wraps what its transport returned, and a transport returns
  a `net` error or one of `net/http`'s. With a second one between them the reduction
  may drop more than the wrap; `GBErrorsHoldNoURL` holds with any number of them.
- `PlainFailures` also says that no failure carries a Retry-After hint: only this
  package's exhausted errors do. A transport that runs its own `GetBytes` is excluded.
- `OwnDeadlines`: no failure of the client or a body is itself read as the caller's
  context error. A resolver's own timeout is (`isCallerContextError` cannot tell
  whose it was), and a live caller may then be told of a deadline; the comment at
  that function says so, and `NestLiveCallerNoDeadline` excludes it.
- `DomainSuffixes`, for `RedirectsIntoNamedDomains`: no label of a suffix but the
  last is empty. `normalizeSuffixes` drops a suffix of a dot alone, and no domain
  name ends in two.

Only model-checked: liveness (`KeepsPromise` and `NestImplementsDo` in their fair
halves, `EndedCtxReturns`, `BoundedCallReturns`, `BodyReleased`), since the prover
has no rules for fairness here. The safety half of each refinement is proved
(`ImplementsPromise`, `NestRunsDo`).

## 6. Where the code and its documents disagree

1. `do_permanent`: under a rate-limit option `Do` retries a rate-limit error its
   function marked `Permanent`, which is documented as never retried regardless of
   other policies.
2. `do_mark_race`: `markAttemptTimeout` reads two contexts one after the other; a
   caller's context that ends in between makes the caller's deadline look like the
   attempt's own. Without `WithRateLimitOnly` the closure's next read hides it:
   `MarkOverruled`, checked by `do` and proved.
3. `rt_rewind`: `PrepareRetry` fails after `GetBody` opened a body; nobody closes it.
4. `get_bytes_body_read`: a connection cut while the body is read is transient but
   not retried by `GetBytes`.

More was met while modelling and has no run of its own:

- A transport whose last attempt failed returns that error, where
  `docs/retries.md` says only a `MaxElapsedTime` stop returns one.
- `docs/responses.md` says `CauseOf` sees through the marks. It does, but for a
  mark directly below a `*url.Error` or a net error: those ask the layer directly
  below them whether it is a timeout, and a hang-up is recognised directly below a
  `*url.Error` only. `MarksHideNoCause` says exactly that.
- The two loops of a nest may judge one failure differently, in three cases which
  `LoopsAgree` names: a body that could not be read (item 4 above, which the outer
  loop does retry), a timeout below a wrapper that a `*url.Error` hides from the inner
  verdict and the reduction uncovers, and the end of the outer attempt's bound,
  which is the inner loop's own context.

## 7. What is not modelled

Text: messages, the format of dates, log lines, and the rewriting half of
redaction (`RedactSecretString`, `redactURL`), whose correctness is about strings
and not about states; what redaction does to an error's tree is in `Errors`. TLS
and `certtest`, which assemble values once and have no later step. Logging, which
decides nothing. A server that answers 304 to an unconditional request. Hand-built
redirect chains with no first request. net/http's connection pool: `Bodies` stops
at the end of stream that lets a connection be reused. `GetBytes` over a client
whose transport is a `RetryRoundTripper`: a third loop around the same clock, past
what TLC explores in minutes; `GetBytes` sees such a client only through the
errors and responses it already takes as inputs. Concurrent calls on one
`RetryRoundTripper`: all its state is in locals, so calls share only what the
caller's hooks share.

## 8. Plan

Done, in this order: `Durations`, `Schedule` and its promise, `RoundTripper`,
`Errors`, `Do`, `GetBytes`, `Config`, `Responses`, `ErrorChains` and their
composition `Verdicts`, `Conditional`, `Redirects`; proofs of `Schedule`,
`RoundTripper`, `Do`; then `NestedGet`, `Bodies` under `Conditional`, and error
trees with joins and redaction; proofs of the error rules and verdicts, `GetBytes`,
`NestedGet`, `Redirects`, `Config`, `Bodies` and `Conditional`.

Then the marks on any part of an error tree (`MarksAreTransparent`) and the ranking
of the loop's moves (`LoopCannotGoRound`).

Left: whichever hypothesis of section 5 can be weakened, first of all that of
`GBErrorSafe`; and the fairness halves, should the prover come to support them.
