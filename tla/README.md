# A verification project for backend-in-c

TLA+ models of the parts of backend-in-c that keep state, TLC runs that check
them on small instances, and TLAPS proofs of the results that matter most for
every instance.

## The system

backend-in-c is a collection of backend components in C. Each is a library of
its own; the only component that calls another is the web server, which calls
the HTTP parser. Concurrency is POSIX threads: each component with shared state
has one mutex or readers-writer lock, except the web server, which has none.

| Component | State | Operations | What is hard |
|---|---|---|---|
| Message queue (`src/mqueue`) | linked list of messages, list of consumers, counters, one mutex and one condition variable; one thread per subscriber | publish, subscribe, unsubscribe, clear, reject, two setters, destroy | lost wakeups, `active` written outside the mutex, messages of other topics put back, freeing what threads still use |
| Database (`src/database`) | hash table, write-ahead log on disk, transactions with a private write set | create, open (recovery), put, delete, get, begin, commit, rollback, checkpoint, close, destroy | crashes between write, fsync and apply and during recovery; failed, short and torn writes, failing fsync; checkpoint without the lock |
| Cache (`src/cache`) | hash table and recency list over the same entries, times to live | put, get, delete, clear, eviction | hidden expired entries, duplicates of a key, eviction at the limit |
| Web server (`src/webserver`) | listening socket, running flag, handler and its data; one accepting thread, one detached thread per connection | set_handler, start, stop, destroy | no lock at all; blocked `accept()`, `recv()` and `send()`; reused descriptor numbers; use after free; SIGPIPE |
| HTTP parser (`src/http`) | a request and a response | parse, get and add header, set body, serialize | requests cut by `recv()`, malformed lines, empty lines in bodies, buffer sizes |
| Circuit breaker (`src/distributed`) | state, failure count, time of last failure | call, record success, record failure | results recorded late, by calls admitted in another state |
| Rate limiter (`src/distributed`) | per client a window and a count | allow, reset | the edges of windows |
| Service registry (`src/distributed`) | list of services, next id | register, deregister, heartbeat, discover | the id is drawn before the lock is taken |
| Retry policy (`src/distributed`) | loop counter and delay | retry_with_policy | first and last turn of the loop |
| Authentication tokens (`src/distributed`) | user, creation time, time to live | create, serialize, deserialize, validate | text round trip, 64-bit arithmetic |
| Metrics collector (`src/distributed`) | list of named values | counter, gauge, histogram, export | the export buffer |
| HTTP status table (`src/http_status`) | none | message, category, predicates | the boundaries of the categories, agreement with the header |
| Counter (`src/concurrency`) | one shared number | create, increment, decrement, add, get, set, destroy | no atomic instruction: calls overlap |
| TCP and UDP template (`src/tcp_udp`) | objects with a descriptor and flags | create, accept, bind, connect, send, receive, close, destroy | descriptors that are closed twice or never were the object's |
| Template libraries (`src/concurrency`, `cache_strategies`, `db_performance`, `network_serialization`, `latency_observability`) | none | several hundred functions that allocate, free, write a result or answer | who owns what they return; results written through unchecked pointers |

The other directories of `src/` hold functions that return constants (`auth`,
`crypto`, `security`) or files without code.

What makes each component correct, in short: the queue hands every message to
one handler and its threads end when told to; the database gives back what it
acknowledged; the cache's two structures agree and a lookup never sees an old
value; the server ends its threads before it frees what they use; the breaker
protects while it is tripped and does not stay tripped; ids, tokens, headers
and limits mean what they say.

## Modules

| Module | Models | Proofs | Checked by |
|---|---|---|---|
| `Delivery` | what `mqueue.c` promises: a message is accepted, then handled once or dropped | `MQueueProofs` | `MCMQueue` |
| `MQueue` | `mqueue.c`; implements `Delivery` | `MQueueProofs` | `MCMQueue` |
| `Database` | `database.c` | `DatabaseProofs` | `MCDatabase` |
| `Cache` | `cache.c` | `CacheProofs` | `MCLibraries` |
| `WebServer` | `webserver.c` | `WebProofs` | `MCServices` |
| `Http` | `http_parser.c`, and `handle_client`'s use of it | `WebProofs` | `MCServices` |
| `CircuitBreaker` | the breaker of `distributed.c` | `CircuitBreakerProofs` | `MCServices` |
| `RateLimiter`, `Registry`, `Retry`, `AuthToken`, `Metrics` | the other objects of `distributed.c` | `DistributedProofs` | `MCLibraries` |
| `Counter` | `atomic_counter_*` of `concurrency.c` | `LibrariesProofs` | `MCLibraries` |
| `Templates`, `TemplateTables` | the rest of `concurrency.c`, and `cache_strategies.c`, `db_performance.c`, `network_serialization.c`, `latency_observability.c` | `LibrariesProofs` (types) | `MCLibraries` (types) |
| `Sockets` | `tcp_udp.c` | `LibrariesProofs` | `MCLibraries` |
| `HttpStatus` | `http_status.c` and the enumerations of `http_status.h` | `LibrariesProofs` | `MCLibraries` |

`ListLemmas` holds what the proofs need about sequences: those without
repetitions, what removing or pushing an element leaves, the least and greatest
number of a set, and what a loop over a sequence computes (`UpTo`, `FoldExists`,
`SumSteps`).

`MCLibraries` and `MCServices` put objects that share no state into one run. A
behaviour chooses one object in its initial state and exercises that one, so
the state space is the sum, not the product, and nothing is lost: no step of
one object reads or writes another's variables.

### State and actions

*MQueue.* `queue` is the list from head to tail; `ordering` is chosen in the
initial state. A consumer thread is split at every access to `active`, which
`mqueue_unsubscribe` writes without the mutex: `LoopTest`, `Lock`, `WaitTest`,
`Wait` (`SpuriousWake`), `Take`, then `Handle` and `Count` for its own topic or
`Requeue` for another's. `lock` names the consumer inside its critical section;
critical sections that neither wait nor read `active` are single actions.
`mqueue_unsubscribe` is `Deactivate`, `Notify`, `JoinAndUnlink`;
`mqueue_subscribe` is `SubscribeCreate` and `SubscribeLink`, because the thread
runs before its consumer is in the list. The history variables `order`,
`deliveries`, `dropped` and `requeued` only serve the properties. The refinement
mapping to `Delivery` calls a message pending while it is in the list or in the
hands of a consumer thread, so `Take` and `Requeue` are stuttering steps,
`Publish`, `Handle`, `Clear` and `DestroyEnd` the abstract ones.

*Database.* A put or delete on an open database is `WriteLog`, `SyncLog`,
`Apply`, and `Crash` may come between any two steps. A record is whole or cut,
and dirty, stable, or failed when the fsync that should have made it stable did
not: a later fsync does not try those bytes again. `write()` and `fsync()` may
fail without the code noticing. A crash of the process leaves the log; one of the
machine may take the end of it that is not stable and tear any record in there
(`Remains`). `RecoverCutRecord` says what the replay loop makes of a cut record:
it may stop, or read the bytes behind it as the rest; cut inside its key, the key
may come out as any other, and a put then stores bytes nobody wrote (`Corrupt`)
under it and a delete removes what is there; the loop ends, or swallows records
behind it whole and goes on. `unlogged` (history) holds the keys whose last
acknowledged write the log may not hold or that a cut record has hit; `allowed`
(history) holds, per key, the last acknowledged value and the unacknowledged ones
that a crash interrupted. What is written on a handle that is not open is not
expected to last. `ftruncate` is taken to be durable when it succeeds.

*Cache.* A bucket is split into the chains of its keys. An entry's age stops
where no step of the clock can make it matter again, and is negative for an
entry from the future. `latest`, `recency`, `steps` and `shaken` are histories.

*The clock.* All components read `CLOCK_REALTIME` through `get_timestamp_ms` and
subtract unsigned. `Tick` lets a millisecond pass; `StepBack` sets the clock
back, as an administrator or NTP may, and a time in the future then looks very
old. The cache, the breaker, the limiter and the tokens all have it, and their
properties say what is left: which keys, which failures, which grants.

*WebServer.* Every read or write of a field of `webserver_t` is a step. The
kernel's side of the socket is external: `Connect`, `Reset`, `ReuseNumber`,
`AcceptForeign`. A thread that reads the server after it was freed gets any
value. The source reads `handler` twice, and the build may load it once or
twice, so `CallHandler` calls what either read gave; NULL may be registered, and
if the second load finds it the process dies. `BrokenPipe` is `send()` to a
client that has gone: SIGPIPE is neither caught nor suppressed. Both set
`killed`, after which nothing happens. `Mute` clients need neither send nor read.

*Http.* The client's text is the words of the request line and lines that are
empty or have a colon or not. The client means those before its first empty line
as headers and the rest, further empty lines included, as the body; the parser
looks for a line end followed by an empty line, behind the request line's own end
(`EndLines`), and so does not see the empty line of a request without headers.
`Receive` takes any beginning of the text. Lengths stand for the response's
strings.

*CircuitBreaker.* `circuit_breaker_call` is `Admit` or `Refuse`, `Return` and
`RecordSuccess` or `RecordFailure`; `Report` is the public use of the record
functions. The count stops at the threshold and the clock at one past the
timeout, beyond which the code tells nothing apart, so the state is finite
without a bound. -1 stands for every failure that lies in the future of a clock
that was set back; `clock` (history) says whether it was since the last failure.

*Registry.* `copy` is what `service_discover` gave its caller last, and stays
while services come and go.

*Metrics.* The list, and what the export makes of it: `PrintMetric` is one turn
of the loop, `snprintf` with what is left of the buffer and `offset` moved on by
what the whole text would need. Values are counted in units; a histogram
observation whose average is no whole number of units is left out.

*Counter.* Every `++`, `--` and `+=` is `Load`, `Store` and `Return`; numbers are
modulo a small `Modulus` so that they wrap.

*Templates.* The functions look into no object and keep no state, so each is a
row of a table: what it makes, frees, fills in (if the pointer is not NULL),
stores (without looking) or says. The actions are these effects. A behaviour
picks one family of functions that a program uses together. Only types are
checked: the stubs contain nothing that could break more.

*Sockets.* An object is its descriptor and its flags. `fd` says what each number
of the process names, `Adopt` is a caller that puts a descriptor of its own into
a connection, and `Open` somebody who is given a number that became free.

## Runs

| Run | Expected | What it shows |
|---|---|---|
| `mq_safety` | pass | FIFO and priority queue, 2 producers, 2 consumers, 2 topics, 2 priorities, 2 messages: every published message is in exactly one place (`ExactlyOnePlace`), no stop signal and no publish wakeup is lost (`StopNotLost`, `SleepersWereToldOfPublish`), no thread outlives what it uses (`NoUseAfterFree`), the statistics add up (`StatsAddUp`), and a message is overtaken, in the list or at the handlers, only once a consumer thread has taken it (`OvertakenOnlyOnceTaken`); the whole implements `Delivery` (`ImplementsDelivery`) |
| `mq_live` | pass | one topic: unsubscribe and destroy return (`JoiningCallsReturn`), published messages are handled (`EventuallyHandled`) |
| `mq_topic_live` | violation | two topics: putting a message back signals nobody, so a message can wait for ever for a consumer that sleeps (`EventuallyHandled`) |
| `db_log` | pass | puts, deletes, a transaction, 2 crashes, 2 faults (a failed, short or torn write or a failed fsync), 1 checkpoint or close: the log restores what it covers (`LogRestoresTable`), and every acknowledged write it covers is read back (`DurableIfLogged`) |
| `db_commit_lost` | violation | a committed transaction is gone after a crash (`DurableWrites`) |
| `db_isolation` | violation | a serializable transaction reads two values under one key (`RepeatableReads`) |
| `services` | pass | server with 2 connections, one of them of a client that may neither send nor read, 1 handler or none, 2 starts, 1 reuse of the number (`NothingAcceptedAfterStop`, `StopReturns`, `ConnectionsAreClosed`); a request of up to 4 lines, empty ones anywhere, cut anywhere (`AllHeadersOrNone`, `SentHeadersAreFound`, `SerializedWhole`); breaker with 3 callers and a clock that is set back (`ClosedBelowThreshold`, `HalfOpenMeansRested`, `NoCallWhileTripped`, `TripEnds`) |
| `web_shutdown` | violation | the server is freed under a connection thread (`ThreadsDoneBeforeFree`) |
| `handler_torn` | violation | a handler is called with data it was not registered with (`HandlerGetsItsData`) |
| `libraries` | pass | cache, LRU and LFU, 2 keys, 2 values, room for 3 entries, with and without expiry (`Coherent`, `LastPutWins`, `ListIsByRecency`); limiter over 7 ms with windows of 2 ms (`AtMostTwoWindowfuls`, `NoneRefusedBelowLimit`); registry with one thread and a copy given out (`CopyMeansItsService`); retry (`RetryContract`); token, written and read back (`ValidForTtl`); metrics exported into a buffer that they may fill or overfill (`ExportedOrOverrun`); the counter with 2 threads and 3 calls (`SomeCallsCount`); 3 socket objects and 2 descriptors (`NobodysDescriptorClosed`); every status code from -1 to 620 (`CategoriesAgree`); each of the 38 template families (types); the clock set back once |
| `counter_atomic` | violation | two overlapping increments count once (`EveryCallCounts`) |
| `reg_two_threads` | violation | two registering threads draw one id (`IdsNameOneService`) |

Every property of a passing run has a mutant in `PROJECT.json`: a plausible bug
in a modelled operation under which TLC finds the property violated.

### Bounds

*Queue:* the races are between one message's publisher, a thread that falls
asleep and one that unsubscribes, so two of each and two messages reach them;
the second message is needed for order. *Database:* two crashes reach a crash
during the recovery from a crash; a bad write followed by another record reaches
a cut record with one behind it, and the second fault a failed fsync or a second
cut record; logs of three records were checked too, with fewer crashes or
faults; put and delete already give a key two
different contents, so one value is enough, and two keys tell the keys apart.
*Cache:* with room for three, two expired entries of a key and a live one
coexist, a fourth insertion evicts, and the second key tells what concerns one
key from what concerns all; `MaxAccess` lets an entry be hit once, which is
enough to move it in the list and to tell its frequency from another's (the
proofs have no such bound). *Exchange:* four lines hold a header line, a line
without a colon, the empty line and a line of the body, and a body with an empty
line of its own behind one header or none; five were checked too. *Web server:* two connections are in
different stages while the server is stopped and started again. *Limiter:* seven
milliseconds are two whole windows and a part, and one step back lets the clock
run through a window again. *Metrics:* three names whose texts together exceed
the buffer reach the turn of the loop that starts beyond its end. *Templates:*
two clients and three addresses, so that a freed address comes back as
somebody else's object. *Counter:* two threads and three calls reach a lost
update next to one that counts, and 14 + 5 wraps. *Sockets:* two descriptors
tell a number that was reused from one that was not. *Token and retry:* small moduli stand
for 2^64, so that the wrap happens. Symmetry is used only in runs without
liveness.

### Fairness

Threads are scheduled; a thread that competes for a mutex that is free again
and again gets it (strong fairness); handlers and protected functions return;
time passes. Clients send something and read what they are sent, or hang up,
except those in `Mute`, of whom nothing is assumed: neither `recv()` nor `send()`
has a timeout, so their threads may never end, and `StopReturns` and the other
connections may not depend on them. Nothing is assumed of a process that has
died. Nobody has to publish,
subscribe, connect, start or stop, and the condition variable need not wake
spuriously. `accept()` need not return while the socket is good and nobody
connects. Liveness properties that depend on callers say so: `TripEnds` is about
a breaker for which failures are no longer recorded, `EventuallyHandled` about a
consumer that stays.

## Proofs

TLAPS proves these for every value of the constants that satisfies the named
assumptions. Each states a property that a run checks, except the two marked
(`CacheInvariant`, `CallsThatDoNotOverlapCount`).

| Theorem | Statement |
|---|---|
| `MQueueProofs!TypeCorrect` | `Spec => []TypeOK` |
| `MQueueProofs!StopIsNeverLost` | `Spec => []StopNotLost` |
| `MQueueProofs!NothingUsedAfterFree` | `Spec => []NoUseAfterFree` |
| `MQueueProofs!PublishWakesSleepers` | `Spec => []SleepersWereToldOfPublish` |
| `MQueueProofs!NoLossNoDuplicate` | `Spec => []ExactlyOnePlace` |
| `MQueueProofs!QueueImplementsDelivery` | `Spec => ImplementsDelivery` |
| `MQueueProofs!StatisticsAddUp` | `Spec => []StatsAddUp` |
| `MQueueProofs!MessagesKeepTheirOrder` | `Spec => OvertakenOnlyOnceTaken` |
| `DatabaseProofs!TypeCorrect` | `Spec => []TypeOK` |
| `DatabaseProofs!LogIsWrittenAhead` | `Spec => []LogRestoresTable` |
| `DatabaseProofs!LoggedWritesAreDurable` | `Spec => []DurableIfLogged` |
| `CacheProofs!CacheInvariant` | `Spec => []Inv` (the inductive invariant) |
| `CacheProofs!TableAndListAgree` | `Spec => []Coherent` |
| `CacheProofs!LookupsReturnLastPut` | `Spec => []LastPutWins` |
| `CacheProofs!LeastRecentIsAtTheTail` | `Spec => []ListIsByRecency` |
| `WebProofs!StoppedServerAcceptsNothing` | `Spec => NothingAcceptedAfterStop` |
| `WebProofs!HeadersAllOrNone` | `MCSpec => []AllHeadersOrNone` |
| `WebProofs!LookupsFindWhatWasSent` | `MCSpec => []SentHeadersAreFound` |
| `WebProofs!ResponsesAreWhole` | `MCSpec => []SerializedWhole` |
| `WebProofs!WebTypes` | `MCSpec => []ComponentsTypeOK` |
| `CircuitBreakerProofs!ClosedIffBelowThreshold` | `MCSpec => []ClosedBelowThreshold` |
| `CircuitBreakerProofs!HalfOpenIsRested` | `MCSpec => []HalfOpenMeansRested` |
| `CircuitBreakerProofs!TrippedBreakerProtects` | `MCSpec => NoCallWhileTripped` |
| `DistributedProofs!LessThanTwoWindowfuls` | `MCSpec => []AtMostTwoWindowfuls` |
| `DistributedProofs!ClientsBelowTheLimitPass` | `MCSpec => []NoneRefusedBelowLimit` |
| `DistributedProofs!CopiesMeanTheirService` | `OneAtATime`: `MCSpec => []CopyMeansItsService` |
| `DistributedProofs!RetriesAsPromised` | `MCSpec => []RetryContract` |
| `DistributedProofs!TokensLiveForTtl` | `MCSpec => []ValidForTtl` |
| `DistributedProofs!ExportsWhatFits` | `MCSpec => []ExportedOrOverrun` |
| `LibrariesProofs!OnlyOwnDescriptorsClosed` | `MCSpec => []NobodysDescriptorClosed` |
| `LibrariesProofs!StatusFunctionsAgree` | `MCSpec => []CategoriesAgree` |
| `LibrariesProofs!CallsThatDoNotOverlapCount` | `MCSpec => []SequentialCallsCount` (the first half of `SomeCallsCount`) |
| `LibrariesProofs!CallsAreLostOrCounted` | `MCSpec => []SomeCallsCount` |
| `LibrariesProofs!LibrariesTypeOK` | `MCSpec => []ComponentsTypeOK` |

The assumptions are on the constants: bounds, sizes, lengths and times are
naturals, widths and the export buffer are positive, `None` (in the code NULL, or nothing) is no message, value,
node, entry, service or type, the defaults are among the settings, the
breaker's threshold and the cache's size are positive (`hash % 0` otherwise),
descriptors that callers hand over are positive, arguments fit the width of
their type and the clock does not reach the end of `uint64_t`. The runs
evaluate all of them on their instances. Sets of threads, keys, connections,
messages and objects need not be finite, except the counter's threads.

`MCSpec` of a composed module is one object's specification per behaviour.
`DistributedStep`, and its like in `LibrariesProofs` and `WebProofs`, show once that a step
of the composition is a step of every object or leaves it alone; each object's
invariant is then proved of its own steps.

*Loops.* The export of the metrics, the parser's loop over the header lines, the
serializer's and the counter's sums are `FoldLeft` over a sequence, whose
definition in the community modules is a recursive function on sets of places.
`FoldExists` shows that there is such a function, and from it the sequence of the
loop's intermediate results is taken (`SumSteps`, `ExportSteps`, `FillSteps`):
the value before the first turn, after each, and after the last. What holds of
each of them is then an induction over the turns. The library's induction
theorems are not available to the provers here, but that every set of naturals
has a least element is, and `UpTo` is induction from it: a set that holds 0 and
with m - 1 also m holds all of 0 .. N.

*Message queue.* None of the properties is inductive alone. The invariant adds:
where the mutex holder can be, what each stage of subscribe and unsubscribe
says about the thread (`ControlInv`), that a consumer about to sleep holds the
mutex, so that neither a publish nor the broadcast of unsubscribe can come
between its test and its sleep (`SleepInv`), and that drafts have ids nobody has
published (`PlacesInv`). `StopNotLost` then follows because `Notify` needs the
mutex, and `ExactlyOnePlace` because each action moves a message from one place
to another. The refinement rests on `PlacesInv`: when every message is in one
place, the pending ones are the published that are neither delivered nor
dropped (`PendingIsTheRest`), and the histories alone say which abstract step
an action takes. `StatsAddUp` is an equation between cardinalities; beside it
the invariant only says that finitely many threads carry a message, which holds
however many consumers there may be, because each took its message in a step of
its own. `OvertakenOnlyOnceTaken` is about a step, and follows from what the list
and the threads' hands are like before it: of two messages in the list, a later
one that should be earlier has been put back and has no higher priority
(`ListInOrder`), and a message in the list that was published before one that a
thread carries and should precede it has been put back (`HandsInOrder`). `EnqueuePlace` says
where `enqueue_message` puts a message, and that position keeps the list so,
because a newly published message has a number above all others.

*Database.* `LogRestoresTable` needs `TypeOK` and `HandleInv` (only an open
database has a writer, recovery does not run past the end of the log, a new
process starts from an empty table), and is stated for the records already
replayed while recovery runs. `RestorableExtend` is the step that matters: one
more record at the end decides its own key and no other. `DurableIfLogged` is
about the table of an open database, and says nothing while there is none. The
invariant therefore speaks of the disk (`LogIsDurable`): a crash leaves at least
the records before the first that is cut or not stable (`Safe`), and for each key
that the log covers any log between these and the present one (`Cuts`) leaves a
value that may be found. A record cut by the crash ends what counts, and what it
does to other keys puts them among the `unlogged`. Together with
`LogRestoresTable` this gives the property for whatever table recovery builds.

*Cache.* `ShapeInv` (list, chains and history hold nothing twice, and list
and chains exactly what is allocated) gives `Coherent`. `FreshInv` says what the
code relies on when it inserts a second entry for an expired key in front of the
first and never removes that one: an entry behind another of its key has
expired, so a lookup need not go on to it. It needs to know that no age is
negative, which holds only of entries that have not seen the clock set back;
hence `Steady` in the property. `OrderInv` is `ListIsByRecency` for entries
rather than keys, without the lookups.

*Web server.* Outside `webserver_stop` the accepting thread exists exactly while
the server runs (`LoopInv`).

*Exchange.* The array of headers begins with the places that the parser filled,
and what stands behind, NULL names and headers that the handler adds, has no
line (`HeadersInv`); or the parser did not see the empty line, and it begins with
nothing and there is no body. If the first line is a header line, the first line
end followed by an empty line is where the client's headers end, so the body's
lines are not walked over. `FilledTo` says what the loop has filled after n
lines: the lines with a colon, each once and in their order. So the values found
are all the named lines, and a lookup stops at the place that the first line of
its name filled, because every place before it has a name and comes from an
earlier line. For the serializer `WrittenSums` puts the offset after each write
beside the part of the sum that the allocation counted; 256 bytes for the
status line and 4 for the empty line leave room for the terminator.

*Circuit breaker.* `TypeOK`, `ClosedBelowThreshold`, `HalfOpenMeansRested` and
`FutureNeedsStep` (a failure lies in the future only if the clock was set back
since) together are inductive.

*Rate limiter.* The bound on the grants in an interval is not inductive, since
an interval that is half over may still be filled. `Room` says how many grants in
an interval the current window can account for, from where the window began
relative to the interval; the grants never exceed it plus one allowance for each
time the clock was set back, and it is always less than two windowfuls. That
the count in an entry is the number of the last grants, all of them made since
the window began (`CountsGrants`), gives the other direction.

*Registry.* Ids in the list, ids of services that are gone and the id a caller
is about to link are different and below `next_id` (`IdsAreFresh`). That is
true only as long as callers of `service_register` do not overlap, which the
theorem assumes as `OneAtATime`; run `reg_two_threads` shows what happens
otherwise.

*Retry and token.* While a call is retried every outcome so far was an error and
each but the last allowed was followed by one sleep (`Attempts`). A token's
text is that of the token (`TokenInv`); the rest is arithmetic of remainders.

*Sockets, counter.* No two socket objects hold the same
descriptor (`HeldByOne`). A call that overlaps no other has loaded what is still
there (`AloneInv`). When calls overlap, the counter and every number that a
thread has loaded are what some of the calls make of a number it was created
with or set to (`CountInv`); a store then adds one call to those in the number
it had loaded, and the calls stored in between are lost. `RemainderOfSum` is
what lets each call be reduced on its own.

*Metrics.* The offset after each turn of the loop is the length of the texts so
far, whether or not they were written; the text is whole as long as that stays
below the size of the buffer, and the loop has left it when a turn begins
beyond its end. Values and names stay in their sets (`MetricsInv`).

TLC checked every one of these invariants before it was proved.

Only model-checked: all liveness (`JoiningCallsReturn`, `EventuallyHandled`,
`TripEnds`, `StopReturns`, `ConnectionsAreClosed`), since the prover does not do
fairness. Every safety property of the passing runs is proved.

## What the code does that a document does not say

The violation runs, with the lines they disagree with, are in the findings of
`PROJECT.json`, and so are four disagreements that show in what a passing property
has to except:

- a message of another topic is overtaken while a thread carries it, by lower
  priorities too, and once it was put back, by what is then before it
  (`OvertakenOnlyOnceTaken`), where IMPLEMENTATION.md says FIFO and priority
  ordering;
- checkpoint and close empty the log, failures of `write()` and `fsync()` are not
  noticed, a cut record is replayed as far as it goes, under a key that may be
  another's, and records appended behind it may not be found (`DurableIfLogged`
  excepts `unlogged`), where README.md says durability;
- the rate limiter's window is fixed: almost twice the limit passes within one
  `window_ms` (`AtMostTwoWindowfuls`), where IMPLEMENTATION.md calls it sliding
  and README.md a token bucket;
- a request without header lines loses its body, or the lines of its body become
  headers (`AllHeadersOrNone` is about requests with a header line), where
  README.md says request body handling.

Beyond the findings the models record, as conditions of properties that hold:

- the listening socket is closed before the accepting thread is joined; if its
  number is given away in between, `accept()` can block on somebody else's
  socket and `webserver_stop` waits for it (`StopReturns` excepts `"stray"`);
- a client that is gone when its answer is sent ends the process, and so does a
  handler that is set to NULL between its two reads (`StopReturns` and
  `ConnectionsAreClosed` except `killed`);
- a client that does not send or does not read keeps its thread for ever
  (`ConnectionsAreClosed` promises little to those in `Mute`);
- a breaker for which failures are recorded again and again stays tripped
  (`TripEnds` is about a timeout that stays passed);
- `retry_with_policy` with a negative `max_retries` returns an uninitialized
  result (`RetryContract` excepts it), and a backoff product too large for
  `uint64_t` may become any delay;
- a user id that is empty, too long or contains a colon does not survive being
  written and read back (`ValidForTtl` is about plain ids);
- a clock that is set back expires fresh cache entries and opens new windows of
  the limiter; set back by less than a time to live it can bring an expired entry
  back (`LastPutWins` is about `Steady` keys), and it lets a call through a
  tripped breaker (`NoCallWhileTripped` excepts `clock = "moved"`);
- `metrics_export` leaves its buffer when the metrics before the last need more
  than its 4096 bytes, and returns an unterminated buffer when there are none
  (`ExportedOrOverrun`);
- `cache_with_stampede_prevention` returns the cache it was given, so that two
  handles name one object (`Same`), and who destroys both frees it twice;
- a header line without a colon leaves a NULL name at the end of the array, on
  which a lookup of a header that was not sent dies (stage `"crashed"` of `Http`).

## Not modelled

- `auth`, `crypto` and `security`: one-line stubs that return constants or a copy
  of their argument, without state, objects or checks. There is nothing to get
  wrong in them that a model could show.
- The twelve files without code (`architecture` .. `websocket`).
- The headers beyond the status codes: they declare what the modules model, or
  templates for which there is no code.
- The allocation helpers of `common.c`: they exit on failure, so allocation does
  not fail where they are used. The templates call `calloc` themselves, and
  `MakeFails` is its failure.
- The counters of the cache, `database_create_index`, `database_drop_index` and
  `database_compact`, which change nothing, the URI's split into path and query,
  and the texts of error messages.
- Handlers that call back into the queue: `pthread_join` of the own thread
  returns `EDEADLK` and the consumer is freed under its running thread; no use in
  the repository does it.

The bounds of each component are in its module's CONSTANTS, named as bounds.

## Plan

Done: every component with state is modelled and checked; the queue has an
abstract specification that it is proved to implement; and the safety properties
of all components are proved.

Left, in this order:

1. An abstract specification of the database (a map from keys to the values
   that may be read after a crash), which `Database` implements for the writes
   its log covers. `DurableIfLogged` already says what a reader may find; the
   refinement, which would rest on `DurableInv`, would add which steps change it.
2. The queue with handlers that call back into it.
3. The URI and its split into path and query.
