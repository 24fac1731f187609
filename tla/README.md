# ZodiacCore, verified: TLA+ models, runs and proofs

This directory models the parts of ZodiacCore that keep state, await, write
files or decide over several steps. TLC checks every model on small instances;
TLAPS proves every invariant and action property of the runs, and three
refinements, for instances of any size.
`PROJECT.json` lists components, runs, mutants, hazards, findings, theorems and
the source lines every definition translates.

    tlc -workers 2 -config GetOrSet_calls.cfg MCGetOrSet
    tlapm GetOrSet_proofs.tla

## 1. The system

ZodiacCore is a library for FastAPI services (`zodiac_core`) and a command line
tool (`zodiac`). A service is one process with one asyncio event loop: code runs
without interruption between two `await`s, and anything may happen at one. The
tool is a sequential program whose environment is the file system.

| Component | State | Operations | Interacts with | Correct when |
|---|---|---|---|---|
| `ZodiacCache` (`cache/manager.py`) | backend entry, RedLock lock, events of its waiters | `get`, `set`, `delete`, `get_or_set` | aiocache; producers; callers that cancel | one producer at a time while the lock protects; no lock leaks; a cached None is a hit; every call returns |
| `@cached` (`cache/decorators.py`) | keys in the cache | key building, wrapper | `get_or_set` | a call is only answered with an equal call's result |
| `CacheManager` | `_wrappers`, `_setup_configs`, aiocache's two dictionaries | `setup`, `get_cache`, `shutdown` | aiocache's registry, several applications' lifespans | registries agree; what is served was set up; what is shut down is gone |
| `DatabaseManager` (`db/session.py`) | `_engines`, `_session_factories`, `_setup_configs` | `setup`, `shutdown`, `init_db_resource`, factories | SQLAlchemy engines, lifespans | dictionaries in step; no pool lost, but to a table rebuilt under a shutdown; a resource keeps its database |
| unit of work (`manage_session`, `db.session`) | session, its connection, its uncommitted work | open, work, commit, rollback, close | the connection pool, cancellation | no connection leaks; nothing uncommitted is seen; an exception gives back what it passes |
| dependencies (`get_session`, `session_dependency`) | the generators FastAPI has entered for a request | enter once a request, leave in reverse | units of work, FastAPI's exit stack, endpoints | parts of a request commit together, do not wait for one another, and are closed before an error is answered |
| repository (`db/repository.py`, `pagination.py`) | rows, a client's walk | `paginate`, `apply_sorting` | other transactions | no row missed or repeated without a reason; the requested order where sort settings exist |
| tracing (`middleware.py`, `context.py`, `logging.py`) | two context variables, headers | four middlewares, scopes, log patcher | Starlette's layers, mounted apps, outgoing HTTP | one id per request; the context follows the scopes; the access log tells the truth |
| errors (`exception_handlers.py`, `http.py`, `exceptions.py`) | the exception in flight | handlers, upstream translation | the tracing layers | a dependency's failure is not this service's 5xx |
| render plan (`commands/rendering.py`) | the tree of files | `write_render_plan` | file system, other programs, a kill | all or nothing; only its own files removed |
| scaffolding (`commands/new.py`, `commands/add.py`) | none of its own | `new`, `add sub-app` | the render plan, projects users changed | add leaves the project's files alone |
| skills (`commands/skills.py`) | links, `.gitignore` | install, uninstall | file system, package upgrades, users' copies | success means done; a refusal has a reason; links are ignored; no user's directory lost |
| check (`zodiac/check`) | discovered project, findings | discovery, rules | the developer who follows the findings | no error passes silently and no false alarm where calls can be read file by file; findings can be followed to the end |

Hard behaviour, by kind: interleavings at awaits (`get_or_set`, both managers,
tracing), lost wakeups and timeouts (RedLock, the connection pool), failures in
the middle of a sequence of steps (rendering, skills, shutdown, rollback),
races with other transactions (pagination) or users (rendering, skills), scope
nesting under exceptions (tracing), and rules that interact (check).
The complete list, line by line, is under `hazards` in `PROJECT.json`.

## 2. Modules

`Requests` extends `UnitOfWork` and `Scaffold` extends `RenderPlan`: the larger
module composes the smaller one's actions into the steps of its callers, and is proved to implement
it. `ServiceCheck` extends `ImportNames`, a module of operators. A module of proofs
may hold those of two models; where it does, the second one's specification has
names of its own (`KeysSpec`, `CheckSpec`, `RequestsSpec`, `ScaffoldSpec`).

A model `X` has an `MCX` with the values of its constants for TLC where the cfg
alone cannot state them. Mutants of definitions stand in the model, right
before what they mutate, each marked `Mutant:`; no specification uses them.

Some variables are history: they record what the code does not, so that a
property can say under which circumstances it holds. `disturbed` (GetOrSet) are
the calls that lost the protection of the lock; `raced` (CacheRegistry) is set
when a call came in during another's shutdown or a close failed; `excused`,
`moved` and `crossed` (DatabaseManager) are engines whose own disposal failed or that were
used after a shutdown had reached them, engines that a rebuilt table moved past the
slot a shutdown had reached, and resources whose name somebody else
opened or shut down; `before` and `touched` (RenderPlan), `copies`, `leftovers` and `spoilt`
(SkillLinks) are what a run found, what a run could not remove, and what others,
or a run that broke off, did to it. A property with such an exception claims nothing about the excepted case.

**GetOrSet, CachePromise, GetOrSet_proofs.** One key of one cache. Every await of
`get_or_set` is a step of its own: the first read, RedLock's acquisition (or
its wait), the second read under the lock, the producer, the store, the release.
A task may be cancelled at each of them. `raw` is what the backend stores and
`noneForm` what the serializer makes of None, chosen at the start out of
`NoneForms`, so that serializers which lose None are told from those which do
not; `lock` is whose token is stored under the lock's key and `waiters` who waits
on the event of that lock. A call is `disturbed` for a reason the code accepts: a lease ran
out, a wait timed out, the entry was dropped, the lock was given up without an
entry. `CachePromise` says what a caller may rely on without
any lock: hit, miss, make, keep. `GetOrSet` implements it under the mapping
`PromisePhase`, `PromiseEntry`.

**CacheRegistry, RegistryAndKeys_proofs.** `setup` and `get_cache` do not await and
are one step each. `shutdown` is one step per `close()`: `job[t].todo` is the
snapshot its loop goes over, `list(self._wrappers.items())`. aiocache's registry
(configurations, built backends, the "default" it comes with) is external.

**DatabaseManager, DatabaseManager_proofs.** As above, but `shutdown()` iterates
the live dictionary, and that is modelled as CPython does it. `place` is the slot
of each name in the table of `_engines` and `slots` how many slots are used, the
empty ones of removed entries among them. An insertion takes the next slot or
rebuilds the table without the empty ones (`Insert`), which moves the entries
behind them. The iterator keeps the slot it has reached (`pos`) and its counters
(`used`, `left`): a changed size raises at the next advance, and so does an entry
too many; an unchanged size goes on, from the slot reached, whatever has moved.
`Fresh` recycles the identity of an engine nobody refers to.

**UnitOfWork, Requests_proofs.** Each task has a stack of sessions (`sessions`)
over the pools of several databases; `state` is how control moves in the
innermost one: it runs, waits for a connection, raises, closes after a rollback,
or unwinds for a cancellation. The body of a unit of work is unconstrained: it
writes, commits, opens another, raises, is cancelled, or ends. A rollback may
fail, and even then whoever leaves by an exception must give a connection back to its
pool (`LeaversGiveBack`). `orphans` are generators dropped by a dependency that iterates
`get_session()` instead of entering it; the event loop closes them later
(`Finalize`).

**Requests, Requests_proofs.** The same sessions, opened by whoever opens them
for an endpoint. A route is the sequence of its dependencies (`Use`): `get_session`,
what a call of `session_dependency(name)` returned, or a generator of the
application's own over `get_session()`. `Callable` is what FastAPI caches a
dependency under, with `SessionDependency` as the code defines it: a fresh closure a
call, `get_session` itself for the default name. FastAPI's part is external and
is that of the version the lock file pins: dependencies are resolved in order, each callable
once a request, left in reverse after the response is sent, or, when the
endpoint raises, before the exception handlers answer (`phase`). Endpoints,
services and repositories may open sessions of their own below (`OwnSession`).

**Pagination, Pagination_proofs.** One client walks the pages of a sorted list while other
transactions insert and delete. Count and page are two steps, on one snapshot or
not (`Snapshot`; the run has none, which allows every walk a snapshot does). `sorts` is
whether the call or the repository has a `SortSpec`: without one `OrderBy` keeps the
statement's own order, and a sort the client asks for is dropped without a word, as
`tests/db/test_repository_pagination.py:329` expects.

**RequestTracing, RequestTracing_proofs.** A stack is the sequence of layers from the outside in; the
stacks used come from `RegisterMiddleware`, the translation of
`register_middleware`. A request goes down, is answered or raises at the
endpoint, and comes back through every layer. `frames` are the open scopes.

**RenderPlan, Scaffold_proofs.** Every call on the file system is a step that may fail, those of
the rollback included; the process may be killed between two of them, and others
may write files meanwhile (`OtherWrites`).

**Scaffold, Scaffold_proofs.** `New` and `AddSubApp` are what the two commands
check before they write, and the plans `build_render_plan` makes out of the
templates' paths; each starts a run of RenderPlan in one project directory, one
command after the other. A path is the sequence of its parts.

**SkillLinks, SkillsAndCheck_proofs.** The same for `zodiac skills`: an entry is absent, a link to the
current package, a stale link, a copy, or what a failed junction leaves; the removal
of that may fail too (`Fallback`). `windows` is chosen at the start out of `Platforms`.

**CacheKeys, RegistryAndKeys_proofs.** Objects have identities, kinds and contents;
`Pickle` writes a second occurrence of one string object as a reference, as pickle
does. `SortedKwargs` is the one order of the keywords in which their names ascend.

**ServiceCheck, ImportNames, SkillsAndCheck_proofs.** A file is what the rules see: whether it parses,
which calls stand in each of its functions and at its top level, its import statements
by their position, and the dotted names it uses. A function that is no app factory is a
helper; it may be called from its own file, from another one, by other helpers, or by
nothing, and may hold any calls. `Gets` is what runs: what a factory calls itself or
through helpers. The rules do not see that, but what stands in the file (`Calls`).
The walk visits the files in the order of `Position`. `ImportNames` holds the resolution of names of
`check/module.py` (`Aliases`, `ResolveFrom`, `Resolve`) next to what Python does
with the same imports (`Meaning`, `Loaded`). `Follow` is a developer who makes
the change of one finding; the check then runs again on the changed project.

## 3. Runs

Passing runs (bounds are the constants of the cfg; each takes under four minutes):

| Run | Bounds | Properties |
|---|---|---|
| `GetOrSet_calls` | 3 tasks, 1 value and None, a serializer that leaves None alone or loses it, leases of their own that may run out | SingleFlight, LockOwnerInside; the refinement PromiseKept; EveryCallReturns under fairness |
| `CacheRegistry_races` | 2 tasks, 2 names, 3 configurations (one that fails), 3 backends, close may fail | OneBackendPerName; SetupSticks, NoBackendLost, DownMeansDown for calls that did not race |
| `Database_shutdowns` | 2 tasks, 2 names, 2 configurations, 3 engines, tables of 3 slots | DictsInStep, NoPoolLost, ResourceKeepsDatabase |
| `Requests_pool` | 2 tasks, 2 databases, 3 connections, nesting 2, 2 rows, 1 dropped generator a task, 5 routes | NoConnectionLeak, NothingUncommitted, CleanBeforeAnswer, NoSelfWait, CommitTogether; LeaversGiveBack under fairness |
| `Pagination_walks` | 4 rows, pages of 1 to 3, 3 writes, 4 sorts, with a `SortSpec` and without | NoRowMissed, NoRowTwice, RequestedOrder |
| `RequestTracing_requests` | 2 tasks, 4 ids, 3 stacks of up to 9 layers | ContextFollowsScopes, OneIdPerRequest, AccessLogTellsTruth, UpstreamIsNot5xx |
| `Scaffold_commands` | 3 files of the base template and 2 of the sub-app's, 3 levels of directories, 2 services, one of a reserved name, 2 files that others write | AllOrNothing, UnforcedKeepsFiles, AddLeavesProject, RemovesOnlyItsOwn |
| `SkillLinks_commands` | 2 agents, one with a user's own skills, 2 skills, both platforms | TypeOK, UnforcedKeepsCopies, NoFalseRefusal, DoneMeansDone, LinksIgnored |
| `CacheKeys_calls` | 4 functions, 9 objects, one argument and up to 2 keywords, 2 entries at once (`MaxEntries`) | AnswersMatch, KeywordOrderIrrelevant |
| `ServiceCheck_changes` | 5 files, 2 factories, 3 helpers, all layouts, 2 nestings of projects, two of 20 usages of imports in a file | OkMeansWired, NoFalseAlarm, MisuseFound, LayersKept; ChangesEnd under fairness |

What each shows is in `about` of `runs`. Every property is broken by a mutant
of the model (`mutants`): a bug such as a forgotten recheck, a rollback that does
not close, or a page that overlaps the last one.

The type invariants of the models but SkillLinks are proved (§5) and in no run:
that of Pagination and RequestTracing is `Types`, CacheKeys' and ServiceCheck's
is in the invariants `KeysIInv` and `CheckIInv`.

Why the bounds are enough: the hazards need two actors and one bystander (a
holder, a waiter and a newcomer for the lock; two shutdowns or a shutdown and a
setup for the managers; two requests, one of which holds what the other waits
for), one more identity than can be in use at once, one
nesting level more than none, and, for file trees, a directory within a new
directory. In `Requests_pool` no route has more than two callables, so that
`MaxDepth` 2 cuts short none of its dependencies, only sessions below two of
them; the routes of the two tasks differ so that every kind of dependency meets
every other. Three slots are one more than the names, so that a removed entry's slot
can stay empty while two names are registered, and the next insertion must rebuild; a larger
table only rebuilds later, and `Insert` may rebuild at any time. Deadlock is checked in
all runs but `ServiceCheck_changes`, where a clean check is the end. Symmetry is used in the runs of `CacheRegistry`,
`DatabaseManager`, `RequestTracing`, `SkillLinks` and in `GetOrSet_oneproducer`,
over sets whose members the module never tells apart; no run with a liveness
property uses it.

Violation runs, where the code does something else than a document says
(`findings` has the quotes):

| Run | The counterexample |
|---|---|
| `GetOrSet_oneproducer` | the holder's producer raises; the woken waiter produces while a newcomer holds the lock, no lease having expired |
| `RequestTracing_noid` | the 500 of an unhandled exception is sent outside the tracing middleware and has no id |

Other places where code and documents part, which the models reproduce and the
properties above therefore except, without a run of their own:

- `shutdown()` may drop a live engine, although `db/session.py:191` says that all
  registered databases are disposed. While it disposes the first of two engines, another
  task shuts that name down and sets it up again: the size is as before, but the insertion
  rebuilds the table, the second engine moves to the slot the loop has passed, the loop
  goes on to the new engine and ends, and the clear drops the second (`moved` in NoPoolLost).
- `zodiac check` passes an app without exception handlers, although
  `check/rules.py:196` demands them of every app and the templates' README (line 46 of the
  three-tier one) says that the check verifies it: any call in the file counts, also one in
  a helper that nothing calls, beside the factories, or in another factory. An app wired by a
  helper of another file is reported (`Legible` in OkMeansWired and NoFalseAlarm).
- `cache.cache` before any setup does not raise, as `tests/cache/test_cached.py:75`
  expects: aiocache's own configuration of "default" serves it, unless something
  has removed it from aiocache's registry (`CacheRegistry!Factory`).
- A get during the await of `shutdown(name)` puts the closing backend back, so
  that `cache.cache` does not raise afterwards (`tests/cache/test_manager.py:110`).
- Equal calls may have different keys, as pickle writes the second occurrence of
  one string object as a reference; `decorators.py:23` says "stable structure".
- Of two resources on one database the first to close takes it from the other;
  `docs/user-guide/sub-applications.md:158` calls the repeated setup harmless.
- The log line of an unhandled exception has no id (`docs/api/logging.md:11`).
- `zodiac skills uninstall` removes the patterns but not the links of skills the
  package has dropped, and these are ignored no longer (`skills.py:337`).
- Discovery stops at the first `pyproject.toml` above, also at one of another
  project; `project.py:42` says that it goes on to a ZodiacCore service.
- The layers of sub-applications are not checked; `docs/user-guide/cli.md:175`
  names no exception.
- Middleware that a parent registers for the apps it mounts is reported as the
  parent's own (`docs/user-guide/sub-applications.md:20`).
- `from .. import infrastructure` in an API file crosses the layers and is not
  reported, as only the module before `import` is looked at;
  `docs/user-guide/cli.md:175` names no exception (`LayersKept` is about the
  modules named there).
- Two imports of one name in different functions hide one another from the rules
  (`Aliases` is one table a file); `MisuseFound` excepts such files (`OneMeaning`).
- A request with a session of its own below its endpoint can wait for itself
  until the pool times out; `docs/api/db.md:125` asks for the injected session to be
  passed on.

## 4. Fairness

- `GetOrSet`: the event loop resumes a task whose await is over, backend calls
  and timers complete (weak fairness of reads, acquisition, store, release,
  lease expiry, wait timeout). Nothing is assumed of producers: they may hang,
  and `EveryCallReturns` is conditional on the call's own producer.
- `UnitOfWork`, also in `Requests`: a task whose body an exception has left goes on
  to the end of its sessions (rollback and close return or raise), and the event loop
  closes dropped generators. Nothing is assumed of bodies, which may keep their
  connections for ever, nor of the pool's timer: an exhausted pool stays so if nobody
  leaves, and it is only SQLAlchemy's `pool_timeout` that makes somebody leave.
- `ServiceCheck`: the command runs to its end and the developer goes on making
  changes while there are findings.

## 5. Proofs

Eight modules of theorems, for every value of the constants that satisfies the
named assumptions. Every invariant and every action property of the passing runs is
stated by one of them. Most assumptions are about what a constant is (distinct
markers, subsets, a finite `Name`, the shape of calls and requests). These say more. `TemplatesAssumption`: a sub-application's files
are below a directory of its own, and `core` is the only name a service could have
that is taken at that level of the project; the two templates in
`src/zodiac/templates` satisfy it, and the run checks it for the part of them it has. `PathsAssumption` and `PlansAssumption`:
directories and files are apart, and plans are of files. `CallableAssumption`: the callables of the
routes are among the openers, and those that iterate a generator are wrappers.
`CommandsAssumption`: what accepted commands render is among RenderPlan's plans.
`StackAssumption`: the innermost layer of an app is Starlette's ExceptionMiddleware,
which its `build_middleware_stack` ensures; without it a parent's handler could answer
otherwise what a mounted app's access log has told as 500. `EndpointAssumption`: no
endpoint answers 500 by its own decision. `ServicesAssumption` only says what a file
is (calls, imports and uses of the right shape, each helper in one file); nothing is assumed of
where calls stand or what reaches them. That is in `Legible`, a condition of
OkMeansWired and NoFalseAlarm themselves. `NamesAssumption`: names are finitely many and
`Slots`, any number, bounds the used slots of a table. `CallsAssumption`: Python passes a keyword once.

- `GetOrSet_proofs`. `IInv` is TypeOK, LockOwnerInside, WaiterHasHolder and
  Protection together: Protection alone is not inductive, as a woken waiter is
  protected by the entry and not by the lock, and the wakeup is lost if the
  lock's holder could be outside the body. WaiterHasHolder and Protection are
  proved with it and in no run. SingleFlight follows from Protection,
  since two protected producers would both hold the one lock. `KeepsPromise` shows
  that each step is a step of CachePromise or a stutter, from `IInv`.
- `RegistryAndKeys_proofs`, for CacheRegistry. Its `IInv` adds that a backend under any
  name was built, which keeps a fresh one from being confused with it. It holds
  for racing and failing calls too. TtlFromRecord and BackendsNotShared are proved
  only. `Calm` adds what holds until something races, for SetupSticks, NoBackendLost
  and DownMeansDown: at most one shutdown runs (`Alone`), what it is yet to close
  is still registered (`Closing`), what is wrapped outside it is open and built as recorded
  (`Served`), and of the other names nothing is left in either registry (`Gone`).
  A fresh backend is then neither closed nor of another name.
- `RegistryAndKeys_proofs`, for CacheKeys. `KeysIInv`: every entry is under the key of the
  call that filled it, no two under one key of one cache, and the last answer came
  from under the call's own key. `KeyTells` reads receiver, values and names back out
  of a key, so that equal keys are of equal calls. `KeyIgnoresOrder` shows that the
  sorted keywords depend on the set of pairs only; that a sorted order exists at all
  (`CanSort`) needs the ranks of the names, which map the positions one to one
  and so, these being finite, onto one another.
- `DatabaseManager_proofs`. DictsInStep holds with the typing of the
  dictionaries and because every name has an engine of its own (`Apart`). NoPoolLost needs
  to know how far a running iteration has got: `Places` gives each entry a used slot of its
  own, and rebuilding keeps their order (`Ranks`). An engine with connections whose
  slot a running loop has passed is the one being disposed, excused or moved; when the loop
  ends it has nothing ahead, so whatever it clears is among these. The invariant is for any
  number of running loops at once.
  ResourceKeepsDatabase needs that an uncrossed resource is alone with its name and
  that none is open while a `shutdown()` runs, so that neither a resource that
  closes nor the clear at the end of that shutdown takes its database.

- `Requests_proofs`, for UnitOfWork. `IInv` is `Held` (stacks and pools: every row is in
  one session's uncommitted work at most and in neither `visible` nor `dropped`
  then, every connection of a session is of its database's pool), `Deep` (whoever
  raises or waits is inside a session) and `Queued` (a waiter is in one queue, at one
  place, for a session of its own that has no connection). NothingUncommitted needs the
  first, as a commit could otherwise show a row that another session has dropped;
  NoConnectionLeak needs the last, as a grant to a session that already has a connection
  would lose one.
- `Requests_proofs`, for Requests. Every step of a request is one of UnitOfWork or
  leaves it alone, so its `IInv` carries over; with the types of a route this is
  `RequestsAreUnits`, which maps behaviours of Requests, fairness included, to
  behaviours of UnitOfWork. `RInv` adds `Routed` (an idle task is in no session),
  `Bound` (a session that is not an own one is of a use of the route, with its
  callable and database), `OneEach` (at most one session a callable) and
  `Dropped` (only generators behind wrappers are dropped). From them, two sessions of a documented
  request on one database are one session: NoSelfWait and CommitTogether follow.
- `Scaffold_proofs`, for RenderPlan. `Keeps`, `Rooted` and `Remembers` say what the originals
  and the lists of created files stand for at each stage: every original of the plan is
  held before anything is written, and its directories are there when it is put back.
  `Progress` and `Records` say which files are written, restored or still torn; AllOrNothing
  follows when nothing is left to do. `Unforced` says that without --force the plan meets
  no file that was there.
- `Scaffold_proofs`, for Scaffold. A command only starts a run with a plan of files, so
  RenderPlan's `IInv` is inductive for any sequence of them; `CommandsAreRuns` says that
  the commands implement RenderPlan. AddLeavesProject needs besides
  that the plan of a running `add` is apart from the project's, for which the
  reserved names are needed.
- `SkillsAndCheck_proofs`, for SkillLinks. DoneMeansDone needs `Passed`: the destinations a loop has
  passed are as the command wants them, whatever users copy meanwhile.
  UnforcedKeepsCopies needs that a run that is not forced has no user's directory among
  its own (`Unforced`), LinksIgnored that the links of the agents a run is not
  about stay ignored (`OthersIgnored`) and that one to a skill the package dropped spoils its
  agent (`Dropped`), so that an uninstall that succeeds leaves no link behind
  whose pattern it prunes. NoFalseRefusal needs `Partials`: a partial directory is that of the
  junction this run has just tried, or was recorded when its run ended.

- `SkillsAndCheck_proofs`, for ServiceCheck. `Gathered` says what a run of the check
  knows at any moment: its findings are those of the rules in the files it has walked
  (`Found`), and what it saw is what stands in these. `Sound` keeps files
  of the right shape under every change of `Follow`. OkMeansWired and NoFalseAlarm
  compare the calls of a file with what its factories reach: where helpers are called from
  their own file, the closure of a factory stays in its file (`ReachedAtHome`), what it gets
  stands there (`GotIsCalled`), and what stands there is got by some factory (`CalledFor`). MisuseFound and LayersKept
  rest on `SameMeaning` and `SameModule`: where each name has one meaning in its file, the
  check's table of aliases and its counting of dots agree with Python's
  scopes and packages.
- `RequestTracing_proofs`. `Way` says that the open frames are the first layers of
  the request's stack, and `Scoped` what they make of the context: it holds what the
  innermost scopes set, and each scope keeps what those outside it had set, so that
  leaving one restores it. AccessLogTellsTruth needs `Logged`: an access log that has been
  left without a response told 500, and then either a cancellation passes or a
  ServerErrorMiddleware comes before the next ExceptionMiddleware (`Guarded`, from
  `StackAssumption`), so that nobody answers otherwise later. UpstreamIsNot5xx needs that an
  upstream failure meets its handler at the innermost layer (`Translates`);
  OneIdPerRequest that all ids of a request were issued to it (`Tracked`) and that ids of
  different requests without headers are apart (`Apart`).
- `Pagination_proofs`. In an order without ties a row's position is its rank, the number of
  rows before it (`PositionIsRank`, by counting). A row that stayed is either seen or ranked
  at or after what has been skipped (`NotMissed`), as long as nothing before it was
  deleted or slipped in between count and page; and what has been seen is ranked
  before it (`NotTwice`) as long as nothing was inserted before it. `InOrder` is the
  same for a table that nobody changes. A walk ends when the page reaches the total, and a
  rank is below the total.

With TLC stay the liveness properties (EveryCallReturns, LeaversGiveBack, ChangesEnd),
which are out of TLAPS's reach, as is ENABLED, and the two findings, which are
counterexamples. What recursive definitions compute (`Value`, `Strings` and `Supported` in
CacheKeys) is proved nothing about: the theorems take them as functions, whatever they
return. Where a proof needs induction over numbers it takes a least counterexample
instead (`LastExists`, `FirstExists`, from the well-foundedness of < on Nat). Proofs
say nothing of the external parts beyond what their definitions assume.

## 6. Abstractions, and what is not modelled

External definitions (marked in the map): aiocache's RedLock and registry,
expiry of entries and locks, SQLAlchemy's pool and engines, ORDER BY and other
transactions, the iteration of a Python dictionary, Starlette's own layers and
`add_middleware`, FastAPI's entering and leaving of dependencies, pickle, Python's
own resolution of imports, users, developers and other programs.

- Cache: an in-process backend, where taking the lock and publishing its event
  is one step; races of a networked backend are not covered. One key. The hash
  of a key is taken as injective, and one call of `CacheKeys` is one step.
- Managers: when CPython finds a table full depends on its size, so any insertion may
  rebuild it and one with `Slots` slots used must. Whether a size and a growth in between
  let it happen in one build of Python is not told.
- Units of work: a task that wants a connection may overtake those in the queue;
  `close` does not fail. A task serves one request at a time, and its dependencies
  are resolved in the order of the route, without sub-dependencies. A second error
  while the first unwinds is as if the first went on.
- Tracing: HTTP only; `exclude_paths`, background tasks and the sinks are left out.
- Pagination: one client, which stops by `total`; at most `MaxWrites` writes.
- Render plan: the preflight, and the reading of originals, are one step each.
- Scaffolding: one project directory; the names of resources, which only change the
  names of files, and the standard-3tier template, which is the base plan without
  the bundled sub-applications, are left out; templates never fail to render.
- Skills: loops go over destinations in any order; the package is upgraded
  between commands only; the user's own lines of `.gitignore` are left out.
- Check: the names of wiring calls are taken as resolved, and the syntax tree is
  abstracted to what is called where; assignments that rebind an imported name,
  and the choice of the package's name are left out; the apps of the entry's
  file are all taken for the process's own, so that a mounted app's factory in its
  parent's file is not told from the parent's; a
  file that does not parse is repaired before anything else in it is changed.

Not modelled: configuration (`get_config_files` is one pass over a directory
listing, `provide_config` a conversion), the envelope router and response models
(reflection at registration, no state), table mixins and page schemas, the text of
reports, the script of the zodiac-docs skill (it prints versions and paths),
templates and packaged skills, benchmarks.

## 7. Plan

Done: cache, managers, sessions and the requests over them, file writers and the
commands that feed them, tracing, pagination, skills, keys, check and its names;
the theorems of §5.

Next, modelling:
1. A composition of `CacheRegistry` and `GetOrSet`: calls under way on a cache
   that is shut down and set up again.
2. The websocket scope and `exclude_paths` in `RequestTracing`.
3. An abstract specification of a name registry that both managers implement.

Next, proofs:
1. The abstract name registry, once both managers are mapped to it.
2. The invariants of the composition of `CacheRegistry` and `GetOrSet`, once it is modelled.
