# XProf in TLA+

XProf turns the `*.xplane.pb` files of a profiling session into the tools of its
web page. The heavy part, converting every host's file to an OpStats, is cached
in the session directory, scattered over worker processes, and repeated when a
connection breaks. Nothing locks that directory. The modules here are about what
can go wrong there: requests, workers, retries, refreshes, crashes and upgrades
of the plugin that meet only in files. A second group of modules is about the
tools beside that cache: the derived files of two tools, the smart suggestions,
the algorithms that turn raw events into what is shown, and the browser's trace
viewer, which loads it piece by piece.

Paths below are relative to `src/`; `convert/` is `xprof/convert/`, `plugin/` is
`plugin/xprof/`.

## 1. The system

| part | code | state it keeps | operations |
|---|---|---|---|
| web plugin | `plugin/profile_plugin.py` | `cache_version.txt` of each run, the one-thread pool of `generate_cache` | `/data`, `/generate_cache`, run, tool and host lists |
| option building | `plugin/convert/raw_to_tool_data.py` | none | one branch per tool; some forget `use_saved_result` |
| C++ entry | `xprof/pywrap/profiler_plugin_impl.cc` | none | `XSpaceToToolsData`, clear, legacy fallback |
| session | `convert/repository.{h,cc}` | the directory: xplanes, `<host>.op_stats_v2.pb`, other derived files | `Create`, `HasCacheFile`, `ClearCacheFiles`, read and write of protos |
| OpStats tools | `convert/op_stats_processor.cc`, `base_op_stats_processor.cc`, `multi_xplanes_to_op_stats.cc` | the OpStats files, one per host and one for `ALL_HOSTS` | `ShouldUseWorkerService`, `Map`, `Reduce`, `ProcessSession` |
| scatter and gather | `convert/xplane_to_tools_data_with_profile_processor.cc` | a thread pool per request | `RunMapReduce`, `CallWorkerService` |
| stubs | `plugin/worker/stub_factory.cc` | the list of stubs, the round-robin counter | `InitializeStubs`, `GetNextStub`, the channel's retry policy |
| worker | `plugin/worker/worker_service.cc`, `grpc_server.cc` | a semaphore | `GetProfileData` |
| tool list | `ToolsCache` in `profile_plugin.py`, `profile_io.py` | `.cached_tools.json` | `load`, `save`, `invalidate` |
| derived files | `convert/xplane_to_hlo.cc`, `xplane_to_dcn_collective_stats.cc`, `streaming_trace_viewer_processor.cc` | `*.hlo_proto.pb`, `*.dcn_collective_stats.pb`, the three trace tables | generate if absent, read |
| smart suggestions | `convert/smart_suggestion/` | per-request caches under one mutex | a getter per tool, the rules |
| trace pipeline | `convert/trace_viewer/lite_trace_events.cc`, `trace_events.cc`, `trace_viewer_visibility.cc` | the zoom levels; what each level showed last | split the events, serialize them in chunks, fill three tables |
| op metrics | `convert/xplane_to_op_metrics_db.cc`, `op_stack.h`, `op_metrics_db_combiner.cc`, `xprof/utils/op_metrics_db_utils.cc`, `op_utils.cc` | stacks of open ops, the op being gathered, databases | read a line or core, combine, add the idle time |
| steps | `convert/xplane_to_step_events.cc`, `step_events_to_steps_db.cc`, `op_stats_to_input_pipeline_analysis.cc`, `xprof/utils/event_span.cc` | the events of each step, by device; the step database | convert each device on a pool thread, join, cut to the markers, look for input |
| converters | `convert/dcn_analysis.cc`, `xspace_to_dcn_slack_analysis.cc`, `xplane_to_memory_profile.cc`, `hlo_proto_to_memory_visualization_utils.cc` | tables filled while a trace is read | find bursts, match operations and host events, break peaks down |
| algorithms | `xprof/utils/step_intersection.cc`, `event_span.cc`, `derived_timeline.cc`, `convert/inference_stats_*.cc`, `duty_cycle_tracker.cc` | none beyond a call | align steps, charge time, derive lines, unite active time |
| utilities | `xprof/utils/lazy.h`, `function_registry.h` | a lazy value, a table of functions | `Get`, `Register`, `Unregister` |
| browser | `frontend/`, its trace viewer in `frontend/app/components/trace_viewer_v2/` | what is loaded, what is being loaded, the viewport | reads `/data`, the next part when the viewport leaves the last |

How they interact. A `/data` request runs on a thread of the web server:
`data_impl` reads the version file, chooses the hosts, and calls through the C
API into `SessionSnapshotToToolsData`. That clears the caches if
`use_saved_result` is false, then hands the session to the tool's processor. A
single host, or a session whose per-host files all exist, is processed in place;
otherwise each host's `Map` is sent by a blocking RPC, from a pool thread of its
own, to the next stub. The worker (by default the same process) waits for a
permit of its semaphore, runs `Map`, which writes that host's file in the shared
directory, and returns the path. `Reduce` reads the paths, combines, and writes
`ALL_HOSTS`. Back in Python the version file is written if the request refreshed.
`/generate_cache` runs the same conversions on a background thread.

What is hard here:

- two requests, or two attempts of one call, write one file at the same time;
- `FileExists` is the only test for a finished result, and writes are not atomic;
- a refresh lists and deletes while others read and write;
- a call given up by its client runs on at the worker, holding a permit;
- connections live at most 50 s + 10 min, calls up to 30 min, attempts up to 3;
- the version file is read, acted on and written in three separate steps;
- one file stands for a whole conversion: a verdict of the DCN tool, one of three
  trace tables;
- chunks of a trace are serialized in any order, for two writers of which only one
  hands out further chunks;
- answers reach the browser in any order, after the user has gone elsewhere.

What makes each part correct:

- session cache: a computed answer holds the selected hosts and no others; damage
  does not outlive a refresh; an undisturbed request does not fail on its own
  files; errors of a host are not reduced away; only a refresh deletes; every
  request ends.
- worker pool: permits are neither lost nor invented; returned answers stay; queues
  drain.
- cache version: caches of an older plugin are not served as current.
- tool list: the list shown belongs to the files that are there.
- HLO modules and other derived files: presence means a complete result of the
  present xplanes.
- smart suggestions: what is suggested is true of the profile, whatever failed.
- trace pipeline: both tables hold every chunk, or there is an error; a zoom level
  leaves out only what nobody would see; flows are shown whole or not at all.
- algorithms: the steps merged are the same step; time is charged once and to the
  right type; derived events nest; busy time is the measure of a union.
- op metrics: every op is entered once, charged for the time in which nothing inside it
  ran, and ops and idle time make up the whole.
- converters: what a line, a row or a bar shows was really under way then, and it is
  all that was.
- browser: the trace shown is the one asked for last; loading never gets stuck; what
  is on the screen has been loaded; no event hides another; nesting and flows are drawn
  as they are.

## 2. Modules

| module | models | checked by |
|---|---|---|
| `OpStatsSession` | one session directory, its requests, Map handlers and retries | `MCOpStatsSession` with 4 configurations |
| `WorkerPool` | stubs, channels, handlers and semaphores of the workers | `MCWorkerPool` with 2 configurations |
| `AdmissionControl` | abstract: at most `Permits` jobs per worker, each at most once | refined by `WorkerPool` |
| `CacheVersion` | version file, clear, conversion, generate task, upgrades | `MCCacheVersion` with 2 configurations |
| `ToolDiscovery` | the tools file, HLO module files, arriving xplanes | `MCToolDiscovery` with 2 configurations |
| `DcnStats` | the cached DCN collective stats of a session | `MCTools` |
| `TraceTables` | the three trace tables of each host | `MCTools` |
| `ChunkWriter` | the pool and the two writers that fill two of them | `MCTools` |
| `TraceLayers` | the zoom level of each event | `MCTools` |
| `SmartSuggestions` | engine, rules, signals and tool data of one request | `MCTools` |
| `ThreadSafeLazy` | double-checked initialisation | `MCTools` |
| `StepIntersection` | chief, alignment and common range of the steps of several hosts | `MCTools` |
| `EventSweep` | operators: boundaries and the highest type between two of them | through `EventSpans`, `InferenceHost` and `StepEvents` |
| `EventSpans` | the sweep that charges time to types | `MCTools` |
| `DerivedLine` | module and op lines made from kernels | `MCTools` |
| `DutyCycle` | active spans of cores and chips | `MCTools` |
| `DcnBursts` | bursts of DCN traffic, and which collectives get a line | `MCTools` |
| `DcnSlack` | slack of collectives, and the host events that belong to them | `MCTools` |
| `MemoryProfile` | timeline, peak and breakdown of an allocator's memory | `MCTools` |
| `HeapSimulator` | the replay of the compiler's heap trace for the memory viewer | `MCTools` |
| `OpMetricsDb` | operators: databases of op metrics and what is done with them | through the next three and `TpuSteps` |
| `HostOpMetrics` | the ops of host threads, on a stack | `MCTools` |
| `DeviceOpMetrics` | the kernels of a GPU, gathered by op | `MCTools` |
| `TpuOpMetrics` | the ops of tensor and sparse cores, and which module they belong to | `MCTools` |
| `StepEvents` | operators: the details of a step, and how those of threads and devices are put together | through the next two |
| `StepDb` | the step database of a host with GPUs or without a device | `MCTools` |
| `TpuSteps` | the step database of the cores of TPUs, and what of their idle time was input | `MCTools` |
| `InputPipeline` | the verdict of the input pipeline analysis on either database | `MCTools` |
| `FlameChart` | tracks, levels, self times and flow lines of the trace viewer | `MCTools` |
| `InferenceHost` | requests and batches of one host: models, times, tensors | `MCTools` |
| `InferenceStats` | the inference profile of a session: threads, combination, merge, samples | `MCTools` |
| `TraceViewerClient` | loading in the browser | `MCTools`, `MCTraceViewerClient` |
| `OpStatsSession_proofs`, `WorkerPool_proofs`, `CacheVersion_proofs`, `ToolDiscovery_proofs`, `DcnStats_proofs`, `ThreadSafeLazy_proofs`, `TraceViewer_proofs`, `Converters_proofs` | the theorems | tlapm |

### OpStatsSession

`pc[r]` is where the request's thread stands: `list` and `clear` are
`ClearCacheFiles`; `decide` and `probe` are `ShouldUseWorkerService` and
`AreAllOpStatsCached`, which looks for one file after the other; `map` is the
join of `RunMapReduce`; `reduce` and `write` are `Reduce`; `local`, `read`,
`convert`, `save` are `ProcessSession`. `legacy[r]` is the second try of
`SessionSnapshotToToolsData` after an InvalidArgument or Unimplemented status,
which runs the same local code. `work[r][h][a]` is the handler of attempt `a` of
the call for host `h`; it outlives the call.

A file is `[exists, writers, shared, data]`. `data` is the set of hosts whose
stats a reader would find; a file opened for writing is empty until its writer
closes it, a writer that dies leaves it short, and of two writers at once either
one's bytes, or a short file, may stay. A short file is either refused by the
parser or read as a smaller message. `FileExists` looks at `exists` only.

`clean[r]` is a history variable. It is true for a request that started while
nothing else was under way (and, if it does not clear, found no damaged file) and
since then met no other request, no repeated call and no crash that repeated one.

`base_op_stats_processor.cc` is the same code for the unified tools.

### WorkerPool and AdmissionControl

A job is a pair of a call and an attempt. `call[c]` is what the caller's thread
sees, `job[j]` what the worker's handler does, and they part when a connection
breaks, a deadline passes or a worker restarts. `permits[w]` is the semaphore.
`next` is the round-robin counter, which is read and incremented in one atomic
operation in the code as here. `InitializeStubs` may be called by anyone at any
time; its first call decides.

`AdmissionControl` says what a worker promises whatever its clients do.
`WorkerPool` implements it under the mapping `running[w] <- RunningAt(w)`.

### CacheVersion

A version stands for the last varying component of `major.minor.patch`;
`TextBefore` compares as Python compares the strings, so 9 is not before 10.
`cache[c]` is the version that computed the files of kind `c`. The kinds whose
suffix `ClearCacheFiles` knows are `Cleared`; the tools whose options leave
`use_saved_result` out are `Forgetful` (`memory_viewer`, `megascale_stats`). The
conversion is reduced to look up, read or compute, since `OpStatsSession` models
it in full. `Restart` kills every job and starts the same version or a newer one.
`blame` is a history variable: why, since the last complete clear, an old cache
may be counted as current.

### ToolDiscovery

`xplane[h]` is absent, partial while its host writes it, or whole. A request asks
for the tools of a run (`generate_tools_of_run`) or for its HLO modules
(`hlo_module_list_impl`), and both call the conversion that extracts modules as a
side effect. `pc[r]`: `compare` and `invalidate` are `ToolsCache.load`; `list` is
the listing of the directory; `find`, `extract` and `write` are
`ConvertMultiXSpaceToHloProto`; `names` is `GetAvailableToolNames`, which reads
one xplane only; `states`, `open` and `save` are `ToolsCache.save`; `modules` is
the second listing of `hlo_module_list_impl`. The states that the plugin compares
are modification times with sizes, here the three states of `xplane`, where one
that is partial may always have changed.

The list of tools is one of three: none, those of an xplane without HLO, those of
one with. `hlo` is the set of module files, and `NO_MODULE` is one of its names.
The tools file has writers like a session file; a mix of two writers either is one
of the two or does not parse. `rec[r].why` is a history field: why a list may not
belong to the states beside it. `late` and `stopped` are the two ways in which
module files may come to be incomplete.

### DcnStats and TraceTables

Both are caches in which the presence of one file answers for a conversion that
writes several. In `DcnStats` a file is absent, open (a writer is in it, or was cut
short in it) or whole. `dcnPc[r]` follows a request through the two lookups, the
loop over the hosts and the verdict it ends with; `dcnTodo[r]` is what is left of
the loop. In `TraceTables` a request goes through its hosts one by one
(`ProcessSession`) or in any order (`Map`, `Reduce`); `ttMadeBy` tells whose
incarnation of a table is there, because two writers may have truncated it.
`dcnClean` and `ttClean` are history variables like `clean` of `OpStatsSession`,
`dcnDamaged` and `ttDamaged` remember a writer that was cut short until a refresh
that met nobody.

### ChunkWriter and TraceLayers

`ChunkWriter` is the inside of one conversion of `TraceTables`: `cwTask[c]` is a
chunk on its way through the pool, `cwAt[w]` the chunk a writer waits for. A
`mu.Await` is an action whose guard is the awaited condition, so a missed wake-up
would be a stuck state. Nothing in it goes round in a circle; that someone can
always go on is therefore termination.

`TraceLayers` takes event after event, in the order of time, through the two passes
that decide its level. `tlSeen` and `tlTracks` are the visibility objects of both
passes, one for each level but the last. The lite implementation and the one that
keeps whole events decide alike. Times are differences to the event before.

### SmartSuggestions and ThreadSafeLazy

A profile is a record of signals in whole percent; the constant `SsProfiles` says
which ones a run considers. `ssCache` tells for each kind of tool data whether the
provider's member is unset, filled, or the empty message a failed conversion left.
The rules are those of `RegisterAllRules`, in its order.

`ThreadSafeLazy` has a step for every access to what threads share. The flag is
stored with release and loaded with acquire semantics, so the order of the program
is the order others see.

### StepIntersection, EventSpans, DerivedLine, DutyCycle

Algorithms, as state machines where the code keeps state between calls and as
functions where it does not. `StepIntersection` takes its inputs from a set: any
steps on a small grid, and windows of one run of steps seen with skewed clocks, for
which it is known what the right answer is. `EventSpans` has one step per boundary
of the sweep, `DerivedLine` one per kernel, `DutyCycle` one per interval. `parent`
in `DerivedLine` and `dcActive` in `DutyCycle` are history: the reference that the
result is compared with. The sweep itself is in `EventSweep`, which `InferenceHost`
uses as a whole.

### DcnBursts and DcnSlack

In `DcnBursts` messages arrive one by one, in any order of their times, and
`DbGenerateBursts` is the whole of `GenerateBursts`: the host's map and that of each
core and collective become bursts, and `QualifyCollectives` chooses lines. The state
of `CreateBursts` is the record that `DbTimestamp` folds over the timestamps; its
ring outlives a burst, as `active_burst_.stragglers` does. The hash map whose order
decides which of several equal collectives come first is a choice of any set it can
lead to.

`DcnSlack` has an action for each operation of a core's line (`VisitOp` with
`UpdateActiveOps`), one for each event of the host (`VisitHostEvent` with
`DcnHostEventList::insert`), and `SlSummarize`, which hands the events out. The
operations of a core follow one another, and the compiler orders a done after its
start and the recv-done after the send; a trace may begin inside an occurrence.
`slTrace` is the line itself, with which the analyses are compared.

### MemoryProfile and HeapSimulator

The allocator of `MemoryProfile` is external: an address is allocated when it is free
and freed when it is in use, each event carries the use after it, and some memory may
be in use before. `MpConvert` is `ProcessMemoryProfileProto`, step after step: sort,
mend the step ids, match the deallocations, sample the timeline, break the peak down.
Steps may overlap on several threads; what is claimed of the rows is claimed only
where the mended ids follow one another in time.

`HeapSimulator` has an action for each kind of event. `hsRef` counts at the root of a
chain of sharers, `hsCanonical` is the chain. The trace may free too often, which is
an error of the result, and share with a buffer that was freed. A sharer is no larger
than what it shares (the compiler's part). Positions count from 0 as in the code.

### OpMetricsDb, HostOpMetrics, DeviceOpMetrics, TpuOpMetrics

A database is a function from keys (HLO module and name) to metrics, with the op time
and the total beside it; `Minus` and `Plus` wrap around as the unsigned integers of the
code do, at `OmWord`, so a difference that goes wrong shows as a huge time.
`OpMetricsDb` has the operators, the three others the programs that fill a database.

`HostOpMetrics` grows the lines of a host event by event and converts a line in one
step, as `ConvertHostThreadsXLineToTfMetricsDbData` does: activities, the stable sort,
the fold of `HoProcess` over them with its stack. `DeviceOpMetrics` has a step for each
event, since the tracker is the state between events; `doEvents` is history.
`TpuOpMetrics` goes through the sparse core first and the tensor core afterwards, like
the caller. The ancestor stack of tsl is external: it is modelled from its use. The key
of a module of the sparse core is one id instead of a pair.

### StepEvents, StepDb, TpuSteps, InputPipeline

A step is a group of events. `StepDb` has an action for each stream of a GPU (in order on
a device, in any order between devices, since each device has a pool thread), one for its
markers, one for each thread of the host, the join of the devices and the conversion into
the database. A host's thread is read with the stack on which it is decided which stage of
the input pipeline is the root. `TpuSteps` converts the cores in any order, each with the
ancestor stack of `OpMetricsDb`, joins them by intersection, gives every core its op times
and its idle time, and takes the input that the host waited for out of the idle time
(`TsFix`). A constant gives the traces; `tsFound` is history, the database before that.
`InputPipeline` runs on either when it is done: the shares of the time, the verdict, and
how the host's own time for the input is divided. A percentage is compared with its
threshold by multiplying, and the host's times have a common denominator. How the names of
ops are sorted into categories is given with the input.

### FlameChart

`FcAddEvent`, `FcAddMark` and `FcAddCounter` build what was parsed, in any order that
the stable sorts tell apart; `FcProcess` is `ProcessTraceEvents`. Metadata are
constants. Names are numbers, in the order in which they are sorted, and `priority`
stands for the names that make a process asynchronous (`Async XLA Ops`, DMA). The sort
in `PackTraceEvents` is not stable: of equal events either may come first, which the
properties do not tell apart.

### InferenceHost and InferenceStats

`InferenceHost` is `GenerateInferenceStats`, one action for each pass over the events of
a host: `ihRequests` and `ihBatches` are the two maps that the passes fill in, and an
order that comes from iterating a hash map is a choice of any. A constant gives the
traces: events with type, group, begin and end, the modules of the device, and which
request was split into which batch. Only TPUs are modelled, because the one caller
passes `kTpu`. `InferenceStats` has a thread for each host, whose result is a constant
too, the combination host by host, one step for each pop of the n-way merge's heap,
and the sampling. Percentiles are compared as fractions, as whole numbers.

### TraceViewerClient

The page (`tvUrl`, `tvPromise`) and the timeline (`tvVisible`, `tvLast`,
`tvLoading`, `tvSpan`) are two programs that call each other: `main.ts` and a
WebAssembly module. `tvCalls[i].at` is where a call is: on its way, or answered and
yielding to the browser before the answer is processed. `tvHeld` is the range that
was really given to the timeline, beside `tvLast`, the one the timeline believes it
has; `tvFailed` is history. Times are on a grid that contains every range that the
code makes of the viewports in `TvViews`.

## 3. Runs

| run | instance | states | shows |
|---|---|---|---|
| `op_stats_session` | 2 hosts, 2 requests, 2 attempts, 1 fault | 1.3 M | undisturbed requests are complete and fail for a reason; no host is reduced away; only a refresh deletes |
| `op_stats_overlap` | 3 hosts, 2 requests for any two of them, 1 fault | 0.6 M | a computed answer has hosts of its own selection only |
| `op_stats_liveness` | 2 hosts, 1 request, 3 attempts, 3 faults | 0.14 M | every request ends |
| `op_stats_subset` | 2 hosts, no fault | violation | a request for one host is answered with other hosts' stats |
| `worker_pool` | 3 calls, 2 workers, 1 permit, 2 attempts, 2 faults | 0.4 M | permits balance, answers stay, admission is implemented |
| `worker_pool_liveness` | 2 calls, as above | 29 k | calls return and queues drain without deadlines |
| `cache_version` | 3 jobs, 3 tools, versions 8, 9, 10, 1 fault | 1.9 M | old caches are marked, or served, for the named causes only |
| `cache_version_refresh` | 2 jobs, versions 8, 9 | violation | the version is written over an old cache |
| `tool_discovery` | 2 hosts (one without HLO, one with 2 modules), 2 requests, 2 faults | 2.4 M | accepted lists and module files are right, or have a cause |
| `tool_discovery_late` | as `tool_discovery`, no fault | violation | modules of a later xplane never get a file |
| `tools` | the twenty-four modules of the second group, side by side | 1.1 M | undisturbed requests for derived files are answered rightly; suggestions are true; the algorithms and converters agree with their definitions; the page shows what was asked for |
| `trace_viewer_buffer` | 1 trace, 3 calls | violation | the viewport is on a part of the trace that was never loaded, and nothing is asked for |

Why the bounds are enough. Every hazard of the session needs two writers or a
writer and a reader of one file, so two requests suffice; a third host is needed
only to make selections overlap without being equal, which `op_stats_overlap`
does. One fault is enough to leave one damaged file, one lost answer or one
failed host; the properties about damage then need a second, undisturbed request.
In the pool, three calls are one more than two workers with one permit can hold,
and two faults can abandon both handlers of one call. Three versions contain a
numeric upgrade and one that adds a digit; three jobs are two that interleave and
one that suffers. For the tools file, one request that saves and one that loads
meet, and the theorem `AcceptedLists` covers any number of them; two modules are enough to stop between them, and a host
without any makes `NO_MODULE` appear. Counters that grow without bound in the code (`next`) are
bounded by the number of calls; faults are bounded by `MaxFaults`, versions by
`Versions`.

In `tools` no two of the modules share a variable: `part` says whose steps a
behaviour takes, so the state spaces add up. The instances, module by module.
`DcnStats` has 2 hosts, 2 requests and 2 faults, so a verdict can be found that one
request began and another request, a crash and a refresh have met. `TraceTables` has
1 host, since tables of different hosts do not meet, 2 requests and 1 fault.
`SmartSuggestions` takes each signal below, at and above the thresholds that the
rules compare it with, and 2 failures, one for each conversion or one before and
one after a condition. 3 threads meet in `ThreadSafeLazy`: one that initializes, one
that waits, one that comes by the flag. `StepIntersection` takes all sequences of up
to 3 spans for 2 hosts and up to 2 for 3 hosts, and 3 hosts with windows of a run.
`EventSpans` takes up to 3 events of 3 types between 4 times: inside, across,
touching, equal. `DerivedLine` has 3 kernels, so that a stack can grow, close and be
followed; `TraceLayers` 4 events on 3 rows and 3 levels, so that an event can be
hidden by one that was hidden itself at a coarser level; `ChunkWriter` 4 chunks, a
window of 2 and 2 threads, so that both writers outrun the window; `DutyCycle` all
spans up to time 3. `DcnBursts` takes 3 messages of 3 collectives on 2 cores between 4
times, a ring of 2 and 3 lines of which one is kept free, with thresholds of 30 and 60
percent, so that a burst can follow a longer one and each reason to refuse a line
occurs. `DcnSlack` has 7 operations of one collective, so that a second occurrence
begins inside the window of the first's analysis, beside 3 of another, and 2 host events
for one of them; the host's events are added only where the other collective has no
operations, since their lists are apart. `MemoryProfile` has 4 events on 2 threads, in a
step or none, with some memory in use before; `HeapSimulator` 4 buffers and 6 events, so
that memory is freed, shared again, and freed by the last of a chain. `HostOpMetrics` has 3
events on up to 3 lines between 4 times, of one op or of two with the same span: all ways
for 3 spans, empty ones among them, to nest, touch, overlap and cross. `DeviceOpMetrics`
has 3 kernels in 2 lines out of 8 kinds, enough to gather two and be interrupted by any
third; `TpuOpMetrics` 3 ops on both cores together, with one module or two that run
apart. `OmWord` is 1024: no time of these instances comes near it, and a negative
difference lands far from all of them. `FlameChart` has 3 events of 9 kinds on threads
of 3 processes, 2 flow events of 3 kinds, which may be on threads without events, and a
counter. `InferenceHost` has two families
of traces. In one, 2 requests are split into 2 batches in each of 16 ways, the batches
run in either order and for any models, and tensors are in a request and in both
batches. In the other, a request launches once or twice with or without a completion
callback, transfers data by a flow of two events, and beside it are a root that the user
defined, over two batches, and runs inside batches that are no requests.
`InferenceStats` has 3 or 4 hosts whose lists interleave and tie, so that the merge has a
heap, loses sources and ends with two; 2 hosts with each order of 2 models and 2
patterns; up to 10 batches to sample from two ranges of which the second is next to the
first; one host may fail. `StepDb` has two threads with up to 3 stages inside, beside and
started by one another and a second step; two GPUs with up to 2 streams, 5 types of
kernels and markers that cover, cut or lack a step; and one with 4 to 7 steps around the
threshold of `SdEnough`, which is 5 as in the code. `TpuSteps` has one core with ops of
4 categories nested or apart, two cores of which the second may be sparse, and three
cores with any steps out of 3; the host waited for none, a part, or more than the idle
time. `InputPipeline` sees each of these with 5 hosts: without ops of the input, with
and without an infeed, and with ops that only prepare. `TraceViewerClient` has 2 traces and an upload, and 3 calls: one
to become stale, one to be answered before it, one that the answer triggers.

Deadlock is not checked: every request, call and job is used once, and a run that
has used all of them stops.

Symmetry is used in safety runs only, over sets whose members no definition tells
apart. `MCCacheVersion` and `MCToolDiscovery` also use a view that forgets the
local variables of jobs that have ended, which nothing reads.

### Fairness

`OpStatsSession`: weak fairness of each step of a request, whose thread is
scheduled, and of the failure of a pending call, which its 1800 s timeout
guarantees. Nothing is assumed of workers. Without the timeout the property
fails (the mutant of that run).

`WorkerPool`: weak fairness of each handler (threads are scheduled, `Map` returns)
and of `Retry` (the backoff ends). Nothing is assumed of deadlines, so the run
shows that the semaphore alone lets every queue drain. Weak fairness of one
waiter suffices only because finitely many calls compete with it.

## 4. What the runs found

- `op_stats_subset`: the combined cache is keyed by `ALL_HOSTS` whatever hosts
  filled it (`convert/multi_xplanes_to_op_stats.cc:128`), so a request for one
  host fills it with that host, and the next request is answered from it for any
  selection. The docstring of `data_impl` (`plugin/profile_plugin.py:1199`) says
  "Retrieves and processes the tool data for a run and a host."
- `cache_version_refresh`: the options of `memory_viewer` and `megascale_stats`
  leave `use_saved_result` out (`plugin/convert/raw_to_tool_data.py:215`), so an
  outdated cache is not cleared, but `data_impl` writes the new version all the
  same (`plugin/profile_plugin.py:1345`) and every later request trusts it. The
  comment at `plugin/profile_plugin.py:1244` says that the cache is cleared.
- `tool_discovery_late`: any `*.hlo_proto.pb` stops the extraction of modules
  (`convert/xplane_to_hlo.cc:195`), although it says only that some listing was
  extracted. After `NO_MODULE`, or the modules of the first hosts, the modules of
  an xplane that arrives later never get a file, and no refresh deletes these
  files. The comment at `:192` reads the file as "already generated".
- `AcceptedListHasCause` names two causes that the code has: `save` takes the
  states after the list was computed from an earlier listing
  (`plugin/profile_plugin.py:552`), and a failed conversion is saved as a list of
  no tools (`plugin/convert/raw_to_tool_data.py:94`).
- The property `OldCacheMarkedHasCause` names two more causes that the code has:
  the background task writes the version before it converts, and never clears
  (`:1898`), and the text order of versions (`:1251`).

- `trace_viewer_buffer`: a fetch for a viewport asks for 3 times its width and hands
  that range to the timeline (`main.ts:994`), which scales it by the same ratio again
  (`timeline.cc:3741`) and takes the result for what it has. So up to 9 viewports
  count as loaded while 3 are. The comment at `timeline.cc:3766` calls the range "The
  time range covered by data currently" loaded.
- Some properties say exactly how far the code goes. `SsReportIsRight` holds of suggestions
  although the provider keeps the empty message of a failed conversion as if it were
  data, because no rule fires on it. `TvCanAskAgain` has to exclude failures: a
  failed fetch leaves `is_incremental_loading_` set until the page is loaded anew.
  `DlLevelsNest` has to exclude kernels of a few nanoseconds,
  which are too short to be shrunk one nanosecond per level; the proof showed that
  such a kernel need not touch the event as it is drawn, since the shrink comes after it. `MemoryIsExplained`
  claims all rows of the step only if the peak is reached once: the peak's time is the
  last one line by line, its step that of the last one by time
  (`convert/xplane_to_memory_profile.cc:73`, `:239`). `CollectivesAreMeasured` lets a
  collective be hidden by an equal one, because the lines are given out in the order of
  a hash map (`convert/dcn_analysis.cc:230`). Of the heap, `MemoryIsExplained` gives a span only to the
  buffers that took memory into use: one that shares memory still in use has none of
  its own, and the span of the buffer it shares ends when that memory is given back.
- `OpTimesAreMeasured` says what an op database can be trusted for. On a host the self
  times are right if inner ops end *before* the outer ones: of two ops that end together
  the outer one's end comes first in the stable sort, `OpStack::Pop` throws the inner one
  away, and the end of the inner one then empties the whole stack, so that the ops around
  both are lost too (`convert/op_stack.h:41`, `convert/xplane_to_op_metrics_db.cc:120`).
  An event with a `tf_op` stat beside its own name is such a pair by itself. On a GPU the
  tracker compares the name and the group of a kernel but not its program
  (`convert/xplane_to_op_metrics_db.cc:536`), so kernels of two programs in one group are
  entered under the first. On a TPU, an op that begins exactly when its module does is
  left out if another module ends just then (`:447`), and of the occurrences of an op only
  the first keeps the ops it offloaded (`xprof/utils/op_metrics_db_utils.cc:287`).
- `FcLayoutIsTrue` excludes two cases from its claims. The events of an asynchronous track
  come thread by thread, not by time, so the branch of `BuildTree` that is called
  unreachable (`trace_helper/trace_event_tree.cc:36`) is reached and self times of such
  tracks are wrong. And of a process that is shown by names, a thread with flow events or
  asynchronous events only gets no track, so flow lines to it are left out, although
  `timeline/data_provider.cc:1025` registers it "so that thread tracks are created".
- `InferenceIsRight` says what can be trusted of the inference profile, and leaves out
  what cannot. The delay of a request and the extension of its end are taken from the
  batch with the least id, not the earliest and the latest, because
  `GenerateRequestAndBatchDelay` compares `has_start_time_ps()` and `has_end_time_ps()`,
  which are always true, instead of the times (`convert/inference_stats.cc:926`). A
  request that executes and launches twice has an empty span for its runtime, because
  the last execution but the first launch of a group are kept (`:143`, `:147`); an empty
  span's end sorts before its begin, and the sweep then keeps that type on top although
  nothing of it is active (`xprof/utils/event_span.cc:51`). Requests get the indices of
  the combined models, batches keep those of their host
  (`convert/inference_stats_combiner.cc:131`), so the batches of a second host may be
  listed under another model; and batches without tensors are given a first pattern
  (`:166`), which is then counted. Batches of two hosts with one id are mixed up in the
  aggregation by size (`convert/inference_stats_grouping.cc:342`).
- `StepsAreRight` says what can be trusted of the steps. Of the
  streams of a GPU only the first keeps its collectives of a step, because
  `StepDetails::Combine` inserts into a map by core (`xprof/utils/event_span.cc:388`), and
  a collective ends on the clock of its stream but begins on that of the profile
  (`convert/xplane_to_step_events.cc:51`). When two cores have no step in common, the
  empty intersection is taken for no intersection yet, and the third core's steps are
  copied (`event_span.cc:237`), so what is claimed of three cores is claimed where they
  share a step. A step of a TPU without a marker is in the database, empty; a step of a
  host that waits for input all the time is not, unless something computes in it. The idle
  time of a TPU's step is computed before its all-reduce is known
  (`convert/op_stats_to_input_pipeline_analysis.cc:1113`, `:1121`), and `StepTimeMs` adds
  the all-reduce to the computation that contains it, so the total that shares are taken
  of is the steps' time only without all-reduce: its part `IpVerdictIsRight` claims it there.
- Seen while reading and not part of a property: the mean of recv durations is divided
  by 1E6 once more than the others (`convert/xspace_to_dcn_slack_analysis.cc:387`).

## 5. Proofs

All theorems hold for every value of the constants under the named assumptions
(`SessionAssumption`, `PoolAssumption`, `CacheAssumption`, `DiscoveryAssumption`,
`DcnAssumption`, `LzAssumption`, `CwAssumption`, `TtAssumption`, `TvAssumption`,
`TlAssumption`, `SsAssumption`, `DcAssumption`, `SiAssumption`, `HsAssumption`,
`DlAssumption`), which say no more than the types of the constants,
that there is a host, that `ALL_HOSTS` and `NO_HOST` are none and `NO_MODULE` is not a
module, that calls are finitely many, that a pool has a thread and a window a chunk, that a span ends no sooner than it begins,
that a counter's event has no length and no flow, that a logical buffer has at least one byte,
that a kernel takes some time, and that nests of names are finitely many and none is empty. The resolutions of the levels
may be in any order: nothing that is proved needs them to fall.

| theorem | says |
|---|---|
| `OpStatsSession_proofs!Typing` | `Spec => []TypeOK` |
| `OpStatsSession_proofs!OwnHosts` | `Spec => []ComputedFromOwnHosts` |
| `OpStatsSession_proofs!EveryHostMapped` | `Spec => []ReduceHasEveryHost` |
| `OpStatsSession_proofs!SavedResultsSurvive` | `Spec => OnlyRefreshDeletes` |
| `OpStatsSession_proofs!SessionSafety` | `Spec => []SessionInv`, who may touch which file when |
| `OpStatsSession_proofs!UndisturbedSafety` | `Spec => []UndisturbedInv`, what a clean request rules out |
| `OpStatsSession_proofs!AnswerComplete` | `Spec => []UndisturbedAnswerIsComplete` |
| `OpStatsSession_proofs!ErrorHasCause` | `Spec => []UndisturbedErrorHasCause` |
| `WorkerPool_proofs!PoolTyping` | `Spec => []TypeOK` |
| `WorkerPool_proofs!NoPermitLeaks` | `Spec => []PermitsBalanced` |
| `WorkerPool_proofs!AdmissionImplemented` | `Spec => AdmissionSpec`, the refinement |
| `WorkerPool_proofs!ReturnsOnce` | `Spec => ReturnedOnce` |
| `CacheVersion_proofs!CacheTyping` | `Spec => []TypeOK` |
| `CacheVersion_proofs!MarkedCachesAreCurrent` | `Spec => []OldCacheMarkedHasCause` |
| `CacheVersion_proofs!AnswersAreCurrent` | `Spec => OldAnswerHasCause` |
| `ToolDiscovery_proofs!Typing` | `Spec => []TypeOK` |
| `ToolDiscovery_proofs!AcceptedLists` | `Spec => AcceptedListHasCause` |
| `ToolDiscovery_proofs!ModuleFiles` | `Spec => []ModulesCompleteOrCause` |
| `DcnStats_proofs!DcnVerdictIsTrue` | `DcnSpec => []DcnOneVerdict` |
| `DcnStats_proofs!DcnAnswerIsTrue` | `DcnSpec => []DcnUndisturbedAnswer` |
| `DcnStats_proofs!ReportIsRight` | `SsSpec => []SsReportIsRight` |
| `ThreadSafeLazy_proofs!LzOneValue` | `LzSpec => []LzEveryGetIsTheSame` |
| `TraceViewer_proofs!CwTablesAgree` | `CwSpec => []CwBothTablesOrError` |
| `TraceViewer_proofs!CwNoDeadlock` | `CwSpec => []CwSomeoneGoesOn` |
| `TraceViewer_proofs!UndisturbedTraceIsWhole` | `TtSpec => []TtUndisturbedAnswer` |
| `TraceViewer_proofs!ShowsTheLastAsked` | `TvSpec => []TvShowsTheLastAsked` |
| `TraceViewer_proofs!CanAskAgain` | `TvSpec => []TvCanAskAgain` |
| `TraceViewer_proofs!LevelsAreFaithful` | `TlSpec => []TlLevelsAreFaithful` |
| `Converters_proofs!StepTyping` | `SiSpec => []SiTypeOK` |
| `Converters_proofs!StepsExist` | `SiSpec => []SiStepsExist` |
| `Converters_proofs!DutySafety` | `DcSpec => []DcInv`, spans sorted and apart |
| `Converters_proofs!ActiveIsMeasured` | `DcSpec => []DcActiveIsMeasured` |
| `Converters_proofs!ReplaySafety` | `HsSpec => []HsInv`, counts and sizes of chains |
| `Converters_proofs!PeakIsReal` | `HsSpec => []HsPeakIsReal` |
| `Converters_proofs!LinesSafety` | `DlSpec => []DlInv`, the stack of each line and what a cut costs |
| `Converters_proofs!LevelsNest` | `DlSpec => []DlLevelsNest` |
| `Converters_proofs!LinesTyping` | `DlSpec => []DlTypeOK`, no event shrinks to nothing |

The arguments.

`SafetyInv` (session): a host's file holds that host or nothing, whoever wrote it
and whatever was left of it; therefore what `Reduce` gathers from the files of
the selected hosts is within the selection. The selection itself says nothing
about the files, so the property alone is not inductive. That every call is `ok`
when `Reduce` runs is kept because a response reaches a pending call only.

`SessionInv` and `UndisturbedInv` (session): the two properties of undisturbed requests
speak of an answer or an error, and nothing in such a state tells how it came about.
So the invariant follows a clean request through all its control points: it is in
first attempts only; while it runs no other request is running or at work, no
file is shared, and every open file is one that it, or one of its own Map
handlers, opened; before the clear nothing is known of the files, during it the files
still to be deleted are all there are, and after it no file is damaged; a call that
returned `ok` has left its file whole; what `Reduce` has gathered is what it has read.
That needs in turn, of *every* request, clean or not, that no work belongs to an
attempt that was not sent, that a request has no work before it has scattered, that
whoever writes a file is at work on it, and that a file two have opened is marked so.
This is `SessionInv`, which is inductive by itself, and `UndisturbedInv` relative
to it. A failing step is what makes the second property delicate: an error counts as
caused if a fault was injected or a call returned one, and the proof shows that reading
and combining one's own files never fails otherwise.

`PoolInv` (workers): besides the balance, that a sent job has a worker and that
the attempt a channel waits for is the last one sent. The proof first reduces
every action to one of four effects on one worker (nothing, take, give back,
reset) and then shows that each keeps the balance, with the cardinality lemmas of
`FiniteSetTheorems`. The same four effects are the steps of `AdmissionControl`.
`ReturnedOnce` is an action property: whatever changes a call is guarded by its being
pending, for a channel also by the attempt being the last one sent.

`CacheInv` (version): while the plugin runs, no step makes an old cache, because
whatever computes a file computes it with the running version. So what a job has
made sure of (it listed every old file; it deleted them all; it found the version
file current) stays true however the others interleave, until a restart, which
kills the job.

`ListInv` (tools file): the property speaks of the moment a list is accepted, the
invariant of where it came from: what the file holds, what a request has loaded,
and what it is about to save are all lists of their own states. The key is that
xplanes only grow, so the states that a request listed are behind the present
ones, and if they are equal when it saves, nothing moved in between.

`ModulesInv` (module files): the property speaks of a quiet moment with some file. The
invariant says how far each extraction is. Unless an xplane came late, one that has
listed the xplanes has all complete ones listed; while it reads, each complete one is
still to be read or its modules are found; when it writes, all modules are found,
and what is found is in a file or still to be written. `NO_MODULE` is written only if
nothing is found. Then, once there is a file, either all are there or a writer is at
work, or one was stopped, which is the property without its premise.

`DcnIInv` (DCN): the hosts a conversion has been through had events, so it writes
`ALL_HOSTS` only when all have and `NO_HOST` only when one has not; that alone gives
the verdict. For the answer: unless a writer was cut short, an open file has a
writer, and the files that a verdict or a conversion stands for are there. A clean
request is the only active one, so no file is open but its own.

`SsInv` (smart suggestions): the provider's cache tells which data are real, and no rule
fires on the signals of an empty message (ten cases, one per rule). So a rule whose
conditions are met has met them on real data, or none it needed was empty; it then has
nothing left to convert, so `GenerateSuggestion` cannot fail; and while there was no
failure there is no empty message, so a rule that did not fire is not true. The
property says nothing of a rule between its two phases, so it needs this invariant.

`LzIInv` (lazy value): the thread between `lock` and `unlock` is the one that holds
the mutex, and the flag, the value, the initializer and the count of its runs are
functions of where that thread is.

`CwIInv` (chunks): chunks are handed out in order, up to `cwNext`; a writer is never
ahead of them; a failed or skipped chunk, and a writer that gave up, have an error
recorded. If nobody could go on, the writer of the events would wait for a chunk
that it has not handed out itself, which is more than a window ahead of it.

`TablesInv` and `TtUndisturbedInv` (trace tables): unless a writer was cut short, a
host's tables are made in order, an open table has the one maker that is at it, a
missing one is the next that somebody makes, and where a maker is follows from which
tables are whole. A clean request is the only active one, so it finds a host with all
tables or with none, and leaves it with all. Where two requests make the same tables,
neither is clean, and nothing is claimed.

`TvServed` (browser): unless a call failed, either the page shows what was asked for
last and may ask again, or some call for it is still under way. A call is dropped only
when another URL was asked for after it started, so the last one asked for keeps a
call that will be processed. Both properties are `TvServed` when all calls have ended.

`LayersInv` (levels): events come in the order of time. Of each level and row, every
remembered end is the end of an event that the level shows; hence an event is left
out only behind such a one. The level of a flow is decided by its first event and not
changed until its last, and a later event gets the first level that shows the flow or
for which it is long enough, so no level that shows the first loses it. That
a first level exists, for any number of levels, follows from `<` being well-founded.

`DcInv` (duty cycle): the spans of a tracker are sorted, no two even touch, together they
cover just the units of time at which its ops were active, and these lie in its total.
The property speaks of a sum only and is not inductive: a sum can be right of spans that
overlap and leave gaps, and the next merge then spoils it. That a merge keeps it needs
that the search starts early enough: `lower_bound` and one back, and in a union the
place of the span before, which holds because the other tracker's spans are sorted too.
From `DcInv` to the property: a sum over a finite set, folded in whatever order, has
one solution only, and cardinality of disjoint unions is one. Both this and that the
union visits every span go by the least number that violates the claim, as there is no
induction rule to cite.

`SiInv` (step intersection): the alignment of each host lies within its own steps and
begins within the chief's, so what is left after the last begin and before the first end
exists everywhere. What makes this a proof is that there *is* a best offset:
`FindBestOffset` compares sums, so the sums must be numbers, so the pairs that
`CalculateSimilarities` compares must be finitely many, within both sequences. The lemmas
build up to it: the recursion of the loop has a solution and no solution leaves the two
sequences (each place goes on to one nearer to the end); a sum of natural numbers over
a finite set exists; and of finitely many offsets one is not bettered. That the offset is
the *right* one for hosts of one run (`SiSameSteps`) stays with TLC.

`HsInv` (memory viewer): a buffer that shares hangs below one that had started, so that
every buffer has one root, and starting another changes nobody's root but its own; with
an order on the buffers by the event that started them this needs no bound on the chain.
The reference count of a root is then the takes less the frees of all the events of its
chain, by the trace alone, and a root is among the live buffers, once, just while its
count is positive. The running size is the sum over these roots: a sum over a finite set
has one value in whatever order it is folded, so an event adds or removes one summand.
With it the chart after each event is the use after that event; the peak is kept with
its place, is no smaller than any size so far and larger than all before its place.
`HsPeakIsReal` also says *when* the replay fails: a free that takes the count of the
root below zero is the only error, beside traces over several allocations.

`DlInv` (derived lines): the last events of the levels are a stack, each under the one
above it, and all of them end with the last kernel, so that none sticks out. A closed
event below an open one need not lie within the parent as it is now, because the
nanoseconds it loses are not those the parent will lose; but it was closed by a kernel
that then extended the parent (`DlOutgrown`), and this kernel is long enough, or the
property names it. When both are closed together, a deeper event loses no less than one
above it, and more than its parent if they had one span, unless the topmost has no
nanosecond left to give (`DlSettled`). An event loses fewer nanoseconds than it has levels above
it, so a kernel is still found there; and as all of the stack end together, none is shorter
than the topmost, which keeps a nanosecond, so none shrinks to nothing (`LinesTyping`). The invariant has a parameter for the level that
the kernel has reached, so it holds between the levels of `ExpandOrAddEvents`, and one
for where the line begins: with the module line, or without. Its two loops, the
shrinks and the levels of a path, go by a least counterexample.

The invariants were first checked with TLC, on the instances of section 3 or smaller ones
(`SessionInv` and `UndisturbedInv` on the 1.3 M and 0.6 M states of the two session
runs, `ModulesInv` on 2.4 M, `LayersInv` on 0.18 M, `TvServed` on 61 k, `SsInv` on 13 k,
`SiInv` on 69 k, `DlInv` on 63 k and, with other nests and gaps, 0.2 M,
`HsInv` on 44 k, `DcInv` on 2.0 M with all spans over four units of time;
`TablesInv` and `TtUndisturbedInv` on 14 M states of an instance that is too large to
be exhausted). An invariant implies the property that the run checks, so the runs
check the properties only.

Only model-checked, and why:

- `EveryRequestAnswered`, `CallsReturn`, `QueueDrains`: liveness under fairness, which
  needs `ENABLED`, is out of the prover's reach.
- `StepsAreRight`, `CollectivesAreMeasured`, `MemoryIsExplained`,
  `OpTimesAreMeasured`, `FcLayoutIsTrue`, `InferenceIsRight`: each compares a computed sequence, sum, maximum
  or tree with a definition over the same data. The definitions are sums, folds and
  recursive functions; what these yield for every input follows by induction over
  data, and the library's induction theorems take an operator that the
  provers cannot instantiate. The way taken for `DutyCycle`,
  `StepIntersection`, `HeapSimulator` and `DerivedLine`, a least counterexample written
  out for each recursion, is open for them and not taken yet.
- `ToolsTypeOK`, which is the type invariants of all tools together. Those of the tools
  with a theorem (`DcnTypeOK`, `TtTypeOK`, `TvTypeOK`, `TlTypeOK`, `SsTypeOK`,
  `SiTypeOK`, `DlTypeOK`, and the types in `LzIInv`, `CwIInv` and `DcInv`) are proved;
  `HsTypeOK` and those of the other converters rest on the functions above.

## 6. Not modelled

- Google Cloud Storage, where a write is atomic: the models have the harder local
  case. Reading of xplanes is assumed to give the same data each time.
- A crash of the aggregator in `OpStatsSession` (`CacheVersion` has it).
- A plugin of an older version after a newer one, and two plugins of different
  versions on one directory at once.
- Message sizes, credentials, compression, keepalive intervals: a broken
  connection is one event.
- What the tools compute from the combined stats, but for the input pipeline analysis,
  and all rendering. TLC has no floating point, and these functions keep no state.
- Of the trace viewer: search, filters, the JSON of an answer and its delta encoding;
  in the browser, rendering, and times between the points of the grid.
- Of the step events: sizes of transfers, and flat op metrics. Of the input pipeline
  analysis: the first generation of SparseCore, averages and deviations, how the names
  of ops give their category, and the tables. Of the derived lines: host offload, launch
  and step lines.
- Of the memory viewer: the choice of the trace by memory color, the drawing of the
  allocation timeline (`ConvertAllocationTimeline`), and the sizes without padding,
  which take the same way as the padded ones. Of the memory profile: the HLO modules
  beside it. Of the DCN tools: sizes in bytes, averages, and the text of the lines.
- Inference stats: the parameters of the batching library, throughputs, the columns of
  the tables and the order of their names; `tpu_counter_ids_*.h` and the utilization
  formulas over them are tables of numbers.
- The profiler service of the profiled program (capture), and vendored code.

## 7. Plan

What is left, most important first.

1. Proofs: with the lemmas of `Converters_proofs` about sums and recursions, first
   the spans of `HeapSimulator`. That the sweep charges the highest type, and the
   layout of the chart, wait for a sort the prover can reason about: both are written
   with `SortSeq`, which tlapm takes for a primitive and does not expand.
2. Conversions that keep a table while they read a trace: the rest of the
   derived lines, the merges of `op_stats_combiner.cc`.
3. The remaining routes of the plugin, and Google Cloud Storage with its atomic
   writes and its listing that may lag.
