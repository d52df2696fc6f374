# MultiProtocolGateway in TLA+

TLA+ models of MultiProtocolGateway: a Python process that reads inverters,
batteries and meters over Modbus, serial or CAN ("scrapers") and forwards what
it reads to MQTT, TimescaleDB, InfluxDB and other outputs ("bridges"), and that
can be reconfigured from a web UI or by editing `config.cfg` while it runs.
Paths below are relative to `src/`; `PG` is `protocol_gateway.py`, `TS` is
`classes/transports/timescaledb.py`, `MB` is `classes/transports/modbus_base.py`,
`TB` is `classes/transports/transport_base.py`, `PS` is
`classes/protocol_settings.py`, `WS` is `classes/WebServer`. Other file names
are those of `classes/transports`, and `timescaledb.md` is
`documentation/bridges/TimeScaleDB/timescaledb.md`.

1. Inventory
2. The modules and the code
3. The runs
4. The proofs
5. Disagreements between the code and what is said of it
6. What is only model-checked, and what is not modelled
7. Plan

## 1. Inventory

### Parts, their state and how they meet

| Part | State it keeps | Operations | Talks to | Module |
|---|---|---|---|---|
| `GatewayManager` (PG 1948-2236) | current gateway, hash of the loaded file, last status, one lock | `start`, `reload`, `_fallback`, `stop` | builds and stops `Protocol_Gateway`; reads `config.cfg` and backup rows | `GatewayManager` |
| `Protocol_Gateway` (PG 700-1946) | `__running`, `__stopped_event`, pools, transports | `__init__`, `run`, `stop`, `on_message` | owns the transports, runs the loop on its own thread | `GatewayLifecycle` |
| Scrape scheduler (PG 880-1850) | `last_read_time`, `_member_last_forward`, futures, interleaved cycle states | ready groups, three read modes, timeouts, routing | calls scrapers on worker threads, bridges on the loop or a worker | `ScrapeScheduler` |
| Register reads (MB 157-213, 2950-3319) | failure trackers, retries, cycle verdict | two read paths, disabling of ranges | the device | `RegisterReads` |
| Register map (PS) | entries per registry type, next read times | load, join, filter, plan ranges, decode | map files, overrides, filter files | `RegisterMap` |
| Register writes (MB 560-860, 1597-1640, 2593-2870) | port locks, the device's registers | `write_data`, `write_variable` | the device, siblings on the port | `RegisterWrites` |
| Device start-up (MB 1217-1460, `classes/discovery`) | anchors, dynamic rows, write permission | connect, discover, identify, reload | the device | `DeviceStartup`, `Eg4Identity` |
| Serial sections (`serial_*.py`) | shared clients, port locks, pending frames | open, ask, listen, release | devices of one wire | `SerialBus` |
| `transport_base` (TB) | `_connected`, notices, marker files, `_cycle_result`, `_partial_info` | connected setter, cycle tracking, routed reads | message handlers; bridges that ask for a reconnect | `ConnectionNotices`, `StaleWatch` |
| `timescaledb` bridge, write path | flush queue, worker, reconnect thread, refresh loop, registered protocols | `write_data`, flush, reconnect, rediscover, refresh | PostgreSQL; the backlog journal | `FlushPipeline` |
| Backlog journal (TS 3385-3700) | SQLite rows, in-memory copies, in-flight and acknowledged rows | load, enqueue, replay, ack, release, commit | a file that outlives bridge and process | `Backlog` |
| `timescaledb` bridge, schema | wide tables, `metric_catalog`, views and their refresh list, compression jobs, retune timers | register, set up, rebuild, refresh, retune, compress | PostgreSQL; admins through the web server | `WideSchema`, `Rollups`, `CompressionJobs`, `DynamicSizing` |
| `influxdb_out`, `influxdb3_out` | batch, backlog file, reconnect | batch, flush, close | InfluxDB | `InfluxBatch` |
| `mqtt` | client, reconnect thread, write topics, discovery | callbacks, `write_data` | broker; writes back to scrapers | `MqttLink`, `MqttCommands` |
| `prometheus_out`, `json_out` | counters, last values | `write_data`, sweeps | HTTP scrape, a file | `PrometheusExport` |
| Web server: settings and selections (WS) | staging database, sessions, file watcher timer | scan, stage, commit, discard, rollback, reload | `config.cfg`, filter files, `GatewayManager.reload` | `ConfigStaging`, `MetricSelections` |
| Web server: database edits (WS) | staged edits in memory, uploads | preview, stage, commit, export, import | the bridges' databases | `AdminEdits`, `ValueEdits`, `TimeShift` |
| `canbus`, messaging, `json_out`, migrations, tools | | | | none (section 6) |

Everything runs in one process. The web server, the file watcher's timer and
the gateway loop are threads; the loop hands reads to pool workers except in
sequential mode; a timescaledb bridge has up to three more threads, an mqtt
bridge two. They share memory under few locks, and only these things outlive the
process: `config.cfg` with its backups and filter files, the SQLite staging
database, the SQLite backlog, InfluxDB's backlog file, the marker files of
`transport_base`, and the databases themselves.

### What is hard, and what makes each part correct

* **Replacing a running gateway.** RS-485 has one master, so the old gateway
  must let go before the new one connects; `stop()` is a handshake with a loop
  that may be inside a read for longer than its timeout; the replacement may
  not build; web requests, the watcher's timer and editors act at any time.
  *Correct if* one gateway at a time holds the buses, a reload is skipped only
  when the right gateway runs, whoever is offline said so, and the file on disk
  ends up served.
* **Keeping readings through an outage.** In the timescaledb bridge the worker,
  the reconnect thread, the refresh loop and a crash interleave around three
  copies of a reading: in the queue, in memory and in SQLite. The answer of the
  database may be lost after the commit. A reload leaves the old bridge alive on
  the same file. The Influx bridges keep a batch and a backlog file instead.
  *Correct if* a kept reading is stored or given up by a rule, memory never runs
  ahead of the file, no row is queued twice and the backlog drains.
* **Sharing one read among scrapers.** Several scrapers on one device share its
  reads but keep their own intervals, masks and bridges; reads overlap ticks,
  are given up while they run, and may lose one range of many. *Correct if* one
  cycle at a time reads a device, nobody is served ahead of his interval and a
  bridge that wants whole cycles never gets values of an earlier one.
* **Talking to a device.** Ranges are planned in windows over entries of several
  words; they fail one by one and are disabled for hours; what the device is and
  where its blocks are is asked at connect, when any answer may be missing;
  writes read, change and write back whole registers, with the port free in
  between; on a serial port a frame says too little to tell whose it is.
  *Correct if* each metric is read and decoded where the map says, again and
  again; silence is not remembered as an answer; a write changes its own bits
  only; a section takes its own device's answers only.
* **Telling people.** "Connection lost" and "restored" are queued under a lock
  and delivered by whoever comes along; frozen devices are noticed by bridges;
  counters follow meters that reset; commands come back over retained topics.
* **Staging and committing.** Five independent tracks of one commit, of which a
  later may fail after an earlier wrote; dirty flags; discard, rollback and scans
  of files that were edited by hand; edits of databases that fail half way and
  are tried again. *Correct if* what is pending is counted, and done once.
* **DDL by several threads.** Registration, reconnects, a timer and admins change
  tables, views and jobs of one database in many short transactions. *Correct if*
  what the catalog, the worker and the refresh list say is so, whoever died.

`PROJECT.json` lists all parts under `components` and the behaviours of this
kind that matter most, each at its line, under `hazards`. Noted besides:

* editors that save by renaming cause "moved" events, which the watcher ignores
  (WS `file_watcher.py` 147); a file configparser cannot parse makes `reload()`
  raise (PG 2066); an async handler runs scan and reload synchronously (WS
  `main.py` 480); two backups within one second share a file name (WS
  `config_writer.py` 66);
* `max_backlog_size = 0` makes `enqueue()` index an empty list (TS 3582); only
  the first protocol registered replays the journal (TS 2412);
* `bus_lock` is created per call (PG 1578); register types the primary does not
  send are read for nobody in interleaved mode (TB 697); the clock may step back
  (PG 1864); `_cycle_active` stays set when `post_process_data()` raises (MB
  3228); the reconnect callback resets the scraper's `last_read_time`, while the
  loop looks at the primary's (PG 1366); bridges that accept partial cycles do
  get the values of earlier ones (TB 773);
* at most two override rows that match no row of the map are added (PS
  1754-1770); a descending list such as "8_7" gives a window of its own; reads
  of a single entry ask for one register too many (MB 2984-2993); `connect()` of
  `modbus_tcp` closes the client its siblings share;
* serial: `async_mode` starts a read thread while the gateway goes on polling
  the same port, and both split frames into the same list
  (`documentation/usage/transports.md` 378: "The port then belongs to this
  section"); `read()` sleeps 10 ms per byte, so a long frame times out; nothing
  forbids equal start and end markers, which give empty frames; sections with
  different baud rates open a port twice;
* `canbus`: after a CAN error the last message is stored again with a fresh
  time, and `sys.exit(1)` of the watchdog ends its thread only.

## 2. The modules and the code

| Module | Models | Composed in |
|---|---|---|
| `GatewayLifecycle` | one `Protocol_Gateway` object: loop thread, pool task, `stop()` handshake, connections | `GatewayManager` |
| `GatewayManager` | start, reload, fallback, shutdown, with everybody who writes `config.cfg` or asks for a reload | `MCGatewayManager`; refines `BusOwner` |
| `BusOwner` | *abstract:* what the manager promises the buses | |
| `Backlog` | `BacklogManager`: the SQLite journal and each bridge's copy of it | `FlushPipeline` |
| `FlushPipeline` | flush queue, worker, reconnect thread, refresh loop, database, crash, reload | `MCFlushPipeline`; refines `DurableStore` |
| `DurableStore` | *abstract:* what a bridge promises each reading | |
| `ScrapeScheduler` | scanning, the three read modes, workers, verdicts, delivery | `MCScrapeScheduler` |
| `InfluxBatch` | batch, backlog file, reconnect and closing of the Influx bridges | `MCDelivery`; refines `DurableStore` |
| `MqttLink` | the connection to the broker: callbacks, reconnect thread, topics, last will | `MCDelivery` |
| `RegisterReads` | the two read paths with retries, trackers and verdicts | `MCDelivery` |
| `StaleWatch` | frozen devices: the records of three bridges | `MCBridges` |
| `PrometheusExport` | counters, failures and sweeps | `MCBridges` |
| `MqttCommands` | write topics, discovery entities, the route of a command | `MCBridges` |
| `ConnectionNotices` | the `connected` setter, its notices and markers | `MCBridges` |
| `SerialBus` | the sections of a serial port, their client, the wire | `MCBridges` |
| `ConfigStaging` | settings through edits, commit, discard, rollback, scan, restart | `MCWebStorage` |
| `MetricSelections` | written, masked and screened metrics and their files | `MCWebStorage` |
| `AdminEdits` | staged column deletions and value edits, commit by commit | `MCWebStorage` |
| `TimeShift` | exports, uploads, imports, with what they do to values | `MCWebStorage` |
| `ValueEdits` | previews and value edits of four kinds of storage | `MCWebStorage` |
| `WideSchema` | a wide table, `metric_catalog`, and the worker's picture of both | `MCWebStorage` |
| `Rollups` | the continuous aggregates and the refresh list | `MCWebStorage` |
| `CompressionJobs` | compression policies and those who pause them | `MCWebStorage` |
| `RegisterMap` | map files, overrides, filters; planning and decoding of ranges | `MCDevices` |
| `DeviceStartup` | connect, the SunSpec walk, the resolved map, permission to write | `MCDevices` |
| `Eg4Identity` | who an EG4 device is, and the retries | `MCDevices` |
| `RegisterWrites` | writes of several transports, with their arithmetic | `MCDevices` |
| `DynamicSizing` | chunk sizes by load: timers and retunes | `MCDevices` |
| `GatewayManagerProofs`, `FlushPipelineProofs` | theorems about the module they name | |
| `DeliveryProofs` | theorems about `ScrapeScheduler`, `RegisterReads`, `InfluxBatch` and `MqttLink`, and about `MCDelivery` | |
| `BridgesProofs` | theorems about `PrometheusExport`, `ConnectionNotices`, `MqttCommands`, `StaleWatch` and `SerialBus`, and about `MCBridges` | |
| `DeviceProofs` | theorems about `RegisterMap`, `Eg4Identity`, `DeviceStartup`, `RegisterWrites` and `DynamicSizing`, and about `MCDevices` | |
| `WebStorageProofs` | theorems about `MetricSelections`, `ConfigStaging` and `AdminEdits` | |
| `DatabaseProofs` | theorems about `CompressionJobs`, `WideSchema`, `Rollups` and `ValueEdits` | |
| `InductionLemmas` | induction over numbers, and what a fold over a sequence computes | |

`PROJECT.json` gives for each definition the lines it stands for (`map`).
Definitions commented as "Mutant of X" are wrong on purpose: put in the place of
X they break a property, which shows that the property depends on the code.

The four modules `MCDelivery`, `MCBridges`, `MCWebStorage` and `MCDevices` put
components side by side that share no state: `part` chooses one at the start and
the others stay as they are. A behaviour is one component's, so the states add up
and do not multiply. Components that do interact (journal and flush worker,
gateway and manager) are composed in one module instead.

### GatewayLifecycle and GatewayManager

A step is what runs between two reads of shared state. So `run()` enters in two
steps (`__running = True`, then `__stopped_event.clear()`), because `stop()` may
come between them; `stop()` is `StopSignal` (the flag) and then `StopDone` or
`StopTimeout` (the wait); `reload()` goes through `pc` from `Acquire` (the lock)
to `Finish` (the status). When `reload()` has returned, each caller reads
`manager.current` (`Take`) and stores it in `app.state.gateway` (`Store`), two
steps without the lock. A caller that another's reload overtakes between them
(`overtaken`) may store an older gateway; `late` says that the last store did.

* `thread[g]`, `running[g]`, `stopped[g]` are the thread's position, `__running`
  and the event. `links[g]` means that some transport of the gateway may hold
  its connection. `task[g]` is the one pool worker that matters.
* A configuration is a model value; what building does with its text is in the
  sets `Unbuildable`, `Leaky` (`__init__` raises after some transports have
  connected), `Malformed`, `PooledConfigs`, `DynamicOff`. Two files hash alike
  iff they are the same configuration.
* Gateway identifiers are recycled when their object has exited and holds
  nothing, so three stand for any number of reloads.
* `CommitWrite` ... `CommitDone`/`CommitFail` are the parts of a commit that
  touch the file and the backup rows; `CommitFail` is any later commit step
  that raises, with its backup row kept (`commit_all()` has committed it) or
  dropped. SQLite admits one writing transaction (`NoDraft`).
* Four named assumptions about the surroundings can be switched per run:
  `PromptStart` (a started thread reaches its loop before anybody stops it),
  `EditsWhileBusy`, `MayOverrun` (a read outlasts the stop timeout) and
  `MayLoseBackups`.

### Backlog and FlushPipeline

Every operation of `BacklogManager` runs under its lock and is one operator of
`Backlog`; an operation that can fail half way has a second one
(`EnqueueFails`: the lock is busy, or SQLite refuses after the eviction has
been done). A reading has at most one row, so rows are named by readings and
`rowid` keeps their order.

`FlushPipeline` has one action per decision of the flush worker: take an item,
judge it (staleness, columns), test the gate, write, note the loss of the
connection, recover, settle. `Write` distinguishes a commit, a refusal for good
(`WriteRejected`), a refusal for now (lock timeout, deadlock: `WriteRefused`)
and no answer, after which the transaction may have committed or not
(`WriteUnanswered`). The reconnect thread is split wherever it reads or writes
`tsdb_connected`, because the worker does so too. `Retire` is what a gateway
reload does to a bridge: nothing, so its threads go on beside the next one's.
`Crash` keeps the SQLite file and the database and nothing else. Readings that
were in the queue at a crash are gone; the model says so ("volatile" may become
"lost"), since `close()`, which would journal them, is only called by
`__del__`.

### ScrapeScheduler

A cycle is named by the set of members it was started for. In interleaved mode
that is the set of members due (the key of `__il_active_cycles`), otherwise the
whole group. `Scan*` is one pass of the loop over all groups; `BeginRead` ...
`EndRead` run on the worker; `Forward` is `_route_interleaved_state()` in the
loop or the second half of `_process_group_read()` in the worker.

A block is one register range, numbered in wire order. Its value is the time at
which it was read, which is all the properties look at. What the code does after
its retries is the block's outcome: `BlockRead` or `BlockLost`. A bridge that
raises in `Forward` leaves behind any proper subset of that member's bridges
written, later members unserved. Failures of `connect()` are free; all other
faults count against `MaxFaults`. The variables `begun` and `sent` are history.

### InfluxBatch

`influxdb_out` and `influxdb3_out` have the same design function by function;
`setup` tells them apart where they differ (`v1` creates its database, `v3`
checks its own, `v3auto` leaves it to the first write). A function that calls
another goes on where `caller` says. The file is saved whole; a crash between
steps leaves it as it was last saved, with `MayTear` also torn. A reading's
number is its capture order. 0 is a reading that makes the bridge act and is not
followed, since delivery needs somebody to go on writing.

### MqttLink, MqttCommands

`MqttLink` splits paho's network thread (dial, callbacks), the daemon thread that
reconnects, and the gateway's thread. What the broker does - session, last will,
retained status - is external. `CallbacksWait` says whether a callback in
progress holds back the next, as paho's thread does. `MqttCommands` goes from the
write selections, which a user extends and takes back, to the topics a gateway
collects in `init_bridge()`, device by device, the entities announced, stale
retained announcements, and a command's way to a device. A gateway that was
stopped may leave its client listening: it announces again when Home Assistant
restarts, and it still obeys commands for coils, which are written without a read
before.

### RegisterReads, RegisterMap, RegisterWrites

A step of `RegisterReads` is one attempt to read one range; the retries left
decide what follows. `RegisterMap` starts from rows as a CSV has them, applies
overrides, joins halves, filters and adds descriptions, plans ranges by what is
due, and decodes from the registers that were asked for; members of a group read
the union of their maps. `RegisterWrites` keeps the arithmetic, with words of
`WordBits` bits: scaling, rounding, bit fields in three encodings, word and byte
order. The port lock is held per call, so `ReadAndCheck` and `WriteWords` are
two steps.

### DeviceStartup, Eg4Identity

The SunSpec chain of a device is a sequence of models; the walk reads it header
by header, and each read may go unanswered. A session that ends - a link that
drops, a reload - starts over with what `prepare_for_reload()` keeps.
`Eg4Identity` follows one transport's caches and retry delays.

### SerialBus

The wire carries tokens in order: start and end markers and one token for what is
between them. `Ask` takes the port lock and empties the buffer, `ReadToken` is
`read()`, the device answers between them, or garbles, loses or breaks the port
(`MaxFaults`). `style` chooses between `serial_pylon`, which asks, and
`serial_frame_transport` itself, which listens. Clients are numbered; `shared` is
the registry's.

### ConfigStaging, MetricSelections, AdminEdits

A request is cut where another may come between: where it awaits, commits, or
writes a file. A crash drops what is in memory and keeps files and committed
rows. `Mishaps` bounds crashes, failing writes and hand edits together. In
`AdminEdits` the three stores of staged edits (columns, timescale, influx) have a
lock each; a commit applies one edit after another and takes each off its list
when it is done.

### TimeShift, ValueEdits

Both work on the same stored values: points or rows by time, fields with types.
Conversions are modelled by what they do to a number, a text or a boolean,
numbers in hundredths. An import is cut into its batches or transactions, an
export into its slices, and the bridge writes in between. An edit is staged from
a preview, and `PreviewTells` compares the two.

### WideSchema, Rollups, CompressionJobs, DynamicSizing

Each DDL transaction is a step. `WideSchema` keeps the table, the catalog and
the worker's cache apart; registration, reconnect and an admin's deletion change
them in their own orders. `Rollups` has a program counter per thread that sets up
a stack; the list of views to refresh is memory, the views are the database's.
TimescaleDB's scheduler, which compresses or refreshes by itself, is external.

## 3. The runs

The last column is TLC's count of distinct states.

| Run | Properties | Instance | States |
|---|---|---|---|
| `gateway_sequential` | `TypeOK`, `SkipAfterSuccess`, `EventuallyServesDisk` | 3 gateways, 1 web thread, 1 timer thread; two good configurations; 2 edits, 2 backups; fairness | 451,568 |
| `gateway_faults` | `SingleBus`, `BusHandover` | the same, with a configuration that does not build and one with dynamic configuration off, edits during a rebuild, overlong reads, lost backups; symmetry in the gateways | 2,158,561 |
| `gateway_wild` | `OfflineWasReported`, `ShownIsCurrent` | a pooled and a leaking configuration, no `PromptStart`, 3 edits, 1 backup | 299,282 |
| `flush_journal` | `FlushTypeOK`, `MemoryOnDisk`, `OneCopy`, `ReadingsAreDurable` | 1 bridge, 3 readings (one may be stale, one is refused), room for 2; one outage, refusal and crash; SQLite may fail, rows may expire | 368,602 |
| `flush_reload` | `ReadingsAreDurable` | 2 bridges one after the other, 2 readings, room for 1, an outage, SQLite may fail | 351,479 |
| `flush_drain` | `OutagesEnd` | 1 bridge, 2 readings, 2 outages, a refusal, a crash, start may fail; fairness | 162,024 |
| `scrape_modes` | `ScrapeTypeOK`, `OneReader`, `WholeCycle`, `Cadence` | scrapers s1 (interval 1) and s2 (2) on one device, s3 (2) on another; two blocks; one of two bridges wants whole cycles; all three read modes; clock 2 to 4; 1 fault | 1,437,934 |
| `delivery` | `DeliveryTypeOK`, `RangesAreJudgedFairly`, `ReadingsSurvive`, `DeliveryGoesOn` | 3 readings, batches of 2, room for 2, an outage and a crash, three set-ups; 2 mqtt devices, 2 link failures; 2 ranges on both paths, 3 strikes; fairness | 164,915 |
| `bridges` | `BridgesTypeOK`, `CountersAreTrue`, `CommandsAreSelected`, `NoticesAreTrue`, `PortIsShared`, `SilenceIsEnded` | 2 metrics, 2 machines, 2 devices with a switch each, both kinds of discovery, 2 starts, 5 changes of a connection; 2 serial sections and 2 clients in turn, one fault; fairness of the serial port | 452,453 |
| `web_storage` | `WebStorageTypeOK`, `StagingIsTrue`, `RollbackLeavesNoEdits`, `SelectionsAreTrue`, `EditsAreDoneOnce`, `WideTableIsTrue`, `RollupsAreTrue`, `JobsAreTrue`, `ValuesAreTrue` | 3 kinds of settings with 2 changes and a mishap; 2 registers and a synthetic metric; 2 columns and 3 edits; 2 columns under 2 declarations, 2 outages; 2 stacks of 3 tiers, 3 threads; 1 table, 2 pausers, a fault; exports, imports and edits of three typed fields in four kinds of storage | 1,305,169 |
| `devices` | `DevicesTypeOK`, `MapsAreTrue`, `WritesAndIdentityHold`, `DeviceKeepsAnswering` | 2 map files with 4 filters, alone and in a group; 3 SunSpec chains, 2 silences, 2 sessions; an inverter or a battery; 10 entries of all kinds in 3 registers, 2 writers; 3 transports on 2 protocols; fairness | 185,883 |

What they show:

* `SkipAfterSuccess`: "config unchanged" is said only of a gateway that runs
  exactly this configuration, unless the last reload failed (see 5).
* `EventuallyServesDisk`: once the edits stop, the configuration on disk is
  served, whether it was written by a commit, a commit that failed later, a
  rollback or an editor, and whatever reload was under way.
* `SingleBus`, `BusHandover`: at most one gateway is connected, and the buses
  pass on only through nobody, whatever fails in between.
* `OfflineWasReported`: if no gateway is polling, the last reload that did
  something reported `fatal` or `aborted`. `ShownIsCurrent`: when no caller has
  still to publish or store, the web routes talk to the manager's gateway, unless
  the last to store had been overtaken (see 5).
* `ReadingsAreDurable`: `FlushPipeline` implements `DurableStore`: only a
  reading outside the journal may vanish. The mapping (`fate`) is computed from
  database, journal, queues and history.
* `MemoryOnDisk`, `OneCopy`: the contracts of `BacklogManager` on which its
  acknowledgements rest.
* `OutagesEnd`: a journalled reading leaves the journal, provided a bridge
  with a running refresh loop is connected again and again (`BacklogDrains`),
  and a write that commits although the bridge is flagged disconnected ends in a
  reconnect (`CommittedWriteRecovers`).
* `OneReader`, `WholeCycle`, `Cadence`: the three sentences of section 1 about
  shared reads, in all three modes.
* `ReadingsSurvive`: `InfluxBatch` implements `DurableStore` too
  (`PointsAreDurable`), loses nothing while the process runs, and keeps the
  order of capture.
* `DeliveryGoesOn`: once the Influx server stays up, what is kept is written;
  an mqtt session in service has all its write topics, the link comes back to
  service, and a bridge that is gone ends up "offline" at the broker
  (`LinkIsMinded`); a range the device would give is read again and again.
* `RangesAreJudgedFairly`: a cycle reported complete holds every range, a cycle
  is a bounded number of reads, and an outage disables nothing.
* `CountersAreTrue`: no counter runs ahead of its meter, and one ongoing failure
  is one. `CommandsAreSelected`: started with unchanged selections, a gateway
  accepts what is selected, on every device, and nothing else; what was taken back
  is not carried out for its topic, but for the coils of gateways that listen on; a
  control was accepted by whoever announced it; a gateway alone announces as it
  plans to. `NoticesAreTrue`: the last notice
  says how things are, and a reported outage is answered, over restarts too.
* `PortIsShared`: a section takes only its own device's answer to its own
  command; one client holds the port. `SilenceIsEnded`: a reconnect of a frozen
  device is due, capped and spaced, and sections of a port that is there get
  answers again and again.
* `StagingIsTrue`: every pending setting is counted and the disk column is the
  file; `RollbackLeavesNoEdits`: a rollback drops the edits of what it restored.
  `SelectionsAreTrue`: selections have registers, none is masked and screened at
  once, and their marks are the files'. `EditsAreDoneOnce`: staged edits of
  stored data are finished once and in order, in every table they are for.
* `WideTableIsTrue`: the catalog and the worker know the table as it is, and a
  reading is dropped for its columns only after an admin's deletion. The picture is
  excused after a deletion that met a restore half-way, or that failed behind its
  own commit (`blurred`, `unsynced`), until a reconnect.
  `RollupsAreTrue`: a protocol marked complete has its views, existing views are
  on the list, sources are refreshed first. `JobsAreTrue`: no compression job
  stays paused, or works on a table that one edit or rebuild has to itself, unless
  its pause failed; a rebuild leaves no chunk under older settings, unless a set-up
  changes them meanwhile.
* `ValuesAreTrue`: imports and edits change what they name and nothing else,
  exports come back value for value, jobs are resumed, previews tell the truth,
  the wide and narrow tables agree.
* `MapsAreTrue`: what is due is in the plan and decoded, what is selected is
  delivered; a walk with all answers gives the map of this device and one
  without gives nothing astray; tables are sized by load once their timer ran.
  `WritesAndIdentityHold`: a write changes its entry's bits, reads back as asked
  and is allowed; known identity is not lost. `DeviceKeepsAnswering`: every
  metric comes again, a device that answers is identified, tables leave the
  static settings.

**Bounds.** Three gateways are enough for one that overlaps its successor while
a third is built by a fallback; two backups for "the newest is not the one that
worked"; two edits for one that overtakes a reload. Three readings and room for
two make eviction hit a queued row; one outage allows an outage during a write
whose answer is lost, followed by a reconnect that meets the worker; the second
outage of `flush_drain` interrupts that reconnect. On the scheduler side, the
clock allows two full cycles of the slow scraper and three of the fast one; with
`Timeout` 0 an interleaved read is given up one tick after it began, so a tick
meets cycles that run, that are late and that wait to be forwarded.

In `delivery`, three readings fill a batch and overfill the backlog behind it;
two link failures let the second hit the reconnect that follows the first; with
three strikes and two ranges one range is disabled while the other is read. In
`bridges`, counters reach 2, enough for a reset between two readings; two starts
let a command of the first meet the topics of the second, and two devices with one
coil each meet the route to the wrong one (the rest is left to the theorem); two sections and a
second client cover an eviction beside an exchange. In `web_storage`, two
committers are not needed for the settings (SQLite admits one writer), two
pausers and two starts let one die while the other works; the first and the
last tier read raw data, so the middle one of three is the view on a view, and the
one error and the one extra task may meet any step; two edits and a fault give an edit retried
before the one behind it. In `devices`, the maps hold each kind of row; two
silences can hit the walk and its repetition; the fields of `OwnFields` cover all
kinds and the four orders of words and bytes. Between them, the passing runs of a
module fire each of its actions and each disjunct of its next-state relation.

Larger instances that pass, each part alone: `Rollups` with the 4 tiers of the code
(2,359,375 states); `ConfigStaging` with `MaxBackups` 3 (286,450); `CompressionJobs` with a view, `RollupViews` {"hourly"} (1,256,176);
`WideSchema` with `WideLimit` 3 (811,716); `MqttCommands` with one device that has a
sensor, a number and a write-only switch (247,148);
`TimeShift` with `MaxImports` 2 (1,851,392); `SerialBus` with two polls, two mishaps and an
unplugged adapter (303,804).

**Deadlock** is not checked: the models stop when the bounded edits, readings,
faults or clock run out, or the process has ended.

**Fairness.** Weak fairness of threads the operating system runs: in
`GatewayManager` booting, each gateway's own threads, a commit that has begun
(done or failed), the pending timer, the lock for some waiter (a lock may starve
one caller as long as it serves another), publishing, and the reload that holds
the lock. In `FlushPipeline` the worker, its commits, the reconnect thread, the
refresh loop and construction once begun. In `InfluxBatch` a worker's steps, the
passing of time and the gateway's next reading; strongly, `CheckPings`: of
several workers each finds the throttle of the ping expired at some time. In `MqttLink` paho's thread,
the reconnect thread, the gateway's thread, and - the environment - the link, which returns since failures
are bounded. In `RegisterReads`, `RegisterMap`, `Eg4Identity` and `DynamicSizing`
the reader, the passing of time, and timers. In `SerialBus` readers and the wire
are weakly fair; taking the port lock (an `RLock`, which two sections share) and a
device's answer are strongly fair: a device that may be lost once answers if it
is asked again and again. Nothing is fair about users: edits, commits, requests,
shutdown, readings and reloads need not happen; neither need the database come
back, which is why `BacklogDrains` says "connected again and again".
The MC modules restate the fairness of their parts (`PartFairness`) with the part
named in each action. `ScrapeScheduler`, `ConnectionNotices` and the web modules
state none; their properties are safety.

## 4. The proofs

TLAPS proves the following for every value of the constants that satisfies the
modules' assumptions: any number of gateways, callers, configurations, readings,
bridges, scrapers, ranges, machines, devices, serial sections, settings,
registers and tables, any intervals, masks and bounds.

| Theorem | Says | Assumes |
|---|---|---|
| `GatewayManagerProofs!TypeCorrect` | `Spec => []TypeOK` | |
| `GatewayManagerProofs!SingleBusHolds` | `Spec => []SingleBus` | `Tame` |
| `GatewayManagerProofs!HandsOver` | `Spec => BusHandover` | `Tame` |
| `GatewayManagerProofs!OfflineIsReported` | `Spec => []OfflineWasReported` | |
| `GatewayManagerProofs!ShownStaysCurrent` | `Spec => []ShownIsCurrent` | |
| `GatewayManagerProofs!SkipIsSafe` | `Spec => SkipAfterSuccess` | `~EditsWhileBusy` |
| `GatewayManagerProofs!ArchiveIsOfTheServed` | `Spec => ArchivedWasServed` | `~EditsWhileBusy` |
| `GatewayManagerProofs!EveryReloadReturns` | `Spec => ReloadReturns` | `Malformed = {}` |
| `FlushPipelineProofs!TypeCorrect` | `Spec => []FlushTypeOK` | |
| `FlushPipelineProofs!JournalNeverLoses` | `Spec => []JournalKeepsUnwritten` | `NoDrift` |
| `FlushPipelineProofs!WritePathIsDurable` | `Spec => ReadingsAreDurable` | `NoDrift` |
| `FlushPipelineProofs!MemoryIsJournalled` | `Spec => []MemoryOnDisk` | `OneBridge` |
| `FlushPipelineProofs!RowsAreCopiedOnce` | `Spec => []OneCopy` | |
| `DeliveryProofs!ScrapeTypeCorrect` | `Spec => []ScrapeTypeOK` | |
| `DeliveryProofs!OneReaderHolds` | `Spec => []OneReader` | |
| `DeliveryProofs!CadenceHolds` | `Spec => Cadence` | |
| `DeliveryProofs!WholeCycleHolds` | `Spec => WholeCycle` | |
| `DeliveryProofs!ReadsTypeCorrect` | `RegisterReadsSpec => []RegisterReadsTypeOK` | |
| `DeliveryProofs!RangesJudged` | `RegisterReadsSpec => []RangesAreJudgedFairly` | `NoticesSilence` |
| `DeliveryProofs!CyclesAreTrue` | `RegisterReadsSpec => [](CompleteMeansAll /\ CycleIsBounded)` | |
| `DeliveryProofs!DisablingIsEarned` | `RegisterReadsSpec => DisabledIsEarned` | |
| `DeliveryProofs!InfluxTypeCorrect` | `InfluxSpec => []InfluxTypeOK` | |
| `DeliveryProofs!InfluxReadingsSurvive` | `InfluxSpec => ReadingsSurvive` | `OrderlyUse` |
| `DeliveryProofs!SessionsAreWhole` | `MqttSpec => [](MqttLinkTypeOK /\ ServedIsSubscribed)` | |
| `DeliveryProofs!DeliveryIsTyped` | `PartSpec => []DeliveryTypeOK` | |
| `BridgesProofs!CountersStayTrue` | `PrometheusSpec => []CountersAreTrue` | `OwnLabelled` |
| `BridgesProofs!NoticesStayTrue` | `NoticesSpec => [](NoticesTypeOK /\ NoticesAreTrue)` | `OneSetter`, `~CrashesMidway` |
| `BridgesProofs!CommandsStaySelected` | `CommandSpec => [](CommandTypeOK /\ CommandsAreSelected)` | |
| `BridgesProofs!FrozenScrapersAreAsked` | `WatchSpec => []WatchTypeOK /\ FrozenIsAnswered` | `SameFields` |
| `BridgesProofs!BridgesStayTyped` | `PartSpec => []BridgesTypeOK` | `OwnLabelled` |
| `BridgesProofs!PortStaysShared` | `SerialSpec => [](SerialTypeOK /\ PortIsShared)` | `~MayAnswerLate` |
| `DeviceProofs!IdentityStays` | `EgSpec => IdentityIsKept` | |
| `DeviceProofs!KindStaysTrue` | `EgSpec => []KindIsTrue` | |
| `DeviceProofs!DueStaysDelivered` | `RegisterMapSpec => [](RegisterMapTypeOK /\ MapIsServed)` | `SoundFiles` |
| `DeviceProofs!StartupsStaySafe` | `StartupSpec => [](StartupTypeOK /\ DeviceIsMapped)` | |
| `DeviceProofs!WritesStayAllowed` | `RegisterWritesSpec => [][AllowedIsWritten]_writeVars` | |
| `DeviceProofs!OtherRegistersAreKept` | `RegisterWritesSpec => [][OtherRegistersStay]_writeVars` | `InOneRun` |
| `DeviceProofs!WritesStayTrue` | `RegisterWritesSpec => WritesAreTrue` | `SoundEntries` |
| `DeviceProofs!WritesAndIdentityStay` | `PartSpec => WritesAndIdentityHold` | `SoundEntries` |
| `DeviceProofs!TablesGetSized` | `SizingSpec => [](SizingTypeOK /\ TablesAreSized)` | |
| `DeviceProofs!MapsStayTrue` | `PartSpec => []MapsAreTrue` | `SoundFiles` |
| `DeviceProofs!DevicesStayTyped` | `PartSpec => []DevicesTypeOK` | `SoundFiles` |
| `WebStorageProofs!SelectionsStayTrue` | `SelectionSpec => [](SelectionTypeOK /\ SelectionsAreTrue)` | |
| `WebStorageProofs!StagingStaysTrue` | `StagingSpec => [](StagingTypeOK /\ StagingIsTrue)` | |
| `WebStorageProofs!RollbackIsClean` | `StagingSpec => RollbackLeavesNoEdits` | `~ScansOverlap` |
| `WebStorageProofs!EditsStayInOrder` | `AdminSpec => [](AdminTypeOK /\ EditsAreDoneOnce)` | `OneCommitter` |
| `DatabaseProofs!JobsAreTyped` | `JobSpec => []JobTypeOK` | |
| `DatabaseProofs!JobsStayTrue` | `JobSpec => []JobsAreTrue` | |
| `DatabaseProofs!WideTableStaysTrue` | `WideSpec => [](WideTypeOK /\ WideTableIsTrue)` | `OwnColumn` |
| `DatabaseProofs!RollupsStayTrue` | `RollupSpec => [](RollupTypeOK /\ RollupsAreTrue)` | |
| `DatabaseProofs!ValueEditsTyped` | `ValueEditsSpec => [](TimeShiftTypeOK /\ ValueEditsTypeOK)` | `FittingStore` |
| `DatabaseProofs!ValueEditsStayExact` | `ValueEditsSpec => [][EditIsExact /\ TablesAgree' /\ PreviewTells]_valueVars` | `SoundValues`, `"v3" \notin Destinations` |
| `DatabaseProofs!ValueEditsStayTrue` | `ValueEditsSpec => ValueEditsAreTrue` | the same, and `"v1" \in Destinations => Outlasting(Stored)` |

The hypotheses are where the code stops being right, not conveniences; with each
of them dropped, section 5 has the counterexample.

* `Tame` is `PooledConfigs = {} /\ Leaky = {} /\ PromptStart`: sequential mode,
  no `__init__` that raises after it connected something, no `stop()` before
  the thread entered `run()`. Without each of them `SingleBus` is violated.
  Overlong reads, edits, failing builds and lost backups are all allowed.
* `~EditsWhileBusy`: nobody writes `config.cfg` between the build and the hash of
  what was built. Otherwise `SkipAfterSuccess` and `ArchivedWasServed` fail.
* `Malformed = {}`: configparser can parse the file; otherwise `ReloadReturns`
  fails.
* `NoDrift`: no reading has a metric the cached columns lack. With one,
  `JournalKeepsUnwritten` fails.
* `OneBridge`: no second bridge instance shares the file. With two,
  `MemoryOnDisk` fails.
* `NoticesSilence`: a device that does not answer counts as disconnected
  (otherwise `OutagesAreForgiven` fails; the other two properties of the reads
  are proved without it).
* `OrderlyUse` is one writer, a `close()` that waits for it and a file that is
  never torn (otherwise `NoReadingVanishes` and `PointsAreDurable` fail).
* `OwnLabelled`: no two machines have one label (otherwise `CounterFollowsMeter`
  fails, and with it the bound on a counter in `BridgesTypeOK`).
* `OneSetter`, `~CrashesMidway`: one thread sets the connection, and the process
  does not die between an alert and its marker (otherwise `LastNoticeIsTrue` and
  `OutageIsAnswered` fail).
* `SameFields`: the readings of a scraper all have the same fields, and some
  (otherwise `ReconnectIsDue` fails).
* `~MayAnswerLate`: a device does not answer after the timeout of `read()`
  (otherwise `AnswersAreOwn` fails).
* `SoundFiles` is what a map file with its overrides is taken to be; TLC evaluates it
  on the files of the run (`TheFilesAreSound`). Addresses are numbers and the first
  of a list is its least: with the list `6,4` the window ends before the entry
  does, and `DueIsDelivered` fails. No entry ends beyond the device's last register
  (an override that names one is not planned for, `last` being that of the file). The
  parts of a range are all there, and of one register and base name all or none can
  be read. A half is named once and is not beside its whole, and no name is one a
  description would get. `load__registry()` checks none of this.
* Of the files of a device nothing more is assumed in `DevicesStayTyped`. That a
  register holds a word from the first on is an assumption of `RegisterWrites`.
* `InOneRun`: the registers of an entry follow each other (otherwise a write reaches
  others: `Apart` in section 5). `SoundEntries` adds that no entry has an Offset
  adjustment, that each has a bit and one that is whole registers has all theirs
  (`PlainEntries`; `OffsetFields` and `BitWords` break it), and that no register has
  entries of two transports (`OwnRegisters`; `SharedFields` breaks it). TLC evaluates
  them on the entries of the run (`TheEntriesAreSound`).
* `OwnColumn`: no two metrics clean to one column (otherwise `CatalogIsTrue` fails).
* `FittingStore`: a stored table has one value for a key, and a wide one a column for
  what it holds and is sent. `SoundValues` adds that it holds finitely many values
  and that each field has values of one type. An edit of InfluxDB 3 is a deletion and
  a rewrite with time between, which is left to the run. `Outlasting`: each
  field of a v1 measurement has a value that no edit reaches; without one the field has no
  type any more, and what was staged for it may become unacceptable.
* `OneCommitter`: no two requests commit at the same time (otherwise
  `FinishedOnceInOrder` fails).
* `~ScansOverlap`: the watcher's scan keeps off a rollback's (otherwise
  `RollbackLeavesNoEdits` fails; the rest of the settings is proved without it).

**Arguments.**

*SingleBus.* `SingleBus` is not inductive: nothing in it says who may connect.
`BusInv` adds that only the current gateway, or the one just built, holds
connections or has a loop that could; that nobody does while `reload()` is
between `StopDone` and the end of the build; and that a loop inside `run()` has
cleared the stopped event, so the wait of `stop()` cannot succeed too early.
`BusOwner`'s steps follow from the same invariant: a step connects a gateway
only where nobody is connected.

*Journal.* `JournalInv` adds to "a journalled reading is on disk, stored or
given up" what the worker's promise rests on: an acknowledged row is stored or
given up (`AcksSettled`), an item about to be settled as done is too
(`HandSettled`), rows are numbered, queued readings were offered. With
`DriftPoints` the step `Judge` breaks `HandSettled`. `WritePathIsDurable`
classifies every step by what it does to the fate of each reading (`FateMoves`).

*One reader.* The overlap guard of the interleaved mode compares sets of due
members, so `OneReader` needs to know that the next key meets the one that
runs: `KeysAreDue` says that the members of a busy key stay due until it is
forwarded, since only forwarding moves their time, and that a busy key of the
other modes is the whole group. `CadenceHolds` uses the same invariant: those
served were due at the tick of the cycle.

*Whole cycles.* `CycleInv` adds, per group, that while the verdict is
"complete" every block a member wants was read since the cycle began or is
still to be read (`FreshIn`). It survives a reader that skips (nothing
changes), a raising read (the verdict falls) and the merging of members'
dictionaries in interleaved mode; in the grouped modes it holds only while a
cycle is reading, which is when data is forwarded.

*Outcomes and hashes.* `OutcomeInv` says where in `reload()` an instance is known to
serve: a fallback that could not launch one has reported it. A gateway that
serves goes on until told to stop (`ServingLasts`), which holds because only
`reload()` and the shutdown tell it. `ShownInv` ties the lock to the caller inside
`reload()`; a caller that has still to store has taken the current instance, unless a
reload has overtaken it, and the last to store decides what is shown; `HashInv` follows the
configuration from the file through the build to the hash, step by step of `pc`.

*One copy.* A replayed row and a live item of the same reading exclude each other
because a live item has no row yet (`QueuesApart`), and a copy that is queued is in
flight as long as it is in memory (`CopiesInFlight`), which is what keeps a second
replay from taking it. Two bridges over one file have each their own memory, so
this holds without `OneBridge`. `MemoryInv` builds on it: acknowledged rows are out of
memory (`AcksApart`), and what is journalled anew has no row yet, else a
committed delete would take a row from under its copy. Another bridge's delete
does so, which is why `MemoryIsJournalled` assumes there is none.

*Register reads.* `CycleReadInv` compares what was got with the ranges the cycle has
passed. The number of reads is bounded by what the passed ranges may have cost
(`ReadsPaid`), a product of two constants. `DisabledIsEarned` is an
action property: a range is switched off by its last permitted failure only, and
never in a cycle that read it.

*Influx bridges.* `PlaceInv` says, for each place of the writer in its calls, which
of the batch, the list in hand, the backlog and the file may hold a reading;
`OrderInv` that they hold them in the order of capture; `FileInv` that the file
mirrors the backlog except between a change and its save. Every step is then
shown to conserve readings (`Sound`), which gives all three parts of
`ReadingsSurvive`, the refinement of `DurableStore` among them.

*Counters, notices, commands.* A counter plus what the meter has moved since the
last sample is at most what it moved at all (`Accounted`). The last notice, sent
or queued, is the connection's state unless the one setter has still to queue it
(`Current`), and the marker says what is owed unless it has still to be written
(`Marked`). A device's topics at a gateway are set once, by `init_bridge()`, and nothing of
it is announced before (`KnownInv`), so they are the selection as long as that is the one
the gateway started with, and a control that was accepted when it was announced
remains one that was (`ControlsInv`). Of a gateway alone each
entity is still to be announced or is retained as planned (`AnnouncedInv`).

*The mqtt link.* While a session lives, the topics it has and those `on_connect` has
still to subscribe are the topics there were when its loop began, and without a
loop all there are (`SubscribedInv`): a topic added under a loop ends paho's thread,
and a new session starts afresh, whichever thread dialled it.

*Frozen devices.* With the same fields in every reading the record is what was
reported last, and its count and its clocks are those since a value differed
(`WatchInv`). `timescaledb` restarts its period with every reading that is not
stale; that forgets no request, because none has been made before the period is over.

*Serial port.* The frame a device has still to send, what is on the wire, and what
`read()` has in its buffer are parts of one frame in order, some tokens lost
(`Between`); before the answer all three are empty, since `Ask` empties the
buffer and nothing comes late. So a complete frame in the buffer is the one
expected, though `decode_frame()` checks neither address nor command. With
listening sections the places of the tokens on the wire increase
(`ListenLineInv`). `ClientInv` says that a section has the registry's client or none.

*Identity.* Each retry asks for the kind again, so `IdentityIsKept` needs to know
that the kind is decided with the first metadata and agrees with them (`EgInv`):
then no retry turns a battery into an inverter, and an identity that is complete
is not asked for again. `KindIsTrue` holds of the same invariant.

*Register map.* A row of a file becomes entries, two of them a joined one, the
filters drop some and descriptions come on top: `LoadedIs` says of the result what
`SoundFiles` says of the rows. A window is planned for every entry
(`PlannedRanges`), a group plans for representatives of its members' entries, which
need no other registers than these (`UnionCovers`), and decoding what was read yields what
was due (`KnownIsDelivered`). `DueInv` adds, between two steps of a cycle, that what
is planned, read and still to be read belongs to entries that are due.

*Start-up.* The rows and their trackers change together with the anchors (`MapInv`).
The models a walk has met are a prefix of the device's chain at the marker it
found (`WalkInv`, `NextInChain`): a header is that of the next model or of none, so
block counts and probes meet the device's own blocks, and merged anchors are those
it has. Whatever was lost of the answers, an anchor that is not a default is the
address of a model of its kind or of a block in it.
An instance that did not come by a reload passes `enable_write()` in its first
session, before anything else is read (`PermitInv`).

*Writes.* What is about to be written passed the checks of `write_variable()` (or
these are switched off, `UnsafeWrites`), and has as many words as its entry, however they are swapped
(`WriteInv`). That is enough for what is permitted and for the registers of others.
What reads back and the bits of others in a register need the numbers. `FromWords` is a
fold over words swapped by order; `Takes` names the numbers it passes through, one word
at a time. With it the words of a number, of any count and in any order, are that number
again (`WordsReadBack`): swapping twice undoes itself, and dividing by a product is dividing
by one factor after the other (`DividedTwice`). Bits put among those of a number are
there, and each other bit is as it was (`BitsArePut`). What fits an entry means the same when
its bits are read, unsigned, in two's complement, or as sign and magnitude
(`MeaningOfEncoded`), and rounding moves it by less than one unit (`RoundedIsClose`).
The invariant `WriteIsTrue` then says, of a transport about to write, that its words mean
what was asked for and have the other bits as the registers hold them *now*: it lasts
because only the transport itself writes there (`OthersLandElsewhere`), which is
what `SharedFields` breaks. Words have 2, 4, 8 or 16 bits, entries any number of words.

*Types of the bridges' parts.* Without the hypotheses of `NoticesStayTrue` the bound on waiting notices needs the setters that have
still to queue one (`NoticeTyped`). The serial line carries only tokens of
frames, and a section with nothing left to send is idle (`LineTyped`).

*Selections.* Every row of the files has its selections (`RowsInv`), and a selection
without a pending change has the marks it had on disk (`SettledInv`). A commit
between its three steps has the filter files it computed (`FilesInv`): the mask
and the screen of one device have no name in common, and a synthetic row
they name has a selection.

*Settings.* A row is flagged whenever it differs from disk (`CountInv`), and outside
a commit or rollback the disk column is what the text says (`DiskInv`), unless a
request overtook another (`raced`) or a hand edit is not yet scanned
(`unscanned`). In between, `WorkInv` relates what a scan has read and what a commit
has written to the rows; `TurnInv` says who excludes whom. A rollback may replace
the file under a scan of the watcher; its own scan, which comes after, mends
that. `RollbackIsClean` further needs that this scan takes `config.cfg` for the
truth (`TruthInv`), which the end of the watcher's would undo.

*Database edits.* Edits are numbered as they are staged. A commit works through a copy
of its store taken before it had the lock, so entries may be taken back, and others
staged, meanwhile: `OrderOfEdits` says that what is staged, what is planned and
what is finished each ascend, that what is finished comes before the rest, and that
a planned entry is still staged or was taken back. `HalfDone` holds between the wide
transaction and its companion, where an exception leaves the wide value to an edit
that is still staged. A second commit would finish what is already finished.

*Compression jobs.* Job ids are not used again, so a pauser that resumes by id
resumes a job of its own tables or none. A job that is not scheduled is then one
a pauser will resume, one of a table a set-up has still to visit, or one of a
reported failure (`JobsAreAwaited`). Two pausers have a table in common only after
one met the other there (`Alone`), so what resumes a job under a pauser is that pauser or
a set-up. Chunks are outdated from the `ALTER TABLE` on, before the job is there
again; the plan of a rebuild holds all that are (`PlansAreThorough`), since
compressing a chunk anew gives it the settings of the day.

*Sizing.* A table is sized by a load that is part of its present load (`LoadInv`),
and one without a load waits for reports or has had its one retune (`RetuneInv`).
The first report starts the timer that leads there (`ReportInv`), and intervals
change only before the first write (`ManagerInv`), so the retune of a table
that is recorded finds a load.

*Wide table.* With a column to each metric, a column belongs to the catalog row that
names it and carries its type (`TrueCatalog`). Registration folds over the reported
metrics one by one, each step keeps that, and after the last all of them have rows
(`EnsuredIsTrue`): an induction over the prefixes of the list, whatever order
`SetToSeq` gives it. The worker's picture may differ from the table only while
columns go (`PictureInv`). A restore has read the table or the catalog as they are, or as
they were before a deletion that it will not see (`RestoreInv`); only the latter puts
back what is gone, and the picture counts as blurred from then on. What the transport reports keeps its columns until
an admin takes one, so no reading is dropped for them (`ReportedInv`).

*Rollups.* Set-ups and purges overlap, so a view may be missing at almost any moment;
what keeps the promise is that someone is still to bring it (`BuiltInv`): a view a
complete protocol lacks, or one a pass has already gone by, is ahead of some set-up,
unless the purge of the narrow stack or a failed set-up took it. A pass can raise by
itself, on a source that lacks a column of the view; such a source stands above a
gap and is about to be dropped by the set-up that repairs the gap, so the protocol is
visited again (`LackingInv`). The promise therefore ends with a set-up that failed,
not with an injected error. Without overlap there is one task at a time (`OneTask`):
a purge has its whole stack before it, what a pass left behind it stands and is
listed, and each view that stands is listed, broken or still to be visited
(`ListInv`). Until a set-up fails, a listed view comes after its source, since a pass
creates or adopts its views bottom-up; of a protocol nobody is busy with, all views
are listed or none, so no view is put behind one that stands on it.

*Value edits.* A table never has two values of one field at one time, since every
writer looks for the key first (`ValueShape`). An edit of rows is one transaction, so
`EditIsExact` compares two states; an edit of points writes what it has fetched, and
what it has fetched are points still there or points the bridge has overwritten.
In the wide table rows are never taken, only their values, so the bridge does not
write where an edit has parted a value from its companion; and what an edit is about to
do in the narrow table it has done to every parted value of its range (`TablesInv`).
What a text may become depends on the type of its field alone, and that stays
(`AcceptInv`): an accepted edit can be carried out, except where the code forgets the
type (the narrow table, section 5).

*Induction.* The library's induction theorems take an operator, which the provers
cannot instantiate; that every non-empty set of numbers has a least one does not.
`InductionLemmas` derives from it induction over a set of numbers and from that
what `FoldLeft` computes.

Each inductive invariant was model-checked on the instances of section 3, or on
one component of them, before it was proved.

## 5. Disagreements between the code and what is said of it

One run expects a violation; `findings` quotes the line it contradicts.

| Run | Property | What happens |
|---|---|---|
| `gateway_skip_offline` | `SkipOnlyWhenServing` | After a fatal reload the hash is still that of the stopped gateway: restoring its configuration is "unchanged", and nothing runs. |

The following are met outside the regular runs: start from the run's `.cfg`,
change the constants named, and check the one property, which its module defines
(for the gateway without the symmetry). Each ends in a counterexample. The
constants that make the regular runs pass are thereby the conditions under which
the code keeps the properties.

**Gateway** (from `MCGatewayFaults.cfg`, with `Configs` {a, b}, `Unbuildable` {}
and `EditsWhileBusy`, `MayOverrun`, `MayLoseBackups` FALSE).

| Property | With | What the code does | What is said |
|---|---|---|---|
| `AbortedStillRuns` | `MayOverrun` TRUE | the old loop has been told to stop and ends when its read returns | the status of an aborted reload: "still running the previous config" |
| `LatestBackupWorked` | `Configs` {a, b, x}, `Unbuildable` {x} | backups archive whatever is in `config.cfg`, loaded or not | PG 1980-1982: "it's always the last config known to have worked" |
| `ArchivedWasServed` | `EditsWhileBusy` TRUE | an edit saved during a rebuild is archived as the one that loaded | PG 2169-2171: "the only record that this particular hand-edit was ever proven to load successfully" |
| `SingleBus` | `Configs` {a, b, x}, `Leaky` {x} | an `__init__` that raises leaves the transports it had connected to nobody, and the fallback connects again | PG 1973-1975, quoted in the next row |
| `SingleBus` | `PooledConfigs` {a} | pools are shut down without waiting: a worker reconnects after `cleanup()` | PG 1973-1975: the old gateway is "fully disconnect[ed] ... *before* constructing the new one" |
| `SingleBus` | `PromptStart` FALSE | `run()` sets `__running` whatever an earlier `stop()` wrote | PG 757-760: `stop()` "never tears down transport connections while a read might still be in flight" |
| `ReloadReturns` | `Configs` {a, m}, `Malformed` {m} | a file configparser cannot parse raises out of `reload()` | PG 2074: "Always returns a ReloadStatus rather than raising" |
| `SkipAfterSuccess` | `EditsWhileBusy` TRUE | `start()` hashes the file after building from it | PG 2105-2106: the hash is of "what's already loaded" |
| `ShownIsCurrent` without `\/ late` | as it is (`MCGatewayWild.cfg`) | `manager.current` is read and stored without the lock (`main.py` 352-353, 489-490, `commit.py` 226-227, `gateway_status.py` 145): of two callers the earlier may store last, and an older gateway stays shown | `main.py` 347-351: "refresh app.state.gateway afterward" |

**Flush path** (from `MCFlushJournal.cfg`, with `Points` {p1, p2}, `MaxSize` 1,
`StalePoints` and `BadPoints` {}, `MayFailDisk` and `MayExpire` FALSE, and bounds
of 0 where none is given) **and scheduler** (from `MCScrapeModes.cfg`).

| Property | With | What the code does | What is said |
|---|---|---|---|
| `MemoryOnDisk` | `Bridges` {b1, b2}, `MayReload` TRUE, an outage | after a reload two bridges hold copies of the same rows | TS 3399-3400: "At worst a point exists on disk but not in memory ..., never the reverse" |
| `BacklogDrains` | `AutoRefresh` FALSE, a refusal, `FairSpec` | nothing retries a reading kept for a lock timeout | TS 2759: "the data point is kept for a retry" |
| `RediscoverFailureRetries` | `MaxOutages` 2 | the re-raised error is logged and the attempt counts as successful | TS 2212: "let the reconnect worker treat it as a failed attempt" |
| `CapHolds` | `MaxOutages` 2, `MaxCrashes` 1 | acknowledged rows loaded after a crash keep the backlog over its cap | `timescaledb.md` 127: "`max_backlog_size` caps the number of stored points" |
| `JournalKeepsUnwritten` | `DriftPoints` {p1}, `MaxOutages` 2 | a replayed reading is acknowledged, unwritten, when the database fails inside the column check that precedes the `try` | a journal row goes only when its reading was stored, or given up by a rule (`timescaledb.md` 121-131) |
| `StartupRecovers` | `MayFailStart` TRUE, `FairSpec` | `connect_tsdb()` fails in `__init__`: the flush thread, the only one to start a reconnect, never starts | TS 1006 catches the failure and goes on; `timescaledb.md` 131: "a background thread retries the connection" |
| `FreshData` | `Groups` {d1}, `Members` {s1, s2}, `Modes` {"interleaved"} | a reader that cannot reconnect "skips the cycle", and last cycle's values are forwarded once more under last cycle's verdict | PG 1650: "Still not connected — skip this cycle entirely" |

**Bridges** (from `MCDelivery.cfg` and `MCBridges.cfg`).

| Module | Property | With | What the code does |
|---|---|---|---|
| `InfluxBatch` | `FailedFlushIsRetried` | as it is | a backlog whose flush failed waits for the next outage (`influxdb_out.py` 343: "Don't clear backlog on failure — will retry later") |
| `InfluxBatch` | `DatabaseAppears` | `InfluxSetups` {"v3auto"} or {"v1"} | v3 leaves a missing database to the first batch written (`influxdb3_out.py` 430), v1 creates it in `connect()` only (`influxdb_out.py` 377): a backlog waits for ever |
| `InfluxBatch` | `NoReadingVanishes` | two writers | the copied list is cleared (339) |
| `InfluxBatch` | `NoReadingVanishes` | `WaitsForWriters` FALSE | closing does not wait for a write (1064) |
| `InfluxBatch` | `PointsAreDurable` | `MayTear` TRUE | the backlog file is rewritten in place |
| `StaleWatch` | `FrozenIsNoticed` | `WatchKinds` {"timescale"} | every reading not yet stale, the same values again included, starts the period anew (TS 3050; `timescaledb.md` 104: "the last reading that did change"); only a gap longer than the timeout makes a reading stale |
| `StaleWatch` | `ReconnectIsDue` | `Reports` {{m1}, {m1, m2}} | a row with other fields counts as changed or not by those it has (`influxdb_out.py` 847) |
| `PrometheusExport` | `CounterFollowsMeter` | `LabelOf` `SharedLabel` | two machines of one label feed one counter (`prometheus_out.py` 401-453) |
| `PrometheusExport` | `DashboardAgrees` | as it is | the sweep is periodic, the dashboard asks the clock (905: "the dashboard never disagrees") |
| `MqttLink` | `OutageIsRetried` | as it is | a disconnect that meets the thread about to end starts no other (444: "so a future on_disconnect can spawn a fresh one") |
| `MqttLink` | `LinkReturnsToService`, `GoneIsOffline` | `CallbacksWait` FALSE, `ReconnectAttempts` 0 | callbacks that overlap leave topics or the status behind (612, 468) |
| `MqttCommands` | `CommandReachesItsDevice` | as it is | the first bridged transport gets the command (PG 876-882) |
| `MqttCommands` | `WrittenIsSelected` | as it is | `write_data()` (MB 1597-1635) asks what the protocol permits, not what is selected on this device: sent to the wrong one, a command writes what was never selected there |
| `MqttCommands` | `AdvertisedIsAccepted` | as it is | announcements outlive a selection that shrinks (`mqtt.py` 1033) |
| `MqttCommands` | `CarriedOutOnce` | as it is | the stopped gateway's client still listens, and a coil is written without a read before |
| `MqttCommands` | `OnePlatform` | as it is | an entity is announced under two platforms in turn (1099) |
| `ConnectionNotices` | `LastNoticeIsTrue`, `OutageIsAnswered` | two setters | notices overtake each other (`mqtt.py` 705 and 483) |
| `ConnectionNotices` | `OutageIsAnswered` | `CrashesMidway` TRUE | the alert is out before the marker is written (TB 326) |
| `RegisterReads` | `OutagesAreForgiven` | `NoticesSilence` FALSE | `connected` stays true while the device is silent, so silence counts against its ranges (MB 975-979: "Do not penalize" them for a lost connection) |
| `SerialBus` | `AnswersAreOwn` | `MayAnswerLate` TRUE | `decode_frame()` looks at neither address nor command, so a late answer is taken for the next section's |
| `SerialBus` | `LinesComeBack` | an adapter unplugged and plugged in again | `_acquire_client()` (`serial_base.py` 218) keeps the dead client; 113: "retried every cycle" |

**Web server and database** (from `MCWebStorage.cfg`).

| Module | Property | With | What the code does |
|---|---|---|---|
| `ConfigStaging` | `CleanMeansWritten` | as it is | rows are marked clean though their track wrote nothing (`commit.py` 84-90: it "would only reproduce byte-identical output on disk") |
| `ConfigStaging` | `RollbackClearsAll`, `RollbackLeavesNoEdits` | as it is; the latter with `ScansOverlap` TRUE | a rollback leaves edits pending (`commit.py` 366; `scanner.py` 1212) |
| `ConfigStaging` | `NoDanglingBridge` | `Mishaps` 0 | a device keeps naming a bridge that was deleted (`ensure_bridge_sections_exist()`) |
| `ConfigStaging` | `PendingIsAlwaysCounted` | as it is | a request writes what it made of a row another had changed |
| `MetricSelections` | `CodeAndDescTogether`, `NoStaleFilterName` | as it is | a scan and a commit part code and description (`protocol_service.py` 927: code "always selects both"), or keep a name that is gone (`_sync_orphaned_filter_names()`) |
| `MetricSelections` | `CleanMarksAreWritten` | as it is | the flag is cleared, the staged values stay (`commit.py` 348) |
| `MetricSelections` | `MarkReachesFile` | `NameOf` `SharedNames`, `DescOf` `NoDesc`, `CsvRows` {"holding", "input"}, the other sets of marks {} | two registers of one name share a line |
| `AdminEdits` | `FinishedOnceInOrder` | `Committers` {k1, k2} | two commits apply one edit (`bridge_service.py` 1661; `timescaledb.md` 463) |
| `AdminEdits` | `UnstagedIsNotApplied`, `DeletionRebuilds`, `StagedColumnIsNotLost` | as it is | staging while a commit is at work (`bridge_service.py` 1439-1498) |
| `WideSchema` | `NarrowStaysNarrow` | as it is | a protocol registered for the narrow table comes back to a wide one at a reconnect (TS 1787, 2327; 2343: "Wide table will not be used") |
| `WideSchema` | `PictureStaysTrue` | as it is | a restore that read before a deletion puts the columns back into the worker's memory (TS 2189-2267 take no lock), and a deletion whose columns are gone for good raises in the synchronisation (9515) and leaves memory as it was (9512-9514: "so in-flight/next writes see the new shape immediately") |
| `WideSchema` | `CatalogIsTrue` | `ColumnOf` `SharedColumns` | two metrics clean to one column name |
| `Rollups` | `CompleteIsWhole` | as it is | `rollup_setup_complete` is not taken back when views go (`timescaledb.md` 666) |
| `Rollups` | `OthersAreLeftAlone` | as it is | rebuilding one stack purges all (TS 7509-7530 and 8142-8230) |
| `Rollups` | `ViewsCoverCatalog` | as it is | a register that came later never resets the flag, and is in no view (TS 1821) |
| `Rollups` | `OrderSurvivesFailure`, `RebuildMends` | the former as it is, the latter with `MaxRollupErrors` 0, `MaxRollupStarts` 3 | the list is in the order of the last repair (TS 7127; `timescaledb.md` 520) |
| `CompressionJobs` | `WorkIsNeverDisturbed` | as it is | a second pauser holds no job, and the first resumes it under the second; a pause that fails is logged and the edit goes on with the job scheduled (TS 4871-4875) |
| `CompressionJobs` | `RebuildReachesViews` | `RollupViews` {"hourly"} | chunks are looked up by the name of the view, which has none (TS 5238-5245; `timescaledb.md` 473, 493) |
| `CompressionJobs` | `RebuildRecompresses` | as it is | chunks an edit decompressed are not among those rewritten (`timeshift_service.py` 1667; `timescaledb.md` 477-479) |
| `TimeShift` | `ExportComesBack` | `Ticks` 2, `LiveTimes` {7}, `Destinations` {"v1"} | the v1 export drops readings after the start of the last second (`timeshift_service.py` 1261) |

**Devices** (from `MCDevices.cfg`).

| Module | Property | With | What the code does |
|---|---|---|---|
| `DeviceStartup` | `WritesFollowValidation` | as it is | a reload writes before `enable_write()` has judged (TB 430, MB 1359-1367; `transports.md` 96) |
| `DeviceStartup` | `ReconnectDiscovers` | as it is | a reconnect of `modbus_tcp` keeps the old map (243; `dynamic_register_discovery.md` 145: "on the first connect and on every reconnect") |
| `DeviceStartup` | `DiscoveryComesFirst`, `SilenceKeepsLayout` | as it is | `enable_write()` judges by the default map before discovery (comment MB 1281), and a silent walk resets what was learnt (`dynamic_register_discovery.md` 153: "the layout already in place ... is kept") |
| `Eg4Identity` | `BatteryIsKnown` | as it is | one failed cell voltage makes a battery an inverter for good (`eg4_metadata.py` 414-422) |
| `RegisterWrites` | `WritesAreTrue` | `Fields` `SharedFields` | two transports write one register: an update is lost |
| `RegisterWrites` | `WritesAreTrue` | `Fields` `OffsetFields`, `BitWords` or `Apart` | an offset is not taken off; a 16-bit entry with a bit range overwrites the register; a list of registers is written as if consecutive |
| `RegisterWrites` | `RefusedWasWrong` | as it is | writes of bit flags are refused for other than what is asked or held |
| `DynamicSizing` | `EveryTableIsSized`, `SizedByAll` | as it is | a table whose first registration failed has no interval recorded (TS 2513); a timeout that comes first leaves the one-shot retune without the rest (TS 5818) |

Noted beside the models: the v1 import repeats for ever on a type conflict that
floats do not resolve (`timeshift_service.py` 916-931); value edits of InfluxDB add the field to points that
never had it, and the preview counts fewer points (`influxdb3_out.py`
2020-2023, 2240-2256); a value set on a wide table fills NULLs; a staged text
edit of the narrow table becomes unacceptable, and holds up those behind it, when
the metric's last row goes (TS 9665); `_coerce_v1_field_value()` says otherwise
than it does (`influxdb_out.py` 1229-1231); a v3 deletion that is still pending
may hit, or be undone by, a later rewrite; texts of the narrow table that read
like numbers come back as numbers; a reconnect never refreshes an EG4 identity, though
the comments at `eg4_metadata.py` 884 and 929 count on it
(`refresh_eg4_identification()`, 847-876, is called only when `connected` was
false, MB 1301-1305 and 1362, and each transport has set it before it calls
`super().connect()`); two source columns may map to one field, and
the later wins; `write_enabled = relaxed` or `unsafe`
(`documentation/usage/transports.md` 100-107) raises ValueError; bridges are
never connected again by the gateway (PG 898-900, 1643-1649); write selections
are lost in a scan while `write_enabled` is false; `read_data()` raises KeyError
for a register type without a map (MB 1659); `reconcile_settings()` commits a
change of `is_orphan` meant for display (WS `routers/devices.py` 401-409).

## 6. What is only model-checked, and what is not modelled

*Out of the prover's reach:* liveness under fairness and `ENABLED`
(`EventuallyServesDisk`, `OutagesEnd`, `DeliveryGoesOn`, `SilenceIsEnded`,
`DeviceKeepsAnswering`). No module uses `RECURSIVE`.
*Not yet proved:* the part of `ValuesAreTrue` that is about exports and imports
(`TimeShiftIsTrue`), and of `WebStorageTypeOK` the types of `TimeShift`; section 4
names the other parts. They are checked on the instances of section 3 only.

*Left out of the modelled parts.* Gateway: logging and messaging set-up. Flush
path: the migration gate and `close()`. Database: schema migration of old
versions, the status queries of the pages, every SQL detail that changes nothing
the properties see. Scheduler: `post_process_data()` that empties a cycle or
raises, a clock that steps back, the per-call bus locks, the primary's
`send_*_register` flags, groups without Modbus-shaped data; every range is
decoded when it has been read, as if alone of its register type. Register map:
texts (`text_keys`), the byte-stream path of serial and CAN protocols, JSON
settings, expressions. Value edits: an InfluxDB 3 field keeps its type in the
server's schema when its last value goes; in the model its type is that of its values. Writes: coils, floats and texts. Start-up: transports hit
by the `cleanup()` of a sibling. Serial: `async_mode`, `write_data()`, what a
payload means. Web: pages, analysis, read-only queries.

*Failures left out.* A read counts as complete before its registers are taken out,
which may raise (MB 3120-3129); in the model the two are one step. `send_message()` may raise while a
notice is delivered, which is logged (TB 366-369). `_view_exists_helper()` takes an error of the
database for a missing view (TS 8070-8076), so that the removal of a protocol may
pass over one (7127) that a later CASCADE takes (7151) and the refresh list keeps. `setup_rollup()`
swallows what its set-up raises (TS 6292-6307), and the look-up of a load returns 0.0 on
an error (5671-5673), which sizing takes for no load. A crash may leave half a `config.cfg`, which is written in
place (`config_writer.py` 560).
*Simplified.* One description entry where a range has several parts of one
name, the model has one for each (`protocol_settings.py` 1939-1983). A number
that does not fit an unsigned register raises (MB 2679), in the model it is a refusal.
The marks of `MetricSelections` are those of `write_enabled = true`; otherwise the scan
finds no write names (`scanner.py` 1059-1073). Properties of an EG4 device's identity are
excused once a read of the first series failed (`misjudged`), and then say
nothing of its retries.

*Not modelled at all.* `canbus`, since the gateway never reads it: it keeps the
empty `scrape_target` of `transport_base` (TB 999-1011: "a scraper that keeps
this default is never polled"), and the scrape groups take only transports that
have one (PG 1447). Messaging: one HTTP call, sent or dropped. `json_out`: appends
a line. Alembic migrations, tables and filters without state, simulators and
converters, and the adapters that only name a pymodbus client.

## 7. Plan

1. *Done.* The gateway (`GatewayLifecycle`, `GatewayManager`, `BusOwner`), the
   flush path (`Backlog`, `FlushPipeline`, `DurableStore`) and the scheduler
   (`ScrapeScheduler`), with their proofs.
2. *Done.* The other bridges (`InfluxBatch`, `MqttLink`, `MqttCommands`,
   `PrometheusExport`, `StaleWatch`, `ConnectionNotices`), the device
   (`RegisterReads`, `RegisterMap`, `RegisterWrites`, `DeviceStartup`,
   `Eg4Identity`, `SerialBus`), the web server (`ConfigStaging`,
   `MetricSelections`, `AdminEdits`, `ValueEdits`, `TimeShift`) and the database
   (`WideSchema`, `Rollups`, `CompressionJobs`, `DynamicSizing`).
3. *Done.* The proofs of what these components keep: the outcome of a reload, one
   copy of a row, register reads, the influx bridges, counters, notices, commands
   and frozen devices, the mqtt link, the serial port, the identity of EG4 devices,
   the start-up of a transport, what writes reach and mean, selections, settings and database
   edits, compression jobs and the sizing of tables, the register map
   with its filters and groups, the wide table, the rollup views, the edits of stored values, and the types of
   the parts in `MCDelivery`, `MCBridges` and `MCDevices`.
4. To prove next: exports and imports (`TimeShiftIsTrue`), and the types of `TimeShift`.
5. To model: the migration gate (TS 2698) and `close()`; the siblings of a shared
   Modbus client; `async_mode` of the serial port; the scheduler's liveness (a due
   member is served in the end, unless a slow device starves it).
