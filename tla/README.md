# A formal model of wirestudio

wirestudio (this repository, `esphome-studio`) is a design tool for ESPHome
devices: a browser application and a FastAPI/MCP server around JSON design
files, a library of components and boards, a pin solver, and a client that
pushes firmware to a fleet of devices.  This directory holds TLA+ modules that
model the parts of it whose correctness depends on order, sharing or failure,
the TLC configurations that check them, and proofs for TLAPS.

Paths below are relative to the root of the repository (`src/` in
`PROJECT.json`).

    tlc -config PinSolver.cfg MCPinSolver      # any run: <cfg> <module>
    tlapm PinSolverProofs.tla                  # the proofs; also DesignServerProofs,
                                               # FleetPushProofs, FleetTailProofs,
                                               # StudioSyncProofs, AgentTurnProofs,
                                               # AgentSessionProofs, DesignEditProofs

## 1. Inventory

| component | code | state | operations | where it can go wrong |
|---|---|---|---|---|
| pin solver | `wirestudio/csp/pin_solver.py` | the design being solved, `used_gpios`, `used_expander_pins`, the result | `solve_pins`: apply locks, then solve each connection | bookkeeping of what is taken, in every order of the connections; skipped connections; being called again |
| compatibility checker | `wirestudio/csp/compatibility.py` | none | `check_pin_compatibility` | its tables of capabilities and output kinds are copies of the solver's, and of each other |
| design store | `wirestudio/designs/store.py` | `designs/<id>.json` | save, load, delete, exists, list | several threads and no lock; save truncates, then writes, and may be killed in between |
| design events | `wirestudio/designs/events.py`, `GET /designs/{id}/events` | per-design sets of `asyncio.Queue` | publish after each write, subscribe, deliver, unsubscribe | the write and its event are two steps; events of two threads cross |
| active design | `wirestudio/designs/active.py` | one id or None | set (HTTP, tool), clear by delete, read by every tool without an id | read-then-clear, check-then-set, ids without a file |
| HTTP API | `wirestudio/api/app.py` | the singletons above | the `/designs` endpoints; also agent, fleet, render, kicad, enclosure endpoints | endpoints are plain `def`: they run in a thread pool |
| MCP server | `wirestudio/mcp/server.py` | none | load, edit, save of a design by 14 tools | a lost update against the HTTP endpoints; two tools are kept apart only by the event loop |
| design edits | `wirestudio/agent/tools.py`, `wirestudio/designs/seed.py`, `web/src/lib/design.ts` | the design document | add/remove components, buses, connections | dangling references; two implementations of one seeding rule |
| agent | `wirestudio/agent/agent.py`, `session.py`, `web/src/components/AgentSidebar.tsx` | session files, a turn's copy of the design, the chat | a turn of up to N tool rounds, New | a failure in mid-turn; two turns of one session; a chat that is cleared while it is answered |
| browser application | `web/src/App.tsx` | design, saved id, dirty flag, event stream | select, edit, save, delete, solve, refetch on event | answers that arrive late or out of order, and overwrite |
| fleet client, log tail | `wirestudio/fleet/client.py`, `web/src/components/PushToFleetDialog.tsx` | remote file and job; log, offset, mode | push (write, commit, compile), tail by SSE with a polling fallback | a push that stops half-way; switching between stream and polling |
| generators | `wirestudio/generate/yaml_gen.py`, `kicad/generator.py`, `kicad/render.py` | none | YAML, SKiDL script, a picture of it by subprocesses | what earlier edits left dangling; each program that can be missing, hang or fail |
| JLCPCB check | `wirestudio/jlcpcb/check.py` | none | a report on the parts of a design | the service fails in the middle of it |
| KiCad import, library, recommender, enclosure search, USB detection, dialogs | see `PROJECT.json` | none of their own | pure functions, queries, forms | nothing concurrent |

How they interact.  The browser calls the HTTP endpoints and listens to the
event stream of the design it shows; an MCP client calls tools, which default
to the active design the browser sets.  Both save through the one
`EventEmittingDesignStore`.  The endpoints run on pool threads; MCP tools are
sync functions that FastMCP calls on the event loop itself, which also runs
the SSE generators.  The browser, the agent and the MCP tools all call
`solve_pins`, and the generators and the checker read what it produced.

What makes each part correct:

* **pin solver**: it never makes a conflict of its own; what the user bound or
  locked is respected; every gap has a reason; the reported diff is the real
  one; no pin is wasted; running it twice is running it once; what it picks is
  what the checker accepts.
* **store, events, active design**: a change of a watched design reaches its
  watchers, and the last word they hear is the truth; designs stay readable;
  edits of tools are not lost to other tools; the active pointer does not point
  at nothing.
* **browser**: what is on screen is the saved design plus the user's own
  edits; edits are never overwritten silently.
* **fleet, tail**: a failed push can be repeated; the log on screen is a prefix
  of the real one, without gaps or repeats, and the tail ends with the job.
* **edits, generators**: every reference of a design names something in it,
  after any sequence of edits, and such a design renders.
* **agent**: what the session, the chat and the design show of a turn agrees;
  a turn that was cut short leaves nothing; the composer comes back.

Every place where the code is exposed is listed in `PROJECT.json` under
"hazards", at its line, with the property that covers it or the reason why none
does.

## 2. Modules

| module | composes | section | proofs |
|---|---|---|---|
| `PinAssign` | the abstract specification of a solver | 3 | — |
| `PinSolver`, `PinCompat` | the solver, which implements `PinAssign`, and the checker over its results | 3 | `PinSolverProofs` |
| `DesignServer` | store, event bus, streams, pointer, two kinds of thread | 4 | `DesignServerProofs` |
| `StudioSync` | one tab of `App.tsx` with the server reduced to what it sends | 5 | `StudioSyncProofs` |
| `LogTail` | the abstract specification of a log that is tailed | 6 | — |
| `FleetPush`, `FleetTail` | the dialog and the relay over the pushes of a device; they implement `LogTail` | 6 | `FleetPushProofs`, `FleetTailProofs` |
| `DesignEdit`, `DesignExport` | tools.py, seed.py and design.ts on one document; the generators over the documents reached | 7 | `DesignEditProofs` |
| `AgentTurn` | turns, session files, sidebar | 8 | `AgentTurnProofs`, `AgentSessionProofs` |

Each `MC*` module holds the instance of the module it is named after.  A run
explores an instance once with all the properties that it is big enough for.
Runs stay small (2 threads, 1 or 2 designs, 1 stream, 2 turns); where a bound
hides a case, the section says so.

## 3. The pin solver

### `PinSolver.tla`

`solve_pins` is sequential, and what is hard is not interleaving but the number
of inputs.  So the initial states are the inputs: every combination of wirings,
lock maps and board cases the constants offer; the specification then runs the
function with **one action per iteration** of its loops.

| code | model |
|---|---|
| no or unknown board, early return | `NoBoard` |
| `_used_gpio_pins`, `_used_expander_pins` | `UsedGpioPins`, `UsedExpanderPins`, taken in `Start` |
| `_apply_locked_pins`, one outcome per branch | `NotLocked`, `LockWrongKind`, `LockAligned`, `LockMismatch`, `LockFill` |
| lookup of component, library entry and role | `Lookup`, `Unresolvable`, `AlreadyBound` |
| gpio: filter, sort, first free one | `Candidates`, `Before`, `SolveGpio`, `NoGpioCandidate` |
| bus by type, expander slot, hub parent | `SolveBus`/`NoBus`, `SolveExpanderPin`/`NoExpanderPin`, `SolveParent`/`NoParent` |
| `_static_warnings` | `Finish` |
| the button pressed again | `SolveAgain` |

A board pin is a number, its rank in the name order that ends the solver's sort
key; its tags are a set of strings as in the library.  A component is its
position in the design.  `locked_pins` is one map for all components.  Warnings
and unresolved entries keep their code and place, not their wording.  Left out:
locks that are not strings or not dicts (skipped by the code), and expanders
with digit roles (there are none; see the hazard).

`PinAssign.tla` says what a solver is, without loops, order or bookkeeping: it
fills empty targets one at a time, a locked one as the lock says (`Obey`), any
other with something that no connection holds and no lock asks for (`Choose`).
`SolverIsAnAssigner` is `PinAssign`'s specification with the locks of the design
for its `wish`; every action of `PinSolver` is one of its steps or a stutter.

`PinCompat.tla` adds `check_pin_compatibility`: connections, locks and the pins
of buses, so that the tables the code keeps twice can be compared.

### Runs

`MCPinSolver.tla` enumerates designs of two sorts in one instance.

* **Gpio**: a board of five pins, one of each sort the preference order
  distinguishes (input-only ADC1; ADC2; boot pin without I2C; plain) and one that
  is not tagged `gpio` (GPIO0 of the ESP32 boards), a sensor and a
  display with analog, output, chip-select, input and UART roles, unknown components,
  libraries and roles, bound pins (one that is not on the board) and locks that
  agree, disagree, double up or name no pin.  Three connections: enough for a
  pin taken by an earlier *and* one held by a later connection, for running out
  of candidates, and for a lock that concerns a third one.
* **Mix**: two expanders of one and two pins, two I2C buses and a UART but no
  SPI, a hub and a role whose hub is not known.  Three connections exhaust
  every slot.

| run | shows |
|---|---|
| `PinSolver` | `SolverIsAnAssigner` (the refinement); `NoSolverCollision`; `LockedPinsReserved`; `GreedyChoiceJustified` (each better candidate really was taken); `GapsExplained`; `DiffIsExact`; `SolveIsIdempotent`; `RiskOnlyWhenForced` (boot and serial pins only as a last resort); `SameVerdictButForTwoGaps` (see below); `LinesJudgedAlike` (a pin of a bus and the same pin wired to the line of a component get the same verdict, but for I2C lines on a pin tagged `no_i2c`, which only the layer of the buses looks at) |
| `PinSolverVerdict` | violated: `SameVerdict` |

The solver ends, so these runs do not check for deadlock.

**Finding.**  A pin is legal for the solver if it is among the candidates of the role
(`Candidates`), and for the checker if it has no error for it (`CalledAnError`:
`locked_pin_invalid` or `input_only_as_output`).  The checker is there to tell
whether a pin can "play the role's library kind" (`compatibility.py:237-238`), and
`README.md:25` speaks of "legal pins"; but the two do not agree
(`SameVerdict`, violated by `PinSolverVerdict`):

* the tables of output kinds differ, so that an `spi_cs` role can be given an
  input-only pin, which the checker reports as an error on the design just
  solved;
* a kind that is in neither table of capabilities, such as `uart_rx`, needs `gpio`
  for the solver (`pin_solver.py:83`) and nothing for the check of locks
  (`compatibility.py:282`): a lock of such a role on GPIO0 of the ESP32
  board, which is not tagged `gpio`, is put there and nobody says so.

TLC stops at the first; run with `-continue` it finds both.
`SameVerdictButForTwoGaps` says that there is nothing else, for choices
and locks alike, and names the two gaps as narrowly as they are.  Pins without any
tag are left to other layers by the checker (`compatibility.py:279-281`), and so by
the two properties.

No run is about backtracking: `pin_solver.py:8` speaks of "deterministic
backtracking on conflicts", but the code, and so the model, is greedy, and a
connection can be left without a pin although an assignment for all exists.

### Proofs: `PinSolverProofs.tla`

For every board, library, design, lock map and number of connections, from the
assumptions `SizeAssumption`, `LibraryAssumption` and `DesignAssumption` (pins
and ids are naturals, `None` is not; targets and locks are well-formed; TLC
evaluates them on every run):

* `TypeCorrect`: `Spec => []TypeOK`;
* `SafeChoicesHold`: the inductive invariant;
* `SolverNeverCollides`, `LocksAreRespected`, `BoundStaysBound`: consequences;
* `SolverImplementsAssigner`: the refinement, step by step from the invariant: a
  lock that is filled is an `Obey`, a choice of the second loop a `Choose`,
  since `used` covers whatever the abstract solver must not take, and every
  other action a stutter;
* `DiffIsAlwaysExact` (which connections changed, what they were and what they
  are), `EveryGapIsExplained`: each with an invariant of its own
  (`DiffSoFar`, `GapsSoFar`) that says which connections the loop has passed.

Why a strengthening is needed: "no collision" says nothing about the *later*
connections, whose pins must be avoided before the loop reaches them.
`SafeChoices` therefore adds that while the loops run `used` covers every held
pin and slot (`UsedCovers`) and every lock already passed (`LocksCovered`), so
all of them once the second loop starts; that the first loop binds only what a
lock asks for, so the solver has chosen nothing before it has seen every lock
(`OnlyLocksSoFar`); that an unbound connection is untouched
(`UnboundIsUntouched`), which makes `SolverChose` stable; and that a loop begins
at the first connection (`StartsAtOne`), without which `LocksCovered` would not
follow when the first loop ends.  The proof sorts the 20 actions into two
shapes, *quiet* steps (no target changes, the used sets grow) and *binding*
steps (one unbound connection gets a target that was not used), and shows once
for each shape that it keeps the invariant.

`ChoicesAreGreedy`, `SolvingTwiceIsSolvingOnce` and `RiskIsTheLastResort` need the
opposite of `UsedCovers`: that nothing is counted as used which nobody holds
(`UsedIsHeld`).  With it a candidate that was passed over, or was missing when
the solver gave up, was held at that moment, and what is held stays held while
the solver runs (`GreedySoFar`, in `GreedyInv`).  `StuckInv` adds that a
connection the second loop left empty is stuck: no lock, and nothing of its
kind free on the board, in the design or on an expander.  Stuck connections
stay so, and since every lock is filled or contradicted after the first loop
(`LocksFilled`), a second solve finds nothing to do.  `RiskIsTheLastResort`
follows from `ChoicesAreGreedy`: what the checker warns about is what the
sort puts last.

`VerdictsAgreeButForTwoGaps` rests on `LocksDecide` (an open connection that is locked
stays open or gets its lock), `ChoosesCandidates` (what the solver chose is a
candidate) and a comparison of what the solver requires of a pin with what
the checker calls an error, default by default (`TablesAgree`).  `BusesAreJudgedAlike` compares the two
tables of directions for any tags of any pins; proving it showed where it
fails.  Boards tag a pin `no_i2c` (GPIO16 of the ESP8266), the bus layer warns
about it (`compatibility.py:336`) and the layer of connections does not look;
the property leaves those pins out, and the instance has one.

## 4. Designs on the server

### `DesignServer.tla`

One process per thread: `Workers` is the pool that runs the `def` endpoints,
`Loop` the event loop that runs the MCP tools and the SSE generators, one at a
time.  `op[a]` is the request a thread runs and its next step; a step is one
system call or one access to shared memory.

| code | model |
|---|---|
| `FileDesignStore.save`: `write_text` (truncate, write), `stat` | `OpenFile`, `WriteFile`, `StatFile` |
| `EventEmittingDesignStore.save` / `.delete`: publish afterwards | `PublishSaved`, `PublishDeleted` |
| `POST /designs` | `SaveRequest`, then the above |
| `DELETE /designs/{id}` | `DeleteRequest`, `Unlink`, `PublishDeleted`, `CheckActive`, `ClearActive` |
| `PUT /designs/active` | `PutActive` |
| `set_active_design`, with an id and with `""` | `SetActiveTool`, `SetActive`; `ClearActiveTool` |
| the design tools: resolve, `load`, edit, `_save` | `ToolCall`, `LoadDesign`, `ToolError`, then the save |
| SSE: `subscribe`, hello frame (`list()` reads and stats every file), queue, disconnect | `Subscribe`, `ReadHello`, `StatHello`, `Deliver`, `Leave` |
| the process is killed, and started again | `Crash` |

A document is the set of edits made to it; its size grows with them.  That is
what the file model needs: a write at offset 0 of a file that another save
wrote meanwhile leaves the old tail if the old text was longer, and such a file
(`Torn`), like an empty one, does not parse.  A write to a deleted file goes to
the descriptor and is lost.  `load` tests and reads the file in one step, and
`DELETE` its `path.exists()` and the start of the request; both tests are
followed by a step of their own that meets whatever happened since.  Tools that
only read are the first disjunct of `LoadDesign`.

`last`, `view`, `kept`, `marred` and `fate` are history variables; no guard
reads them.  `view[s]` is what the client of a stream can know: *current*,
*behind* (the file changed since) or *notified* (an event is in the queue).

`Crash` loses what is in memory: the requests, the streams, the queues and the
active pointer.  The files stay as they are; one that was being written is
`marred` from then on, as is one that two saves wrote at once.

`kept` is the account that `EditsSurvive` compares a design with: an HTTP write
or delete opens it anew, and it then has the document of the last HTTP save and
what tools added; a tool may also save what it loaded (`ToolEdits` has the empty
edit).  One case is left out of it: an HTTP save that meets a tool which has
loaded the design and not written it yet (`Loaded`).  The tool undoes such a save, as
it brings a design back that was deleted in between; the code promises nothing else.
So the property says that this overlap is the only way to lose a save.

Not modelled: the validation errors of requests that change nothing, wording of
events, and the contents of designs.

### Runs

| run | instance | shows |
|---|---|---|
| `DesignServer` | 2 designs, 2 workers, loop, 1 stream, 1 edit, 3 requests or crashes | `EveryWriteAnnounced`, also with a stream about one design and requests about another; `EditsSurvive`; `SoloSavesAreIntact`; `DanglingOnlyByLateSet`; `ClientsCatchUp` |
| `DesignServerDeleted` | 1 design, 4 requests | violated: `DeletedMeansGone` |

`MaxRequests` bounds the requests that clients send and the crashes, taken
together, and a stream is opened once; once they are spent the system stops, so
deadlock is not checked.  Two workers and the loop allow every pairwise race of
the table above with a third party watching: two saves, a save or a tool in a
delete, a delete in a tool, a subscription in any of them; three requests are a
race of two and what set it up, or a race and the crash in it.  The proofs below
are for any number.

**Fairness.**  Weak fairness of each thread's next step:
the threads of the pool are scheduled by the operating system and never wait
for each other.  Weak fairness of each generator: the loop runs its tasks, and
no step on it waits.  An event put into the queue by a pool thread does not
wake the loop at once (`put_nowait` is not thread-safe), but the generator waits
with a 15 s timeout for its ping, so that it does look at its queue again.
Clients are not fair: none ever has to send a request, and the stream may end,
which `ClientsCatchUp` allows for.

**Finding.**  A save between the unlink and the publish of a delete announces
itself first, so that `deleted` is the last word on a design that exists
(`DesignServerDeleted`; `App.tsx:181` relies on the opposite).

Delete also reads the pointer in one step and clears it in the next, so a
`PUT /designs/active` of another design in between is lost.  The model has this
behaviour and no run is about it.

### Proofs: `DesignServerProofs.tla`

For every number of designs, threads, streams, edits and requests, from
`ActorAssumption`, `RequestAssumption` and `DocAssumption` (the loop is no pool
thread, `None` no id, documents are sets of edits): `TypeCorrect`,
`ServerInvHolds`, and from it `DesignsStayReadable`,
`PointerDanglesOnlyByLateSet` and `WritesAreAnnounced`; and `EditsAreKept`.

`SoloSavesAreIntact` is not inductive, since it says nothing of a file while it
is written: `SoloWriter` adds that a single writer has its own empty file in
front of it.  Neither is `EveryWriteAnnounced`: a thread in `stat` counts as
announcing, but gives up without an event if its file is gone.  `Served` says
whom a client that is behind can really count on: a save whose file is still
there, or the delete that took it away and has not published (`WillPublish`);
`LiveHasFile` carries this from the write to the `stat`.

`EditsSurvive` needs what a tool in mid-save is about to write: `ToolsInv`
adds that its document has everything on the account (`LoadedIsFresh`), which
holds because a tool runs on the loop from its load to its save, and what others
do to that design meanwhile only makes `kept` smaller.

Only model-checked: `ClientsCatchUp`.

## 5. One browser tab

### `StudioSync.tla`

The tab keeps a working design, the original that Reset goes back to, the id of
the selected saved design and an `EventSource` for it.  Every request is sent
in one step, served in another and answered in a third, which is all that the
code after the `await` does; the effects of a changed state belong to the step
that changes it.  A document is its id and the set of edits that made it.

| code | model |
|---|---|
| the `setDesign` handlers, Reset | `Edit`, `HandleReset` |
| the example effect with its `cancelled` flag | `SelectExample`, `ExampleAnswered` |
| designs from the new-device and USB dialogs | `AdoptDesign` |
| `handleSelectSaved`, `handleSave`, `handleDeleteSaved`, `handleSolvePins` before and after the await | `SelectSaved`, `HandleSave`, `DeleteSaved`, `SolvePins`; `SelectAnswered`, `SaveAnswered`, `DeleteAnswered`, `SolveAnswered`; `Fail` |
| the effect of `selectedSaved` | `Listen`, `StreamOpen`, `Drop` |
| the `saved` and `deleted` handlers | `OnSaved`, `RefetchAnswered`, `OnDeleted` |
| the server, other tabs, MCP tools | `Serve`, `ForeignSave`, `ForeignDelete` |

The server is the one of section 4 with atomic requests and events in the order
of the writes: what the tab does wrong here, it does with a server that is
better than the real one.  Left out: the debounced render, the board cache, the
sidebar list, and the PUT of the active design (whose late arrival
`DesignServer` has).  `SolvePins` stands for a turn of the agent too, whose
result replaces the design in the same way.

Most of what one would like to say of this tab fails, because answers are taken
without a look at what happened meanwhile; the properties say exactly when.
`crossed` is set when an answer lands after the tab turned to another design,
and cleared when the user picks one with an answer of its own time; requests
that were under way while it was set stay outdated (`Outdated`), also if the
pick is of the design that was selected before.  `missed`
is set when the tab skips an event because it is dirty, loses a refetch, finds
at a (re)connection that the design changed meanwhile (the `hello` frame tells,
and is only logged), or takes an answer that is older than a write with nothing
more recent on its way; a fresh answer clears it.

### Runs

| run | shows |
|---|---|
| `StudioSync` | `SelectionIsShown`; `BadgeIsHonest`; `StaleIsExplained`; `ScreenCatchesUp` |
| `StudioEdits` | violated: `EditsSurviveRefetch` |

Two designs, one of which is also the id of the example; two requests under way,
enough for any pair to overtake each other; one edit, two actions of the user and
two writes by others, so that two refetches meet.  These bounds run out, so deadlock
is not checked.

**Fairness.**  Requests are answered or fail, the stream connects and events are
handled; users, other writers and lost connections are not fair.

**Finding.**  The `saved` handler tests for unsaved edits before the await of its
refetch and overwrites the design after it: an edit made in between is lost
(`StudioEdits`).  The user's own save triggers such a refetch.

### Proofs: `StudioSyncProofs.tla`

For every number of designs, of requests under way, of edits, writes and actions
of the user, from `StudioAssumption` and `NoneAssumption` (`None` is no id, no
document, no slot; the example is a design; one request fits): `SyncInvHolds`,
and from it `SyncTypeCorrect`, `SelectedIsShown`, `BadgeTellsUnsaved` and
`StaleHasAReason`.

None of the three properties is inductive, because each depends on the answers
that have not arrived.  `DisksAreSafe` says of them that they carry a document of
their own design, that its edits have been on disk, and that it is on disk still
unless a write has aged the answer: so what becomes `original` has no edit that
was never saved, and an unsaved edit on screen makes the design differ from it.
`OneDesign` says that the screen, the base of Reset and the selection are one
design and that every request that is not outdated is about it, so that answers
of their time cannot mix two.  `NewsIsPending` says that while the stream is open
the base is the file, or an event or a fetch of the selected design is under way:
when the tab comes to rest, only the first is left.  The proof goes through the
actions once for each of the four parts.

Only model-checked: `ScreenCatchesUp`, which is liveness.

## 6. Pushing to the fleet

### `FleetPush.tla`

| code | model |
|---|---|
| `POST /fleet/push`, its checks | `PushRequest` |
| `push_device`: list, create, write, compile | `ListTargets`, `CreateTarget`, `WriteContent`, `Compile` |
| an error status, a timeout, an httpx error | `Reply` (done, but not heard), `Unreachable` (not done), `Refuse` (refused) |
| the build | `JobLine`, `JobFinish` |

All pushes are for one device: pushes of different devices share nothing.  The
add-on is not in this repository; the model has the one the tests work with
(`FakeFleetAddon` of `tests/test_fleet.py`): a target that exists is not created
again, the first write to a staged file renames it unless the name is taken, a
compile builds the file as it is then.  Its definitions, here and the builds of
`LogTail`, are marked external.
The placeholder `.pending.<name>.yaml` has no reader and is left out.

### `FleetTail.tla`

| code | model |
|---|---|
| the effect of the dialog and its cleanup | `FleetStatus`, `Unmount` |
| `handlePush`, up to and after its await | `HandlePush`, then `PushAnswered` or `PushLost`; `TailJobLog` |
| `streamJobLog` and its handlers | `OnMessage`, `OnErrorFrame`, `TransportError` |
| `/fleet/jobs/{run}/log/stream` | `StreamOpen`, `RelayChunk`, `RelayError` |
| `pollJobLog`, up to and after each await | `PollAnswer`/`PollError`, `PollAppend`, `PollAgain` |
| a push of the same device from another tab | `PushElsewhere` |

`LogTail.tla` says what all of this is for, in six actions: builds write lines
and end, a tail begins once for a run and wipes the screen, copies the lines of
its run from where it stands, and either finishes with the last piece of a run
that has ended or stops.  `DialogIsATail` is that specification under a mapping:
`lines` and `over` are those of the jobs (`BuiltLines`, `Over`), `begun` the runs
that are tailed, `screen` the log, `whole` the word "finished", and `cursor` has
an entry for each tail alive, how far it has come (`Cursor`).  Hidden are the
stream, the relay and what it has sent, the polls and the answers under way, the
two shared refs and the push itself.  A frame or an answer that is shown is a
`Copy` or a `Finish`, even if it was read from the job long before; an error, a lost
stream and the cleanup are a `Stop`; what the relay and the timers do, and the
cleanup of a dialog without a stream, are stuttering.  That a "finished" dialog shows
the whole log (`FinishedMeansWhole`) is in it, since only a `Finish` sets `whole`, so
no run checks it a second time; it has a theorem of its own.

`es`, `wire`, `relay` and `poll` have an entry for each run, since the button
is enabled again after each push and nothing stops the tail of an earlier run;
`ref` and `abort` are the two refs that all of them share.  A log is its number
of lines, a chunk the lines between two offsets, and the text on screen a
sequence of lines with the run they are from.  A named `error` frame and the
browser's own `error` event reach the same two handlers in the order they were
registered, which the actions take as one step.

### Runs

| run | shows |
|---|---|
| `FleetTail` | `BuildIncludesPush` and `OnlyOneCreates` for two racing pushes; `NoGapsNoRepeats`; `SilentAfterClose`; `DialogIsATail`; `TailEnds` |
| `FleetStranded` | violated: `NeverStranded` |

Two pushes race with each other, or follow each other in one dialog; two lines
are a chunk in the middle and one at the end; one frame under way is enough for
a frame to meet a closed stream.  Pushes run out, so deadlock is not checked.

**Fairness.**  Requests of a tail are answered, timers go off, frames arrive
and builds end (`TailStep`, `JobFinish`).  Nothing forces a user, an error or a
push to go on.

**Finding.**  A transport error closes the stream in the listener meant for the
server's `error` frames, which is registered first; the fallback to polling in
`onerror` then takes the closed stream for a finished one, and the dialog stays
at "tailing" (`FleetStranded`).  The fallback is dead code in the browser, though
not in the test, whose stub calls `onerror` alone; the model has no action for
it, and polling is reached only where `EventSource` is unknown.

### Proofs: `FleetPushProofs.tla`

For every number of pushes and every length of a log, and whatever the dialog
and its tails do meanwhile: `FleetInvHolds`, and from it
`BuildsIncludeTheirPush` and `NobodyCreatesTwice`.  The steps of `FleetTail`
move the fleet in three ways or not at all (`FleetMoves`).  The invariant adds to
the two properties that the file is the last that was written, so that a build
of the file as it is comes after every write so far; and that who found no file
and wrote it was the first to write, so that a second one finds the name taken.

### Proofs: `FleetTailProofs.tla`

For every number of pushes and of tails alive at once, every length of a log and
of the buffers: `TailInvHolds`, and from it `TailTypeCorrect`, `LogsAreGapless`,
`FinishedIsWhole` and `ClosedDialogIsSilent`.

`TailInv` follows a line from the job to the screen.  `TailsAreKnown`: a run is
tailed once, by stream or by polling but never by both, a closed stream carries
nothing, and the only tail of an open dialog is the one `ref` names, so that the
cleanup reaches it.  `FramesFollow`: the chunks under way of one stream follow
each other up to where its generator stands, and the same goes for the answer to
a poll.  `LogInOrder`: the lines on screen of a run are one interval, which ends
where the next chunk under way begins (`Got`) while the tail lives, and starts at
the first line unless another tail's run can have cleared the screen; and
"finished" is said only of a run whose last chunk came with the end of the job.
Without `FramesFollow` an arriving chunk could leave a gap, and without `Got` it
could repeat a line.

`DialogImplementsTail` is the refinement: the initial states are `LogTail`'s, and
a step of the dialog, the relay or the add-on is one of its actions or none
(`StepReads`).  Each kind of step is shown by one lemma: `BuildsSeen` for the
builds, `BeginsTail`, `TakesPiece` for a piece by either way, `StopsTail`, and
`ReaderSame` for the hidden steps.  Here `TailInv` is what makes the mapping
work: a piece may be printed because it begins at the cursor and ends within
what the build has written, a tail may begin because its run was not tailed before,
and a "finished" is the last piece because the generator read it after the end of
the job.  One fact is added, `NoBuildYet`: a push has no job until its compile,
so that a line or an end is always one of a run that goes on, and enqueueing a build
changes nothing that a reader of the logs could see.

Only model-checked: `TailEnds`.

## 7. Editing a design

### `DesignEdit.tla` and `DesignExport.tla`

A design is one JSON document that the agent's and the MCP server's tools edit
in Python and the browser in TypeScript.  Each edit is a pure function of the
document in the code, and an operator here; an action applies one.  What two
editors can break in it together is the names: connections refer to buses and
components by id, ids are made up by two numbering schemes, typed, renamed,
freed and taken again.

| code | model |
|---|---|
| `seed.py`: default target, buses, instance id, one connection per pin | `DefaultTarget`, `PrepareBuses`, `InstanceId`, `Seed`, in `AddWithConnections` |
| the same in `design.ts` | `DefaultTargetUi`, `PrepareBusesForLib`, `NextBusIdUi`, in `AddComponentUi` |
| tools: `add_component`, `remove_component`, `set_connection`, `add_bus`, `set_board` | `AddComponentTool`, `RemoveComponent`, `SetConnection`, `AddBusTool`, `SetBoard` |
| browser: add, remove, board, buses, rows of the connection form | `AddComponentStudio`, `RemoveComponent`, `SetBoard`, `AddBus`, `UpdateBus`, `RenameBus`, `RemoveBus`, `UpdateConnectionTarget` |
| `boardData`, fetched when the board of the design changes | `shown`, `BoardArrives` |
| `solve_pins` | `SolvePins`: the first candidate of the target's kind |

The rules for rails are the same text in both languages, and are one operator
(`PowerRail`, `GroundRail`); the tables of bus kinds are written twice in the
code, four times in all, and here as well.  An id is a triple, so that `i2c_1`
and `i2c0` are two ids and a hint can be the id a counter would choose next.
Which pin or expander slot `solve_pins` picks is the matter of `PinSolver`;
here every gpio gets `Pin`.  The reply of a board fetch that was overtaken is
cancelled in the code, so `BoardArrives` brings the board of the design only.

`loose` and `astray` are history variables that no edit reads.  `loose` has the
ids that were removed while something named them, or that somebody named for a
pin they do not fit: the code accepts both on purpose.  `astray` has the owners
for which `set_connection` made up a connection, which it does without a look
at the components.  The properties say that nothing else goes wrong.

Not modelled: `set_param`, locked pins, requirements, warnings and fleet
fields, which no id in the document depends on; the `number` of an expander pin.
Wiring to a rail or a pin by hand is in the operators and in the proofs
(`ToolTargets`, `FormTargets`), but not among the `Picks` of the instance.

`DesignExport.tla` says what is made of a document: they are pure functions, so
operators, and its properties range over the documents that edits reach.  `Yaml`
is what `build_yaml_dict` names, or the error of the first component that has
one; `ScriptRuns`, whether the SKiDL script reads only net handles that it assigned
(`HasNet`) and asks each part only for pins that it has (`HasPin`);
`RenderSchematic`, the programs that draw the picture, in order, each of which
may be missing, hang or fail (one at a time); `CheckBom`, the report on the
parts for every answer of the parts service, down included.  Left out: the text
itself, the strict mode of the render endpoint, bus ids that differ only in
characters a Python identifier cannot have (they would share a handle).

The line of a connection is `part[pin] += net`.  The part is the symbol of the
library entry, or a four-pin header where there is none, and the pin is the
role, renamed by `pin_map`.  Symbols are KiCad's: `SymbolPins` has their pins
and `PinMap` the renaming, as constants.  A library entry is `Mapped` if each of
its roles finds its pin.  The instance has entries that are, with and without a
renaming, and one that is not.  A connection of a component that was removed is a
comment.  The status of the KiCad programs (`GET /kicad/render/status`)
changes nothing and is not modelled.

`RenderEndpoint`, `RenderTool` and `ValidateTool` all call the one generator and
catch what it raises, so that they agree is no property; what
`SoundDesignsRender` says is that a design of complete components on a known
board has nothing that makes the generators fail: every bus, parent and pin that
a template reads is there, and if its components are `Mapped`, so are the handle
and the pin of every line of the script, whatever edits came before.

### Runs

| run | instance | shows |
|---|---|---|
| `DesignEdit` | a sensor (I2C and a hub), an io expander (SPI), a motion sensor on two rails and a board pin; one board the library has and one it has not | `UniqueIds`; `FullyWired`; `ReferencesAreSound`; `SeedersAgree`; `BindingsSurvive`; `YamlIsClosed`; `SoundDesignsRender`; `BomIsWhole` |
| `DesignScript` | the library of `DesignEdit`, all of it mapped, one board, no targets set by hand | violated: `ScriptAlwaysRuns` |

Two components, two buses and three connections are a component that refers to
each kind of thing, the thing, and another to take its id up again.
`MaxMisfits = 1` lets one id or owner go wrong at a time.  `Room` is these bounds
said before a component is added, so that TLC need not build the document first.
The one hint is the id a counter would give the expander.  With one known board,
an *older* known board is never on screen; the unfetched one (`shown = None`) is.
A typed expander slot that no expander fills is in the run; the expander and
the motion sensor together need more than three connections, so a slot that
is filled is covered by the proofs only.  These bounds limit the document and
not the number of edits, so deadlock is checked.

`SeedersAgree` is as strong as the code allows.  It asks that the library has
the board and the browser shows it: with an unknown board Python adds no bus
and the browser an empty one.  And it compares buses by what they are, since
Python counts `i2c_1`, `i2c_2` and the browser `i2c0`, `i2c1`, although
`seed.py:3-7` calls itself a mirror of the other.

**Finding.**  "The script always runs" (`kicad/generator.py:17`, `api/app.py:396`)
does not hold: the script assigns a handle to each bus of the design and reads one
for each bus that a connection names.  Adding a component and removing its
bus is enough for a NameError (`DesignScript`), even with every component mapped.
The header that stands in for an unmapped component has no pin with the name of
a role either, so the stub that the promise is about is in the same case.

**Observations.**  No seeder knows the pin kind `hub_ref`: the pin gets a gpio
placeholder (`seed.py:83`, `design.ts:333`), and `solve_pins`, which goes by the kind of
the target, puts a board pin where the library wants the id of the hub
(`library/__init__.py:25-28`).  Adding a hub and a channel and solving is all it takes.
The models do the same, and no run is about it; `SoundDesignsRender` does not
call such a component complete.

`SoundDesignsRender` is about components whose template reads
no more than their pins can give it (`Given`), which the proof asked for.
Three library entries are not such: the template of `esp32_camera` reads the
pins `SDA` and `SCL`, which are seeded as connections to a bus, and those of
`tuya` and `modbus` read a bus although they have no pin for one.  As seeded they
do not render; the property says nothing of them.

### Proofs: `DesignEditProofs.tla`

For every library, table of boards, set of hints, typed ids and picks, and
documents of any size up to 998 components and 99 buses, after any number of edits: `TypedInvHolds`,
`DocumentTypeCorrect`, `IdsStayUnique`, `ReferencesStaySound`,
`BindingsAlwaysSurvive`, `ComponentsStayWired`, `SeedersAlwaysAgree`,
`RenderedYamlIsClosed`, `CompleteDesignsRender` and `BillsAreWhole`.  The assumptions are about the
library, and TLC evaluates them on both runs:

* `LibraryAssumption`: pins and rails are sequences, no component has two pins
  of one role, and `None` is no board, id, bus type or pin kind;
* `OneBusAssumption`: no component has pins of two bus types, true of all the
  library;
* `PickAssumption`: who re-targets a pin names one of the five kinds of target;
* `TemplateAssumption`: only library components have templates, no role is called
  `bus` or `parent`, and the template of an i2s component leaves the bus alone
  (the i2s block carries no id, so a template that named it would name
  nothing); `TroubleAssumption`: `None` is not the name of an error;
* `NumberingAssumption`: at most 998 components and 99 buses.  The code counts ids up to
  999, the browser bus ids up to 99, and falls back on an id it does not
  check; within the bound a counter always finds a free number before that;
* `SymbolAssumption`: `PinMap` is about the library entries that have a symbol.

An edit is a function of the document, so most lemmas are about functions:
`Placed` adds a component by either way, `Grown` adds buses, `Retarget`,
`Renamed`, `Without` and `SolvedAll` do what the code's helpers do.  Each keeps
each invariant, whatever the document, and a step of `Next` applies one.  `Without` is a
filter, and what it keeps, in which order, is shown by the least number at which
it would go wrong (`LeastNumber`), since induction is out of reach.

* `TypedInv` is `TypeOK` and `UniqueIds`.  A counter's id is free because `Fresh`
  tries one number more than there are ids in use, which are finitely many since
  the document is made of sequences; hints, typed ids and new names are looked
  up.
* `ReferencesAreSound` follows from `TypedInv` edit by edit.  An id that is taken
  up again does no harm: if a connection names it, it was removed under the
  connection, so it is in `loose`.  A rename moves both the connection and
  the mark.
* `BindingsSurvive`: all edits that add buses append them, a new id is free, and so
  the first match of a lookup stays where it was; a rename changes exactly
  the connections whose first match was renamed.
* `FullyWired` says of each component that the positions of its connections are
  its pins in order.  A removal of another component shifts positions, and keeps the
  order because `Without` does.
* `SeedersAgree`: the buses of the two documents differ in ids, and `Alike` says in
  nothing else; a lookup by type then finds the same position in both, which is what
  a connection of either document reaches.  The two tables of bus kinds are
  compared kind by kind.
* `YamlIsClosed` needs `TypedInv` and `ReferencesAreSound`, `SoundDesignsRender` needs
  `TypedInv` and `FullyWired`: what a template reads of a pin is there because
  the pin has its connection, and the lines of the script are about pins of the
  library entry (`CompletePins`), whose buses and rails are declared
  (`CompleteScript`).
* `BomIsWhole`: a report has one line per library entry in use, in the order of
  their first uses (`BomOrderFacts`), and the quantities of the lines add up to the
  number of components (`QuantitiesAddUp`).  A sum is the library's fold, whose
  recursion equation comes from its definition (`SumIsFold`); that two functions with
  this equation are one (`SumsUnique`), and that the sizes of disjoint sets add up
  to that of their union (`SumOfParts`), go by the smallest counterexample again.  When
  the service goes down, the report ends before the first part that it is down for,
  and is the beginning of the report that would have been (`CheckBomFacts`).

## 8. The agent

### `AgentTurn.tla`

| code | model |
|---|---|
| `handleSend` before its first await; its catch; its end | `SendMessage`; `RequestFails`, `StreamBreaks`; `EndOfStream` with `Finish` (the `finally`) |
| the `for await` over the stream, one event | `ReadEvent` |
| `handleNewSession`; an edit of the user | `NewSession`; `EditDesign` |
| `POST /agent/turn`, by a script | `PostTurn` |
| `_initialize_turn` and `FileSessionStore.load` | `Begin` |
| a response of the model | `ModelCallsTools`, `ModelStops`, `ModelFails` |
| `execute_tool` on the turn's copy of the design | `RunTools` |
| `append` of the question and of the reply | `AppendUser`, `AppendReply` |
| the server notices that the client went away; it goes down | `DropStream`; `CrashServer` |

A turn is a generator on a thread of the server; the tab reads its events, and
the user may go on editing, press New, lose the stream and ask again in the same
session while the first turn still runs.  An append to a full disk leaves a part
of its line, which no later turn can load.  A text, an edit or a line is told
from the others only by the turn it belongs to; `of` of a bubble is the turns
whose words are in it.  A session is named after the turn that opens it
(`new_session_id` is random).  One text delta stands for those of a response,
every round of tools edits something, and the events about tools, which only
decorate a bubble, are left out.

### Runs

| run | instance | shows |
|---|---|---|
| `AgentTurn` | 2 turns of up to 2 rounds, one perhaps by a script, 1 edit, 2 faults | `FailedTurnsLeaveNoTrace`; `DoneMeansRemembered`; `ContextCoversChat`; `RepliesInTheirOwnBubble`; `IdleMeansSettled`; `LostEditsAreLate`; `PendingEnds` |
| `AgentNew` | no faults | violated: `NewMeansFresh` |

Two turns meet in one session when the stream of the first breaks, or when a
script names the session; two faults are a broken stream and a full disk, or a
crash after either.  `MaxRounds` is `max_iterations`, 12 in the code; two rounds
are one that ends the turn and one that is cut off.  Turns run out, so deadlock
is not checked.  The lines of two turns of one session may interleave in the
file, since appends take no lock: `DoneMeansRemembered` holds because each is
there whole, question before reply.

**Fairness** (`PendingEnds`).  A running turn takes its steps, since the client
of the model's API has a timeout and the pool runs its threads; the tab reads
what has arrived.  The user, scripts and faults are not fair.

**Finding.**  New forgets the session but not the turn that is being read: its
`session_start`, if it arrives after the click, brings the old session back, and
the new chat goes on in it (`AgentNew`).

### Proofs: `AgentTurnProofs.tla`

For every number of turns, rounds, edits and faults: `AgentInvHolds`, and from it
`CutTurnsLeaveNothing`, `RepliesStayInTheirBubble`, `FreeMeansSettled` and
`OnlyLateEditsAreLost`.

The invariant follows a turn from its question to its traces.  A tab reads one
turn at a time (`OneCall`), whose bubble is the last unless New took it
(`LastIsRead`), which is why words cannot end up elsewhere; only that bubble may
be waiting (`OnlyLastStreams`), and once its turn is over the event that settles
it is still on the wire (`EndIsNear`), which is why the end of the stream leaves
nothing waiting.  Only a turn that is done says `turn_complete` (`Honest`), so
only its edits reach the tab and from there later turns (`Provenance`); a turn
has no line before its append (`NoLineYet`); and it works on what it was given
(`GivenIsKept`), so that an answer cannot take that away.  The steps of the
server have one shape, `ServerMove`, shown once to keep the invariant.

### Proofs: `AgentSessionProofs.tla`

On top of `AgentInv`: `SessionInvHolds`, and from it `DoneIsRemembered` and
`ChatIsTold`.  The two are about what the code never compares, a file that any
turn may append to and a chat that one tab keeps.  `SessionInv` ties them by the
session: a turn in mid-append has its question in its session and nothing else,
a done one both lines (`LinesAreKept`), and lines of others cannot disturb that,
since a file only grows at its end; a bubble that is complete belongs to a turn
that is done in the sidebar's session (`ChatIsKnown`), which is the session the
turn being read was asked in (`Addressed`), because `session_start` is the first
event it sends (`Introduced`); and a reply shown as complete was on file before
that of any later question (`InOrder`).  So the whole file, which a turn is told
when it begins, has what the chat shows, once and in its order.  New does not
break this, although it breaks `NewMeansFresh`: an empty chat shows nothing.

Only model-checked: `PendingEnds`.

## 9. Types

`TypeOK` of `PinSolver`, `DesignServer`, `StudioSync`, `FleetTail`, `AgentTurn` and
`DesignEdit` and `FleetTypeOK` of `FleetPush` are proved, as theorems or as part of
an invariant.  No run lists types, since the properties would fail in TLC on a
value of the wrong kind.

## 10. Outside the provers

Liveness (`ClientsCatchUp`, `ScreenCatchesUp`, `TailEnds`, `PendingEnds`) rests
on fairness and stays with TLC, in the four runs that state it.  Every other
property that a passing run checks is stated by a theorem as well.

Induction is out of reach, since the provers cannot instantiate its theorems.
Where a definition is recursive, as `Without` and the sums of `BomIsWhole`, it is a
function, and what it computes is shown by the least number at which it would go
wrong.  No module declares a RECURSIVE operator.

## 11. Not modelled

`PROJECT.json` has the reason for each part.  In short: the KiCad importer parses
symbol files; the library and the pydantic model load and validate data, and
appear here as constants; recommender and enclosure search are queries without
state; the ASCII diagram and the OpenSCAD shell are pure text; USB detection and
the dialogs are presentation.  Of the modelled parts: resources and the token
check of the MCP server; the library, validate, enclosure and examples
endpoints; `set_param`, locked pins, requirements and fleet fields of a
document; of the tab, the debounced render, the board cache and the PUT of the
active design.

Hazards without a property have a note in `PROJECT.json`: the pins of buses are
free to the solver, which its tests accept; a `hub_ref` pin is seeded as a gpio; a deleted design may stay on screen, and
refetches may come back in the other order, which the model has and nothing
in the repository denies; two polling loops of one dialog append to the same log.
Of some others only one half has a property, and the note says which.  That a tool
can undo an HTTP save only if it had loaded the design before
(`EditsSurvive`) is checked and proved, while nothing is said of a deleted
design that comes back the same way.
