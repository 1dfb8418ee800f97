# A TLA+ verification of kicad-mcp

kicad-mcp is an MCP server that lets an agent design boards in KiCad. It reads
and writes the project's files, drives the running PCB Editor over KiCad's IPC
API, and calls `kicad-cli`, `pcbnew` and Freerouting as subprocesses. The
server holds little state, but that state is a claim about three copies of one
board: the `.kicad_pcb` on disk, the board in the editor's memory, and the
snapshot the agent was last shown. Humans, other programs, KiCad and the server
process itself change or lose each copy at any time. This project models how
the server keeps those copies from destroying each other and what it tells the
agent of them, checks it with TLC, and proves the central part with TLAPS.

All paths below are relative to `src/src/kicad_mcp/` unless they start with
`src/`.

## 1. Inventory

| Component | State it keeps | Operations | Talks to |
|---|---|---|---|
| Snapshot store, `snapshots/store.py`, `snapshots/validation.py` | retained snapshots (FIFO), next id, `live_stale` and its snapshot, the anchor `_latest_disk_mtimes` | `register`, `mark_live_stale`, `clear_live_stale`, `validate_base_snap`, `check_no_external_disk_edit` | every tool; `stat` of the project files |
| PCB tools, `tools/pcb.py`, `tools/_mutating.py` | none of their own | 14 mutating, saving, filling and reloading tools under the `mutating_tool` guard; `route_board` | store, IPC bridge, gate G1, kicad-cli |
| `route_board` | a board handle and counters, kept across minutes | implicit save, DRC, round trip, replace, reload with one retry, refill, stitching, registration | all of the above, autorouter |
| World tools, `tools/world.py` | none | `get_world_context`, `get_context_delta` | store, bridge, state builder |
| Schematic tools, `tools/sch.py` | none | `add_symbol`, `set_value`, `set_footprint`, `connect_pins` | store, `.kicad_sch`, G1 |
| IPC bridge: connection, `bridge/ipc.py` | socket path, client, instance token, a lock of depth one | every request: cascade of sockets, `_ensure_client`, `_detect_restart`, `_supervise`, `_run_supervised_read`; `health` (`tools/meta.py`) | KiCad |
| IPC bridge: hole clearance, `bridge/ipc.py` | keepouts on the board, known by the prefix of their names | `refill_zones`, `enforce_hole_clearance` | KiCad |
| Autorouter, `bridge/autoroute.py` | `route.dsn`, `route.ses`, `routed.kicad_pcb` in a directory that nobody clears | export, inject, route, import, parse counts | pcbnew, Freerouting |
| Gate G1 and audit log, `gates/g1.py`, `audit/logger.py` | backup made in this session; appended lines | backup once per session, audit line per mutation | git, disk |
| Gate G3 and export, `gates/g3.py`, `tools/export.py` | the files of the output directory | export only after a clean DRC | kicad-cli |
| Validation, `tools/validate.py`, `bridge/rules.py` | none; the agent keeps its place in a paged report | `run_erc`, `run_drc`: filter, summarise, paginate; `diff_violations` for route_board | kicad-cli |
| State builder, `bridge/state_builder.py`, `bridge/netlist.py`, `bridge/sch_positions.py` | a cache of states keyed by the mtime of the root schematic | build a normalised state of the schematic from two readings of it | kicad-cli |
| Delta and TOON encoder, `snapshots/delta.py`, `toon/` | none; the agent keeps what it was sent | `compute_delta`; encoding within a token budget by two cascades of degradation | world tools |
| Geometry, `tools/pcb_geometry.py`, helpers of `tools/pcb.py` | none | outlines, points in outlines, segments and boxes, distances | add_zone, get_tracks, the deletions, route_board |
| Rules reader, paths, errors, logging, entry point | none | pure functions and glue | |

### How they interact

FastMCP runs synchronous tools inline, so tool calls are sequential; what
interleaves with them is the world. A tool call is a sequence of steps (guard,
handle, read, backup, request, registration), each of which may end the call
with an error. Between any two steps another program writes a project file, the
human edits, saves, reverts or opens another board, KiCad exits or starts, or
the server process is restarted by its client and forgets its store. A request
over IPC that fails does not say whether KiCad applied it. The subprocesses of
the autorouter hand over files. The schematic tools need no KiCad: they read a
sheet, run `kicad-cli` on it, copy it to a backup and write it, while KiCad or
a text editor may do the same. What the agent knows is what it was sent: a
document whose degradation it must be told of, a delta over an earlier one, or
a report it reads page by page, each page from a DRC of its own.

### What is hard to test, and what makes it correct

| Component | Hard behaviour | Correctness |
|---|---|---|
| store | eviction at the limit; live and disk snapshots share ids but not the anchor; files that appear and disappear | retention window without holes; the anchor is the newest disk snapshot; a refused base stays refused; edits are detected exactly |
| PCB and world tools | any step fails after an earlier one took effect; the world moves between guard and save; restart half-way | an editor behind the disk is guarded; a save overwrites nothing that its guard could have seen; a filling tool leaves disk and editor equal; a reload unblocks |
| `route_board` | writes the disk behind the editor's back; handle and zone count are minutes old | the routing on disk is never overwritten by a stale editor; what is reported is what was saved |
| IPC bridge | KiCad dies between the requests of one method; busy, late and lost answers; old sockets | at most one effect per call; replies tell what is on the board; recovery after one failed call; every call ends |
| hole clearance | a pass fails at any request; zones and holes come and go | after a pass that succeeds, exactly the keepouts that are needed, and fills that respect them |
| schematic tools, G1, state builder | a file that changes between `stat`, the two readings, the copy, the load and the write; a backup restored with its old mtime; kicad-cli, git or the disk failing half-way | a cached state tells what the file holds, and an accepted base does but for what its own call made up; no edit is lost, none is made before the sheets of the project's directory are backed up as they were before the session, none is silent |
| delta and encoder | a delta computed from the whole base, applied to a degraded one; bases evicted by the answer itself; raw names in states, sanitised ones in documents | what the agent knows of a snapshot is true of it; what it does not know was declared |
| export, validation | the file changes between the gate, the two exports, two pages, two DRCs | a fabrication set is of one board, which was clean; pages add up to the report; what a routing introduced is what was not there |
| geometry, zones, deletions, stitching | corners that coincide, sides that touch, segments that only pass through; matched on one board, deleted on another; vias chosen together and made one by one | an outline is refused when it is not simple; what is deleted is what was meant; a pad is stitched where that makes sense and reported where not |
| autorouter | a failed, killed or silent step leaves its predecessor's files | what is installed was computed by this run from this board |

Every hazard is listed, at its line, in `PROJECT.json`.

## 2. Modules

```
EditDetector <--refines-- SnapshotStore <--refines-- BoardSync <--extends-- RouteBoard
                               |                        |                      :
                      SnapshotStoreProofs               +-- BoardSyncProofs --+   Autoroute (one step of it)
                               |
                               +--extends-- SchematicSync   (the schematic: its cache, its tools, gate G1)
                               |                 |
                               |         SchematicSyncProofs
                               +--extends-- ContextView     (what the agent is told of a live snapshot)
                                                 |
                                         ContextViewProofs

IpcBridge, HoleClearance: the requests that BoardSync takes as one step each
    |            |
IpcBridgeProofs  HoleClearanceProofs

Autoroute: the subprocesses that route a board
Fabrication: the DRCs that RouteBoard leaves out, and the tools that only need a DRC
    |
SubprocessProofs (of both)

Geometry <--extends-- CopperTools: which items the steps of BoardSync and RouteBoard are about
                           |
                   CopperToolsProofs (of both)
```

A `...Proofs` module EXTENDS the module of its component; `BoardSyncProofs` is
about BoardSync and RouteBoard, `CopperToolsProofs` about Geometry and
CopperTools, `SubprocessProofs` about Autoroute and Fabrication, which is why
Autoroute's specification is called `TripSpec`. `BoardSyncProofs`, `SchematicSyncProofs` and
`ContextViewProofs` use the theorems of `SnapshotStoreProofs`.
Each `MC...` module only instantiates the module it names. Operators whose
comment starts with *Faulty* are used by no definition; each is a bug of the
code that the neighbouring definition models, and substituting it makes the
property it is meant for fail.

### SnapshotStore (`snapshots/store.py`, `snapshots/validation.py`)

`entries`, `nextId`, `liveStale`, `liveStaleSnap` and `latestDiskMtimes` are the
fields of `SnapshotStore`; `mtime` is what `stat` returns for the project's
files and `clock` counts writes. An optional value is a set of at most one
element. The state a snapshot holds is abstracted to its kind, which is all
that the checks and the control flow look at. `Register` is `register` with its
eviction; `Changed` is `current.get(path) != mtime`, which reports a file that
was removed. `StoreNext` lets any caller and any program act.

### EditDetector

What the mtime guard promises, without mtimes: the server knows exactly which
tracked files somebody wrote since the last anchor. SnapshotStore implements it
(`DetectsEdits`), with `tracked` and `dirty` computed from the recorded mtimes.

### BoardSync (`tools/pcb.py`, `tools/_mutating.py`, `tools/world.py`, `tools/sch.py`)

`disk` and `live` are the contents of the board on disk and in the editor: the
set of edits they contain and the condition of the zone fills (`none`: no
zones, `stale`, `safe`: filled with hole clearance). `editor` is the board the
editor has open: the project's own, another one, or none. A tool is the sequence
of its handler's steps (`AddTrack`, `FillZones`, `SaveBoard`, ...), read off the
handler from its first to its last call; a step is an action, shared by the
tools that take it. A validation that rejects its parameters is an outcome of
`Read`. `Request` is the rule of `_supervise`: a mutation is never retried, and
one that fails may have been applied. The bridge serves requests in order, so a
request that timed out is applied before the next one is answered, or never.
`gaps`, `call.mark` and `call.alone` are ghosts: how the editor came to be
behind the disk unguarded, which edits existed when the guard passed, and
whether the world stood still since the call began.

The composed system uses the store only through its operations
(`StoreRefined`: BoardSync implements `StoreSpec`).

### RouteBoard (`route_board` in `tools/pcb.py`)

EXTENDS BoardSync by the one tool that writes the `.kicad_pcb` behind the
editor's back, with its locals in `route`. `Autoroute` in this module is one
step: the import reads the disk at its end. `Replace` is `os.replace`;
`Reload`, `Reopen` and `ReloadAgain` are the reload with its one retry on a
fresh handle after KICAD_NOT_RUNNING; `Fill` and `Stitch` insert the steps of
`_refill_enforce_and_save` before what is left of the call; `RegisterRoute`
collects the mtimes, registers and sets or clears the flag.

### IpcBridge (`bridge/ipc.py`, `tools/meta.py`)

`sockets` maps the socket files to the instance that listens, or to 0 for a
file that a crash left behind. `socketPath`, `client` and `token` are the
fields of the class; a client is the path it was made for. A tool is the
sequence of its requests. `EnsureClient`/`NoClientToEnsure` are
`_ensure_client`, `EnterBoardMethod` the beginning of a method on a board
handle (which uses the handle's own client, whatever became of it), `Retry` the
bounded retry of idempotent reads, `VerifySame`/`VerifyOther`/`Revert` the net
verification of new copper. Backoff delays are left out.

### HoleClearance (`refill_zones`, `enforce_hole_clearance`)

One action per request. A keepout is the zone it was made for and the hole it
is around; it acts on every zone of its layer (`KeptOut`), as KiCad's copper
keepouts do. Geometry is left out: radii and outlines do not decide which
keepouts exist. `Begin` stands for any of the filling tools, which call
`refill_zones` and then enforce at once.

### Autoroute (`bridge/autoroute.py`)

One action per subprocess outcome. A file is the version of the board it was
computed from and the run that wrote it; a killed router may leave a torn SES,
which pcbnew refuses.

### SchematicSync (`tools/sch.py`, `tools/world.py`, `bridge/state_builder.py`, `gates/g1.py`, `audit/logger.py`)

`present` are the sheets there are: the root schematic, others *beside* it in its
directory, which another program may still make, and others in directories
*below* it. The root has no sub-sheets (`parse_root_positions` refuses them), so no
reader looks at the others; but `set_value`, `set_footprint` and `connect_pins`
edit any sheet in the directory, and `add_symbol` any sheet of the project. `sheet`
holds what they contain, as sets of edits; the only file of the store is the root
schematic, whose mtime is all that this part of the server looks at. What an edit
*shows in* is what the two readers of the file tell apart: `Positions`
(`sch_positions.py`) sees that a symbol is there and where, `ReadNetlist`
(`netlist.py`) sees that it is there, its value and its nets. A state is the pair of
the two readings, and `_rebuild` rejects a pair whose symbols differ. `cache` is `_CACHE`, `states` the content of the retained
snapshots, `backup` the directory of G1's last attempt, `done` its
`_done_by_project`, `audit` the lines of `audit.jsonl`. A tool is the sequence of
its handler's steps, as in BoardSync; `Stat` before `Positions` before
`ReadNetlist` is `build_state_cached`, `Check` opens the target sheet for the
validations and `Load` opens it again to edit it, `WriteSheet` replaces the
whole sheet with what was loaded and the edit. `Derive` is the state registered
after it, which is the one built before the write with the edit applied by hand:
`DeriveSetValue` writes the value the netlist will have, but `DeriveConnect` puts the
bare name on the two pins it was given, where the netlist has the name of a local
label with the path of its sheet, a global label keeps its own, and other pins of the
joined nets follow; `DeriveSch` leaves the pins of the new symbol unconnected
wherever it was put, and tells of a symbol put on another sheet as if it were on the
root (*stray*). The netlist's view of such an edit is in `guessed`, not in `listed`.
G1 is `Backup`, which lists what there is to copy, `CopySheet` for each sheet, and
`Checkpoint`: once a session, and of the directory of the root schematic only. An
edit may be `bare`: a clone within a sheet whose reference kicad-cli
does not see until KiCad annotates the sheet. The world writes any sheet
between any two steps, on top of what the session did or over it, makes one beside
the root, and restores a sheet from the backup with the mtime it had
(`shutil.copy2`) or a new one. The ghosts say which sheets were made after G1 listed
what to copy, which edits are the session's, which belong to calls that ended in an
error, which cache keys were read across a write, and which snapshots were
registered by a call whose reading the file changed under (`doubted`).

### ContextView (`tools/world.py`, `snapshots/delta.py`, `toon/encoder.py`)

`states` is what the store keeps of each retained snapshot, `views` what the
agent has put together of it from the documents it was sent. A board maps its
components to a position and to the net of their one pin, so that distances,
nets, collapsed power nets and radii are all there. States hold the names of nets
raw (`OnNet` is `_nets_by_component`, which `NetsChanged` compares), documents hold
them sanitised (`Members` and `NetsOf` are `_collect_nets`): `Sanitized` is any map of
names to names, so it may change a name and may give two nets one. `FullCascade` and
`DeltaCascade` are the levels of `encode` and `encode_delta_with_budget`, with
what each gives up and the labels it declares; how many characters a level
takes is left out, so any level may be the first that fits, or none.
`FullToon` and `DeltaToon` are the two encoders, section by section; `DeltaToon`
looks the raw names of the nets that changed up among the sanitised ones, as the
code does, and has a line only for those it finds. Registration
comes before encoding, as in the handlers, so a refused answer also registers
and evicts. `Apply`, the agent's reading of a delta, is external: the spec
(`src/docs/specs/toon-v1.md`) says how a document is read, no code does it.

### Fabrication (`tools/export.py`, `gates/g3.py`, `tools/validate.py`, `bridge/rules.py`)

`pcb` is the write that made the board file and the list of what kicad-cli finds
in it; `fab` maps the files of the output directory to the write of the board
they show; `reader` is an agent that asks for a summary and follows the hints
from page to page. Every step is one run of kicad-cli on whatever the file is
then. `Diff` is `diff_violations`; its multisets are sets of numbered copies
(`Counter`: the second finding of an identity is `<<identity, 2>>`), so that the
difference of two `collections.Counter` is the difference of two sets.
`Identity` is the rule, the place and the items of a violation; the place stands
for all of the position and the items. `RouteDrc` is the two DRCs of route_board with the routing
between them taken as one step (RouteBoard has its steps).

### Geometry (`tools/pcb_geometry.py`, `tools/pcb.py`)

The algorithms of the source on a grid of integers: sides that cross, simple
outlines, the ray that decides whether a point is in an outline, the clipping
of a segment by a box, the nearest point of a segment. Quotients are compared
by cross-multiplication, so rounding and the source's tolerances of 1e-9 are
left out. The last section of the module says what each is to compute, by other
means (the parameters of a crossing instead of orientations, another ray,
separating lines instead of clipping, strips and discs instead of projections);
only the properties of CopperTools use it.

### CopperTools (`add_zone`, `get_tracks`, `delete_track`, `delete_via`, `delete_tracks_bulk`, the stitching of `route_board`)

`items` are the tracks, arcs and vias of the board in the editor, `zones` its
copper zones; the pads do not move. A call reads the board and answers, or
changes it in later steps (`Remove`, `StitchVia`), which are requests that may
fail with or without effect; `call.ids` and `call.pads` are what it remembers
from its reading. Guards, backups, fills, saves and snapshots are BoardSync's
and RouteBoard's. The net verification of a new via is IpcBridge's; a net or a
layer that does not exist, and a call with both ways of saying what it is about,
are refused before anything is read and left out. `before` and `alone` are
ghosts: the items that the call read, and whether the human has left the board
alone since.

## 3. Runs

| Run | What it shows |
|---|---|
| MCSnapshotStore | the store with evictions, restarts, writes and removals by anybody: `RetentionWindow`, `AnchorIsNewestDisk`, `StaleNeverRevives`, and the refinement `DetectsEdits` |
| MCBoardSync | every tool but route_board, with the whole world between any two steps: `BehindIsGuarded`, `SaveKeepsDisk`, `FillIsPersisted`, `ReloadUnblocks`, `OwnWritesAreKnown`, and the refinement `StoreRefined` |
| MCRouteBoard | route_board among other tools and the world: `BehindIsGuarded` and `SaveKeepsDisk` again, `RouteSavesKeepDisk`, `RouteIsPersisted` |
| MCIpcBridge | `MutationOnce`, `ReplyTellsBoard`, `RecoversAfterOne` (what the bridge remembers of a dead instance costs at most one call) and the liveness property `CallEnds`, against exits, crashes, busy, late and lost answers, with and without a pinned socket |
| MCHoleClearance | `KeepoutsExact` and `ForeignHolesClear` after every pass that succeeds, whatever earlier passes failed at |
| MCAutoroute | `InstallsItsOwnRouting` over several runs that fail at any step |
| MCSchematicSync | the schematic tools and the two queries against other programs, restored backups, failures and restarts: `CacheIsTruth`; `ValidBaseIsTruth`: an accepted base leaves nothing out and tells nothing else, but for what its own call made up; `OkSnapIsValid`; `SchWriteKeepsEdits`; `MutationHasBackup`: every sheet that was in the directory when the backup began has a clean copy; `AuditOrFailure` |
| MCContextView | chains of documents and deltas, degraded at any level, over boards that change and bases that are evicted, with a net whose name is truncated to that of another: `ViewsTellStates` (exact for names that are one net's own, no wrong member for the others), `LossIsDeclared`, `OkRefsAreUnchanged` |
| MCFabrication | exports, routings and paged DRCs over a file that other programs write: `FabIsClean`, `PagesTellReport`, `IntroducedAreNew` |
| MCCopperTools | every shape, filter, target and report of a small board, with edits and failures between the reading and the change: `OutlinesAreSimple`, `DeletionsAreExact`, `StitchIsSound` |

### Disagreements found

The runs below find a counterexample to what a document, a comment or a message
of the repository says; `PROJECT.json` quotes each.

| Run | What the code does |
|---|---|
| MCBoardSyncReanchor | Registering a disk snapshot re-anchors the mtime of every project file, also of a `.kicad_pcb` that the tool brought nothing of into the editor. An external edit made before it passes the guard and is overwritten by the next save. |
| MCSchNextMutation | After an add_symbol that cloned a symbol of its own sheet, the netlist lacks the symbol until KiCad annotates the sheet, so the next schematic tool cannot build its pre-state and fails, although the snap_id it was given is valid. |

Behaviours that the models contain and no run is about:

- a save whose later steps fail is not registered, and the next guard refuses
  it with a message that blames another program (`tools/pcb.py:1198`);
- the implicit save of route_board looks at the flag but not at the mtimes
  (`tools/pcb.py:2515`);
- route_board counts zones only if the flag was clear at its start, so a second
  routing after one that was not reloaded runs no safety refill
  (`tools/pcb.py:2513`);
- `socket_present` updates the socket path but not the client made from it, so
  after `health` one more call fails before the bridge reconnects
  (`bridge/ipc.py:1379`);
- `_detect_restart` watches `KICAD_API_TOKEN` in the server's own environment,
  which a restart of KiCad does not change and nothing in `src/` writes, so the
  next call is answered by the new instance without KICAD_RESTARTED
  (`bridge/ipc.py:1471`; `src/docs/specs/restricciones-kicad.md:28` says that the
  token changes at every start and is how a restart is detected);
- no tool but route_board checks that the board open in the editor is the
  project's own (`tools/pcb.py:261`);
- a create request that timed out may have left its item, and the reply does
  not say so (`bridge/ipc.py:2654`);
- a hole clearance pass that only removes keepouts does not fill again
  (`bridge/ipc.py:2276`);
- with two nets poured on one layer, the keepouts made for the holes that are
  foreign to one zone act on the other too, and cut it off its own pads
  (`bridge/ipc.py:2201`);
- `get_context_delta` with the snap_id of save_board, reload_board_from_disk,
  fill_zones or route_board reads the schematic and then fails as an internal
  bug, because a disk snapshot is taken for one of the schematic
  (`tools/world.py:152`);
- a failure between `os.replace` and `mark_live_stale` leaves the flag unset;
  the anchor of mtimes still guards the editor (`tools/pcb.py:2710`);
- a router that writes no SES is not noticed if an earlier run left one
  (`bridge/autoroute.py:745`);
- a backup restored with the mtime it had may make the cache answer with a state
  that was read across a write (the exception in `CacheIsTruth`);
- a snapshot registered by a call whose reading the file changed under is accepted
  as a base though it does not tell the file (`doubted`, the exception in
  `ValidBaseIsTruth`; `tools/world.py:239`);
- a snapshot of connect_pins is accepted as a base although it has the bare name of
  the net on two pins, where the netlist has the name with the path of the sheet,
  or keeps that of a global label, and changes the other pins of the nets that were
  joined (`tools/sch.py:732`); that of add_symbol has the pins of the new symbol
  unconnected, whatever they touch, and has the symbol also when it is on a sheet
  that is not read (`tools/sch.py:514`). The next delta reports the difference as if
  somebody had edited the file (what `ValidBaseIsTruth` allows: one edit, that of the
  call itself);
- a sheet in a directory below the project's, or made after the session's backup was
  begun, is edited without a copy in it: G1 copies the `.kicad_sch` of one directory,
  once (`gates/g1.py:36`, `gates/g1.py:45`). Only a git checkpoint, if the project is a
  repository, holds what was below at that time (`MutationHasBackup` says which
  sheets have one);
- a program that had a sheet open overwrites the session's edits, and a tool
  overwrites what was written in the moment between its load and its write
  (`tools/sch.py:584`);
- an answer that fits no budget, or whose focus does not exist, has already
  registered a snapshot, and may have evicted a base the agent still uses
  (`tools/world.py:240`);
- a net whose name sanitising changes (longer than 40 characters, or with one of
  `: | >` or a control character in it) has no `[~N]` line when it changes, because
  the raw name is looked up among the sanitised ones, and no label says so; two nets
  whose names become one share a line (`toon/encoder.py:417`, `toon/encoder.py:427`).
  An agent then keeps the members it had, less those it is told are elsewhere (what
  `ViewsTellStates` says of names that are not one net's own);
- a net that lost its last member has no line in a delta, so an agent that
  knows it only by a collapsed count keeps that count (the exception in
  `ViewsTellStates`; `toon/encoder.py:430`);
- an agent that knows a component only from `[FUERA_DE_AREA]` may be told in
  `[AREA]` that it is unchanged, without ever having had its line;
- a stitched via needs a zone of its net somewhere on the opposite layer, not
  at the pad (`tools/pcb.py:464`), and two vias of one call are not compared
  with each other, whatever their nets (`tools/pcb.py:2734`);
- an orphan pad without a net, or at a place with another pad, is neither
  stitched nor reported (`tools/pcb.py:372`, `tools/pcb.py:439`);
- add_zone accepts a triangle whose corners are on one line, and a box without
  an inside (`tools/pcb.py:311`, `tools/pcb.py:558`);
- delete_tracks_bulk answers with the number of items it matched, also of those
  that were gone when it removed them (`tools/pcb.py:1742`);
- an arc is in a box when its chord is (`tools/pcb_geometry.py:189`);
- export_manufacturing lists every file of the output directory, also those an
  earlier export left (`tools/export.py:218`), and it exports the file on disk,
  whatever the editor has not saved;
- a board written between the gate and the two exports, or an export that fails
  half-way, leaves files of two boards, or of one that nobody checked
  (`tools/export.py:207`; `FabIsClean` is about undisturbed exports that say OK, and
  about blocked ones).

### Bounds, and why they are enough

`MaxSnaps`, `MaxWrites`, `MaxEdits`, `MaxStarts`, `MaxCalls`, `MaxRuns`,
`MaxBoards` and `MaxPasses` cap counters that are unbounded in the code. They
bound how long a history TLC sees, never which interleavings it sees within
it; in BoardSync and RouteBoard the world leaves a call that has begun the
writes and edits that it may still need, so no call is cut short by a bound.

- MCSnapshotStore: retention 2 with 4 snapshots evicts twice; two files
  distinguish the file that changed from the one that did not.
- MCBoardSync: retention 1 makes every registration evict; 3 snapshots, 3 edits
  and 4 writes hold the longest story a property tells: an external edit, a
  registration that takes it over or not, a guard, and a save.
- MCRouteBoard: a route_board writes up to four times (implicit save, replace,
  refill, stitching), so 6 writes leave two to the world and to the tool that
  follows; 3 snapshots hold an anchor, a routing and what follows it; the tools
  are the ones that can open or use the guard afterwards.
- MCIpcBridge: two instances, in which a client, a handle and a token outlive
  the instance they came from, and three calls: one that connects and two that
  may fail in a row.
- MCHoleClearance: two zones on one layer; a hole of each net and an unplated
  one; batches of two, so that a zone's two foreign holes fill a batch exactly,
  and fewer leave it short; three passes, so that two may fail before one
  succeeds.
- MCAutoroute: four runs and six versions of the board.
- MCSchematicSync: the root schematic, one sheet beside it, there from the beginning
  or made later, and one below; retention 1 makes every registration evict; two edits and three writes hold a call's own
  edit, another program's, and a restored backup before, between or after them.
- MCContextView: three components in two places, with radius 0, so that one is
  near the focus and another far; a power net that collapses above one member,
  a signal net that never does, and one whose name is truncated to that of the
  signal net; retention 2 and three snapshots, so that a
  chain of two deltas is told and its base evicted by the answer. The first
  board has every component on the power net; two changes of one component each
  reach every kind of difference between two states, and the nets' emptying.
- MCFabrication: up to three findings of four kinds, so that errors of one
  identity occur twice, beside ones of another place; pages of one violation,
  so that every boundary is a page boundary; two versions of the board, before
  and after whatever is interleaved.
- MCCopperTools: a board of 8 by 8 half millimetres, so that the radius of
  stitching is 2 and the tolerance of a deletion 1; every triangle and
  quadrilateral over its corners and its middle, beside a pentagon for the limit
  on corners, which is 4 instead of 20 (two sides that are no neighbours need
  four); boxes that a track passes through, ends in, or misses; pads of each
  layer, at the radius from a foreign one, and two at one place; two calls, one
  edit.

The proofs below remove the bounds, for every safety property.

### Fairness

Only IpcBridge states fairness: weak fairness of the bridge's own steps taken
together. Each request is a call with a timeout of 2 s (`_DEFAULT_TIMEOUT_MS`),
the number of retries is bounded, and one method runs at a time under the lock,
so an enabled step of a running call is taken. KiCad and the agent get no
fairness: they may do nothing for ever. All other properties are safety
properties and need none. A server restart may strand a BoardSync call at any
step, and nothing is claimed to happen eventually there.

Deadlock is checked in every passing run but MCAutoroute, where the bound on
runs really ends the behaviour, MCCopperTools, where the bound on calls does,
and MCContextView, where every answer registers a
snapshot and the bound on snapshots does.

## 4. Proofs

TLAPS checks the eight `...Proofs` modules to the last leaf. What a theorem says
holds for every value of the bounds and every world; those about the store for
every set of files and every retention, those about BoardSync, RouteBoard,
IpcBridge and SchematicSync for every set of tools, those about ContextView for
every set of components, places and nets, those about HoleClearance for every
set of zones and holes, any nets and any batch size, those about Fabrication for
every set of findings and filters and any page size, those about CopperTools for
every finite board on a grid of integers, any outlines, boxes, radii and filters
(without rounding, as in the model). They start from the assumptions on constants
that the modules name, and those that the proofs use are few:

- `RetentionAssumption`: at least one snapshot is retained;
- `FilesAssumption` (the two project files of BoardSync are distinct, and all
  there are) and `SheetsAssumption` (SchematicSync tracks the root schematic, which is
  neither beside nor below itself, and no other sheet is both);
- `ToolsAssumption`, one in each of BoardSync, SchematicSync and IpcBridge: the
  tools are among those the module has programs for;
- `PathsAssumption` of IpcBridge: the legacy path, the path of an instance and
  the absence of a path are told apart;
- `NoNetAssumption` (no net is called like the absence of one), `SanitizedAssumption`
  (what sanitising makes of the name of a net is again such a name) and
  `InitialAssumption` (the first board is a board) of ContextView;
- `CopperAssumption`: what CopperTools is given is on the grid, the items of a
  board are told apart by their ids, a via is what goes through all layers and has
  one point, and the board of a route_board has a zone (without one the tool
  stitches nothing);
- `LimitAssumption`: a page has at least one violation;
- `MaxEditsAssumption`, `MaxCallsAssumption`, `BoundAssumption`,
  `MaxFindingsAssumption`: the bounds are natural numbers.

Each safety property is proved from an inductive invariant, which TLC checked on
the instances above before it was proved. The invariant of a component is a
conjunction of named parts, and the proof has a lemma for each action or for
each part.

**The store.** `TypeCorrect` is the type invariant. `RetentionWindow`,
`AnchorIsNewestDisk` and `FlagNamesSnapshot` are not inductive alone: the
invariant is `StoreInv`, which adds the types and `RecordedMtimesPast` (every
recorded mtime is that of a past write, and none is 0). `KeepNewestSlides`
shows that `popitem` until the limit moves the window by exactly one;
`RegisterKeepsAnchor` is the case analysis on live and disk registrations.
From `StoreInv` follow the three invariants, `StaleForEver` (a file that
changed since it was recorded never has its old mtime again, because writes
take the clock forward) and the refinement `ImplementsDetector`.

**The composed system.** `ImplementsStore` shows that every step of BoardSync is
a step of the store or leaves it alone, so every theorem about the store holds
in it. `SyncInvariant` proves

    SyncInv == StoreInv /\ CallOK /\ BoardOK /\ AnchorsPcb /\ BehindIsGuarded /\ MarkOK

- `CallOK`: a call whose guard has not passed has its guard before any save,
  whatever `Zones` or `Delta` put in place of its steps;
- `BoardOK`: the types of the board's copies and of the ghosts;
- `AnchorsPcb`: both project files exist, and every anchor tracks the
  `.kicad_pcb`;
- `BehindIsGuarded`: an editor behind the disk is guarded, or the way it came
  to be unguarded is one of the four in `gaps`;
- `MarkOK`: outside the gaps, whatever the disk has and the editor lacks was
  made after the guard of the running call had passed.

`BehindIsGuarded` is not inductive alone: it needs `AnchorsPcb`, so that an
external write changes an mtime that the anchor has, and `StoreInv`, so that the
new mtime differs from the recorded one. `MarkOK` needs `BehindIsGuarded`: a
guard that passes with `gaps = {}` finds an editor that is not behind.
`SaveCorrect` (`SaveKeepsDisk`) then follows: the step that saves comes after
its guard by `CallOK`, and overwrites nothing older by `MarkOK`.

**An undisturbed call.** `OwnWritesAreKnown`, `FillIsPersisted` and
`ReloadUnblocks` are about a call during which the world stood still, from its
guard to its registration, so they need an invariant about every place in
between. `UndisturbedOK` (`UndisturbedInvariant`, on top of `SyncInv`) says that

- what is left of a call is `Ordered`: whatever writes a file has a registration
  after it, a fill is saved right after its clearance and registered right after
  that, a reload is registered after one read. `TailOrdered`, `PersistIsOrdered`
  and `DeltaIsOrdered` show that this survives every step, also where `Zones` or
  `Delta` put other steps in place of those left;
- the guard that let an undisturbed call through would do so again, or the call
  has still to register mtimes;
- disk and editor hold what the next step relies on: the clearance of the fills
  before they are saved, one and the same board before it is registered.

**route_board.** `RouteInvariant` proves `RouteInv == SyncInv /\ RouteOK` of the
composition with route_board, so `RouteBehindCorrect` and `RouteSaveCorrect`
carry `BehindIsGuarded` and `SaveKeepsDisk` over to it: the editor that
`Replace` leaves behind is guarded by its mtime until `RegisterRoute` records
it, and by the flag after. `RouteOK` says where a route_board stands, in one
list of the lists of steps that it may have left (`RoutePlaces`; `PlacesFollow`
gives the successors):

- `RoutePlace`: it marks what it has reloaded exactly when the reload is done,
  and refills and saves only then (`SavingFill`), on the project's own board;
- `RouteMark`: what the editor lacks of the disk once it has reloaded was made
  after that. The save of a refill can lose nothing else, which is
  `RouteSavesCorrect`: never the routing, whatever failed before;
- `RouteUndisturbed`: if the world stands still, disk and editor are equal after
  the reload except while a refill is not yet saved, and a refill that was asked
  for has been saved with its clearance when the call has come to its
  measurements. `RoutePersistedCorrect` is what it amounts to at the end;
- the calls of other tools have none of the steps that only route_board has, so
  that the two kinds of calls can be told apart by any step.

The rest of what is proved of the other tools holds with route_board among them
too; the run that checks those properties, MCBoardSync, has no route_board. `RouteImplementsStore` is the
refinement of the store, so that `StorePromisesKept`: retention, anchor, flag,
`StaleNeverRevives` and `DetectsEdits` hold in the system with every tool.
`UndisturbedOK` does not hold while a route_board runs, which saves without
registering until its end; `OthersInvariant` says that it holds at all other
times, because a route_board stays one until its call ends (`RouteIsRoute`), and a
call that has ended leaves nothing to rely on. From it follow `RouteFillCorrect`,
`RouteReloadCorrect` and, with `RouteEndsKnown` (a route_board answers OK only by
registering the mtimes it finds last), `RouteOwnWritesCorrect`.

**What the agent is told.** `ViewInvariant` proves

    ViewInv == StoreInv /\ ViewTypeOK /\ ViewsTellStates /\ LossIsDeclared

which is inductive. `FullCascadeDeclares` and `DeltaCascadeDeclares` show that
no level of either cascade gives up a thing without its label;
`FullDocumentTells` that a full document of any level tells the truth, and
leaves out only what its labels declare. The step for a delta rests on three
lemmas. `SilentNetIsPart`: whatever a name without a line stands for, taking away the
members that the delta says are elsewhere leaves none that is not one now.
`SilentNetTells`: for a name that is one net's own (`OwnName`: its raw and its
sanitised members are the same), which was then unchanged or emptied since the base,
what is left are the members it has now. `DeltaTells`: a truthful view of the base, however degraded
the documents it came from, becomes a truthful view of the new snapshot when the
delta is applied, and what it still lacks was declared then or before.
`StoreInv` says that the base is still retained, or the call is refused, and
that a new snapshot never takes the number of an old one. `OkRefsCorrect` is an
action property from the same invariant: a component that the `[AREA]` section
calls unchanged is in none of the three sections of changes.

**The schematic.** `SchInvariant` proves

    SchInv  == StateInv /\ CallInv /\ AuditOrFailure
    StateInv == FilesOK /\ EditsOK /\ BackupOK /\ CacheOK /\ SnapsOK
    CallInv  == CallOK /\ BackupSteps /\ LoadOK /\ ReadOK /\ AnswerOK

on which its seven theorems rest. The cache and the checks compare mtimes, so the
argument has to be that an mtime names one content. It nearly does: a write takes
the clock above every mtime recorded anywhere, but a backup that is restored
brings back an old one. `FilesOK` says that the backup's mtime is the file's
only when their contents are the same, and `TrueAt(m, state)`, what is known of
the sheet at an mtime, is about both the file and the backup. `NothingBecomesUntrue`
shows that no write and no restore makes it false, which is what `CacheOK` and
`SnapsOK` rest on; the exceptions that the properties name (`torn`, `doubted`)
are the readings that it does not hold for at the moment they are made. Of a
snapshot it holds once what the call made up is taken for read and a stray symbol
for absent: `TellsAt(m, state)` is `TrueAt(m, Settled(state))` and `OneGuess(state)`, at
most one edit of which the netlist was made up. `DerivedTells` is where that comes
from: the state built is the file as it was, without a guess (`ViewSettled`), and what
`Derive` adds to it for each tool settles to the file with the edit.
`ReadOK` follows a reading that no write has come under from `Stat` to
`ReadNetlist`: what it has crossed is the file as it is, because a sheet whose
symbols placed are the symbols listed has none that the netlist leaves out
(`Crossed`).
For gate G1, `BackupOK` says that a sheet never loses what its backup holds,
whoever overwrites it (the world removes only edits of the session), and that no
edit of the session is in a backup; `BackupSteps` says how far the backup of the
running call has come, also after an attempt that failed, over the sheets that it
has to hold (`ToBackUp`: those there are, without those below and those made since
the backup was begun). `LoadOK` puts the two
together at the write: what is written holds what the sheet had when it was
loaded. Where a call stands is `EndOf`: what it has left is an end of its
program (`QueryFollows`, `EditFollows`).

**The bridge.** `BridgeInvariant` proves
`BridgeInv == BridgeTypeOK /\ CallOK /\ BoardOK /\ Recovered`. `Left` are the ends
of the programs and the revert, and `CallOK` says that a method on a board
handle has one. `BoardOK` is the effect of the running call on the board: none
before its create, one item between the create and its verification or revert,
and none is ever made by a call that has ended. Every step leaves the call in
one of four ways (`EndsCall`, `StaysAt`, `GoesOn`, `ToRevert`) and the board in one
of three (`BridgeStepWays`), from which `OneMutation` and `RepliesTellBoard`
follow. `Recovered` is why a second call does not fail for what the bridge
remembers: the failure that is counted has made it forget each dead socket, in
its client, in the running method and in the handle, and the cascade of
sockets finds one that is alive. The newest of the instances that listen is
the greatest of a bounded set of numbers (`GreatestBounded`).

`CallsAreShort` is what can be proved of `CallEnds`. `StepsLeft` counts, for each
request that a call still has to make, its entry, its two retries and the request
itself, and one revert. It is zero just when no call is running, at most 24, every
step of the bridge makes it smaller, and only the beginning of a call makes it
greater: exits and starts of KiCad, which let a request fail, give back none of
its retries.

**Hole clearance, autorouter, fabrication.** `ClearanceInv` follows a pass from
request to request (`Progress`): no keepout is left once it has removed those of
earlier passes, and then there is one for each pair of a zone and a foreign
hole except those still in its plan. With the second fill come the fills. A pass
that somebody disturbs is only sure to have removed every keepout. `RunInv` says
that each step of the autorouter finds the files that the step before it in
the same run has left (`HandOver`), with the one exception of a router that ends
without an SES, and that the board is the exported one until somebody writes it
(`SameBoard`). `FabInv` says what an undisturbed export has established at each of
its steps (`ExportOK`) and leaves when it ends (`EndOK`); `GateSeesErrors` that the
gate, which counts findings whose severity is `error`, and the filter of
`run_drc`, which compares ranks and gives an unknown severity the lowest, mean
the same findings.

**Reports: what a comparison and the pages tell.** A report is a list of any
length, and the two properties are about how many of its members have something
in common. The library's induction over lists is out of reach, so the lemmas
go another way.

- `AmongCounts`: what a selection keeps of a list is as long as there are places
  to keep. The recursive function in `Among` is first shown to exist
  (`AmongIsDefined`), from `LeastNatural`: a set of naturals that is not empty
  has a least member, which is the induction that can be had.
- `PartsTotal`: the sizes of the parts that a function divides a finite set into
  add up to the size of the set. `Total`, the sum, is the size of a disjoint
  union, so this is a bijection between two sets and no induction.
- `CopiesAre`: the places of a list are in bijection with the members of its
  `Counter`, by the rank of each place among those of its identity (`RanksAre`).
- `PairedAreCommon` and `CommonArePaired`: no pairing of equal findings of two
  lists is larger than the intersection of their Counters, and one is as large.
  `DiffIs` puts these together: what is left alone by a greatest pairing is the
  difference of the Counters.

With these, `IntroducedAreThose` (`IntroducedAreNew`) only needs an invariant
that follows the two DRCs of a routing to its reply (`DiffOK`), and `PagesMakeReport`
(`PagesTellReport`) one that says what the agent has in its hands between two
pages (`PagesSoFar`): whole types, the beginning of at most one type, as long as
its offset says, and nothing of the others. As long as no page was of another
file, the last page of the last type completes the report.

**Geometry.** Five theorems say that what the source decides step by step is what
the last section of Geometry means by it, for all integer coordinates:
`SegmentsIntersectIsMeet` (orientations and collinear points against the
parameters of a crossing), `PolygonIsSimpleIsSimple` (which pairs of sides the
loop may leave out; `SpikeTouches` is the fold at a corner that the pairwise
test only sees through the next side), `WithinOfIsNear` (the clamped
projection against strip and discs), `SegmentIntersectsBoxIsOverlaps` (clipping
by four sides in turn against separating lines) and `PointInPolygonIsInside`.
For the last, `RayOrBeam` says that a side crosses one of the two rays but not
both exactly when it leads into the quarter of the plane between them, or out of
it; along a closed outline that happens an even number of times (`OddChanges`), so
the two rays agree. The prover has no algebra of products of three variables; the
lemmas name the products and give it the identities in them.

**Copper tools.** `FindInv` says that the items are copper, told apart by ids below
`nextId`, and that what a call remembers is what its parameters mean on the board
it has read (`Meant`). `DeletionsExact` follows: the removal takes from the board as
it is then, whatever was moved, the ids found before, and no new item has one
of these. `ZoneInv` and `ValidShapeIsGood` give `OutlinesSimple`. `StitchInv` divides
the orphans of the report into the rejected, the waiting and the done, and says
that vias and done orphans are in bijection, which `AsManyVias` counts;
`CandidateIsStitchable` is where the geometry comes in, off the outlines of zones.

**Proved, and in no run of its own.** `StoreTypeOK` (`TypeCorrect`; `TypeOK` of
MCBoardSync contains it), `FlagNamesSnapshot` (`FlagCorrect`), the measure of
`CallsAreShort`, and the geometry's five theorems.

**What the proofs found in the models.** Two definitions were not what the code
does, and no run could tell. A failing `add_zone` constrained `call'` twice, so
that it could not happen; the run was right, but said nothing of it. And `Diff`
gave `por_tipo` a count of zero for each type of error that the routing had left
alone, where the code's dictionary has only the types with something introduced.
Both are corrected; the properties hold of the corrected models.

**Only model-checked.** `CallEnds`, which is liveness under fairness and out of
the prover's reach: that a running call makes its steps needs `ENABLED`, and to
end by a measure that decreases needs induction. That the measure does decrease is
`CallsAreShort`. The two disagreements found are
counterexamples, and stay with TLC.

## 5. Not modelled

- The queries `get_component_detail` and `get_zones` list what they read;
  `get_footprint_neighbors`, and the collisions that add_track warns of, measure
  distances to the board's edge and to rotated, rounded pads, which need roots
  and angles.
- The text and the token budget of the lists of tracks and zones.
- `run_erc`, `export_bom`, `export_netlist`, `export_render`: one run of
  kicad-cli and one answer or file, without a gate, pages or state.
- Parsers (netlist, S-expressions, DSN, SES, project rules), the rounding of
  real numbers and the conversion of kipy's objects: pure conversion whose
  correctness is a matter of data, not of order. The rounding of a violation's
  position to 0.1 mm in `_violation_identity` is part of that: the model has
  identities that are equal or not.
- `classify_net_routing`: a count by net of pads and copper that its own comment
  calls a heuristic ("No reconstruye el grafo"), so that there is no meaning of
  "routed" to hold it to.
- A write of a sheet that fails half-way and leaves a torn file: `skip` writes
  the sheet in place, and what a torn S-expression parses to is not determined
  by this code.
- The text of a TOON document: its order, the estimate of its tokens, and the
  sanitising of references and values (a reference is short and has no special
  character; two that became one would be one component to the agent).
- References that occur on two sheets: `_collect_all_refs` takes the first sheet, and
  a value set there is derived for the component of the root schematic
  (`tools/sch.py:1010` says that references are unique in a project).
- Copies of the board in G1's backup, and what a restored git checkpoint holds.
- The lines of the audit log for refused calls, and the palette sheet as a file
  of its own (it is read only).
- Projects whose board has another name than the root schematic:
  `collect_project_mtimes` never sees such a board, so no property about the
  guard applies to them.
- Two servers on one project: the second one is another program to the first,
  which is the `external` and `schematic` world.
- The environment check script and the measurement script of the validation
  suite, which use nothing of the server.

## 6. Plan

Done: all the modules above, and the proofs of every safety property and action
property that a passing run checks.

What could follow, in this order:

1. That the requests of HoleClearance implement the single steps `Refill` and
   `Enforce` that BoardSync takes for them, and those of IpcBridge its `Request`.
2. ContextView under the schematic's states: the parts of a state of the
   schematic that a board's has not (values, footprints, several pins).
3. `get_footprint_neighbors` and the clearance of new tracks: distances to
   rotated, rounded pads, over a grid of rational numbers.
