--------------------------- MODULE SchematicSync ---------------------------
(***************************************************************************)
(* The server and the schematic, which it reads and writes on disk without *)
(* KiCad: get_world_context(kind="sch") and get_context_delta              *)
(* (tools/world.py) over the cache of bridge/state_builder.py, and the     *)
(* tools that edit a sheet (tools/sch.py) with gate G1 (gates/g1.py) and   *)
(* the audit log.  Other programs write the sheets between any two steps.  *)
(*                                                                         *)
(* A sheet is the set of edits it contains.  What an edit shows in is what *)
(* the two readers of the schematic tell apart: the position of a symbol   *)
(* is read from the file, its value and nets from kicad-cli's netlist.     *)
(* They read the root schematic only: a symbol on another sheet is astray. *)
(***************************************************************************)
EXTENDS SnapshotStore, Sequences

CONSTANTS
  Root,      \* the root schematic
  Beside,    \* the other sheets of its directory; they are not part of it
  Below,     \* the sheets in directories below that one; nor are they
  Tools,     \* the tools the agent calls
  World,     \* what happens around the server (see AllOfTheWorld)
  MaxEdits   \* bound: edits made to the sheets, by anybody

ASSUME SheetsAssumption ==
  Files = {Root} /\ Root \notin Beside \cup Below /\ Beside \cap Below = {}
ASSUME MaxEditsAssumption == MaxEdits \in Nat

\* external: another program makes or writes a sheet; restore: a sheet is restored from
\* the backup; restart: the server restarts; failures: kicad-cli, git, the
\* disk and the token budget may fail a step.
AllOfTheWorld == {"external", "restore", "restart", "failures"}

VARIABLES
  present,   \* the sheets there are
  sheet,     \* [Sheets -> content]
  cache,     \* _CACHE: [mtimes of the root schematic -> state]
  states,    \* [retained snapshot ids -> state]
  call,      \* the tool call in progress, or the reply of the last one
  backup,    \* [sheets copied -> content and mtime], of G1's last attempt
  done,      \* G1 has passed in this session
  audit,     \* edits with a line in audit.jsonl
  nextEdit,
  late,      \* ghost: sheets made since, in this session, G1 listed what to copy
  own,       \* ghost: edits written by this session
  failed,    \* ghost: edits written by calls that ended in an error
  torn,      \* ghost: cache keys whose state was read across a write
  doubted    \* ghost: snapshots that may differ from the files under them

ghosts == <<late, own, failed, torn, doubted>>
session == <<cache, states, backup, done>>
sheets == <<present, sheet>>
vars == <<storeVars, sheets, cache, states, call, backup, done, audit, nextEdit, ghosts>>

Sheets == {Root} \cup Beside \cup Below
Shows == {"symbol", "placement", "value", "nets", "stray", "nothing"}
Edits == [n : 0..MaxEdits, shows : Shows]

\* bare: symbols the netlist leaves out until KiCad annotates the sheet.
Contents == [edits : SUBSET Edits, bare : SUBSET Edits]

\* guessed: edits whose part of the netlist was made up, not read.
States == [placed : SUBSET Edits, listed : SUBSET Edits, guessed : SUBSET Edits]

Showing(edits, where) == {e \in edits : e.shows \in where}
Placed(content) == Showing(content.edits, {"symbol", "placement"})
Listed(content) == Showing(content.edits, {"symbol", "value", "nets"})

Put(f, k, v) == [x \in DOMAIN f \cup {k} |-> IF x = k THEN v ELSE f[x]]

\* The state that tells the whole of a sheet.
View(content) == [placed |-> Placed(content), listed |-> Listed(content), guessed |-> {}]

----------------------------------------------------------------------------
(* The tools, as the steps each handler takes                              *)

Steps == {"base", "delta", "check", "stat", "positions", "netlist", "backup", "copy",
          "git", "load", "write", "verify", "register", "audit", "encode"}

\* build_state_cached; a cache hit goes from stat to what follows.
Build == <<"stat", "positions", "netlist">>

\* get_world_context(kind="sch")
SchContext == Build \o <<"register", "encode">>

ContextDelta == <<"delta">> \o SchContext

\* ensure_session_backup; the step "copy" is taken once for each sheet.
SessionBackup == <<"backup", "copy", "git">>

\* Faulty: the mtimes of the new snapshot are collected before the write.
SchEditRegisterEarly ==
  <<"base", "check">> \o Build \o SessionBackup
    \o <<"load", "register", "write", "verify", "audit">>

\* add_symbol, set_value, set_footprint and connect_pins.
SchEdit ==
  <<"base", "check">> \o Build \o SessionBackup
    \o <<"load", "write", "verify", "register", "audit">>

NoState == [placed |-> {}, listed |-> {}, guessed |-> {}]
NoContent == [edits |-> {}, bare |-> {}]
NoBackup == [s \in {} |-> NoContent]
NoEdit == [n |-> 0, shows |-> "nothing"]

\* A call: its steps left; the edit it makes, to which sheet, and whether the
\* netlist will leave it out; the mtime and the placements its build read, and
\* the state it built; the sheets G1 has still to copy; the content it loaded;
\* and three ghosts: the next edit when it loaded, whether the root schematic was
\* written since the build began, and whether the world has been still since the
\* call began.
Idle(reply) ==
  [todo |-> <<>>, edit |-> NoEdit, target |-> Root, bare |-> FALSE, key |-> 0,
   placed |-> {}, built |-> NoState, copying |-> {}, loaded |-> NoContent, mark |-> 0,
   raced |-> FALSE, alone |-> TRUE, reply |-> reply]

Replies == {"none", "OK", "EXTERNAL_EDIT_DETECTED", "SNAPSHOT_STALE", "FAILED"}

Running == call.todo # <<>>
Doing(step) == Running /\ Head(call.todo) = step

Return(reply) ==
  /\ call' = Idle(reply)
  /\ failed' = IF reply # "OK" THEN failed \cup (own \cap {call.edit}) ELSE failed

\* The call goes on after its first n steps, with what it now knows.
GoOn(n, known) ==
  IF Len(call.todo) = n
    THEN Return("OK")
    ELSE /\ call' = [known EXCEPT !.todo = SubSeq(@, n + 1, Len(@))]
         /\ UNCHANGED failed
Continue == GoOn(1, call)
MayFail == "failures" \in World /\ Return("FAILED")

----------------------------------------------------------------------------
(* Steps of a tool call                                                    *)

\* What an edit shows in, by the sheet it is made to: the root schematic's two
\* readings tell nothing of another sheet.  A clone within a sheet keeps the
\* reference of its template where kicad-cli looks; a clone from the palette
\* does not.
EditsOf(tool, target) ==
  LET shown(where) == IF target = Root THEN {where} ELSE {"nothing"}
  IN CASE tool = "addSymbol" /\ target = Root -> [shows : {"symbol"}, bare : BOOLEAN]
       [] tool = "addSymbol" /\ target # Root -> [shows : {"stray"}, bare : {FALSE}]
       [] tool = "setValue" -> [shows : shown("value"), bare : {FALSE}]
       [] tool = "connectPins" -> [shows : shown("nets"), bare : {FALSE}]
       [] tool = "setFootprint" -> [shows : {"nothing"}, bare : {FALSE}]

AllTools == {"schContext", "contextDelta", "addSymbol", "setValue", "setFootprint",
             "connectPins"}
Queries == [schContext |-> SchContext, contextDelta |-> ContextDelta]

ASSUME ToolsAssumption == Tools \subseteq AllTools

\* A call starts only within the bounds; it makes at most one edit, one write
\* and one registration, and the world leaves it those.
BeginQuery ==
  /\ ~Running
  /\ nextId <= MaxSnaps
  /\ \E tool \in Tools \cap DOMAIN Queries :
       call' = [Idle("none") EXCEPT !.todo = Queries[tool]]
  /\ UNCHANGED <<storeVars, sheets, session, audit, nextEdit, ghosts>>

BeginEdit ==
  /\ ~Running
  /\ nextId <= MaxSnaps /\ nextEdit <= MaxEdits /\ clock < MaxWrites
  /\ \E tool \in Tools \ DOMAIN Queries, target \in present :
       /\ tool # "addSymbol" => target \notin Below
       /\ \E kind \in EditsOf(tool, target) :
            call' = [Idle("none") EXCEPT !.todo = SchEdit, !.target = target,
                       !.bare = kind.bare, !.edit = [n |-> 0, shows |-> kind.shows]]
  /\ UNCHANGED <<storeVars, sheets, session, audit, nextEdit, ghosts>>

Kept == <<storeVars, sheets, session, audit, nextEdit, late, own, torn, doubted>>

Refusal(base) == IF base \in DOMAIN entries THEN "EXTERNAL_EDIT_DETECTED" ELSE "SNAPSHOT_STALE"
Base == 1..MaxSnaps

\* base_snap of an edit, which the agent may omit or invent.
CheckBase ==
  /\ Doing("base")
  /\ \/ Continue
     \/ \E base \in Base : ~ValidBase(base) /\ Return(Refusal(base))
  /\ UNCHANGED Kept

\* get_context_delta: validate_base_snap, whose base is never optional.
DeltaBase ==
  /\ Doing("delta")
  /\ \E base \in Base :
       \/ ValidBase(base) /\ Continue
       \/ ~ValidBase(base) /\ Return(Refusal(base))
  /\ UNCHANGED Kept

\* _collect_all_refs and the probe of the target sheet: a bad argument or an
\* unreadable sheet ends the call.
Check ==
  /\ Doing("check")
  /\ \/ GoOn(1, [call EXCEPT !.loaded = sheet[call.target], !.mark = nextEdit])
     \/ MayFail
  /\ UNCHANGED Kept

\* The mtime is read, and the cache asked, before anything of the file is.
Stat ==
  /\ Doing("stat")
  /\ LET key == mtime[Root]
         known == [call EXCEPT !.key = key, !.raced = key \in torn]
     IN IF key \in DOMAIN cache
          THEN GoOn(Len(Build), [known EXCEPT !.built = cache[key], !.key = 0])
          ELSE GoOn(1, known)
  /\ UNCHANGED Kept

\* parse_root_positions
Positions ==
  /\ Doing("positions")
  /\ \/ GoOn(1, [call EXCEPT !.placed = Placed(sheet[Root])])
     \/ MayFail
  /\ UNCHANGED Kept

Symbols(edits) == Showing(edits, {"symbol"})

\* Faulty: the state is stored under the mtime found when it is complete.
NetlistKeyedLate ==
  /\ Doing("netlist")
  /\ LET listed == Listed(sheet[Root]) \ sheet[Root].bare
         state == [placed |-> call.placed, listed |-> listed, guessed |-> {}]
     IN \/ /\ Symbols(call.placed) = Symbols(listed)
           /\ cache' = Put(cache, mtime[Root], state)
           /\ torn' = torn
           /\ GoOn(1, [call EXCEPT !.built = state, !.placed = {}, !.key = 0])
        \/ /\ Symbols(call.placed) # Symbols(listed)
           /\ Return("FAILED")
           /\ UNCHANGED <<cache, torn>>
  /\ UNCHANGED <<storeVars, sheets, states, backup, done, audit, nextEdit, late, own, doubted>>

\* load_netlist and the crossing of the two readings; the state is cached under
\* the mtime read before them.
ReadNetlist ==
  /\ Doing("netlist")
  /\ LET listed == Listed(sheet[Root]) \ sheet[Root].bare
         state == [placed |-> call.placed, listed |-> listed, guessed |-> {}]
     IN \/ /\ Symbols(call.placed) = Symbols(listed)
           /\ cache' = Put(cache, call.key, state)
           /\ torn' = IF call.raced THEN torn \cup {call.key} ELSE torn
           /\ GoOn(1, [call EXCEPT !.built = state, !.placed = {}, !.key = 0])
        \/ /\ \/ Symbols(call.placed) # Symbols(listed) /\ Return("FAILED")
              \/ MayFail
           /\ UNCHANGED <<cache, torn>>
  /\ UNCHANGED <<storeVars, sheets, states, backup, done, audit, nextEdit, late, own, doubted>>

\* Faulty: the session is recorded as backed up before anything is copied.
BackupMarkedFirst ==
  /\ Doing("backup")
  /\ IF done
       THEN GoOn(Len(SessionBackup), call) /\ UNCHANGED <<backup, late>>
       ELSE /\ GoOn(1, [call EXCEPT !.copying = present \ Below])
            /\ backup' = NoBackup /\ late' = {}
  /\ done' = TRUE
  /\ UNCHANGED <<storeVars, sheets, cache, states, audit, nextEdit, own, torn, doubted>>

\* ensure_session_backup: once a session.  What will be copied is what the
\* directory of the root schematic holds now, and nothing of those below it.
Backup ==
  /\ Doing("backup")
  /\ IF done
       THEN GoOn(Len(SessionBackup), call) /\ UNCHANGED <<backup, late>>
       ELSE /\ GoOn(1, [call EXCEPT !.copying = present \ Below])
            /\ backup' = NoBackup /\ late' = {}
  /\ UNCHANGED <<storeVars, sheets, cache, states, done, audit, nextEdit, own, torn, doubted>>

\* _copy_docs: one sheet after the other, each with its mtime, into a directory
\* of this attempt.
CopySheet ==
  /\ Doing("copy")
  /\ \/ call.copying = {} /\ Continue /\ UNCHANGED backup
     \/ \E s \in call.copying :
          /\ backup' = Put(backup, s, [content |-> sheet[s], mtime |-> mtime[Root]])
          /\ call' = [call EXCEPT !.copying = @ \ {s}]
          /\ UNCHANGED failed
     \/ MayFail /\ UNCHANGED backup
  /\ UNCHANGED <<storeVars, sheets, cache, states, done, audit, nextEdit, late, own, torn,
                 doubted>>

\* _try_git_checkpoint; only then is the session's backup recorded.
Checkpoint ==
  /\ Doing("git")
  /\ \/ Continue /\ done' = TRUE
     \/ MayFail /\ UNCHANGED done
  /\ UNCHANGED <<storeVars, sheets, cache, states, backup, audit, nextEdit, late, own, torn,
                 doubted>>

\* Faulty: the sheet is not opened again, the one probed is edited.
LoadProbed ==
  /\ Doing("load")
  /\ \/ GoOn(1, [call EXCEPT !.mark = nextEdit])
     \/ MayFail
  /\ UNCHANGED Kept

\* Schematic(sheet_path), opened again to be edited; the symbol or the pin may
\* be gone.
Load ==
  /\ Doing("load")
  /\ \/ GoOn(1, [call EXCEPT !.loaded = sheet[call.target], !.mark = nextEdit])
     \/ MayFail
  /\ UNCHANGED Kept

SetSheet(s, edits, bare) ==
  /\ sheet' = [sheet EXCEPT ![s] = [edits |-> edits, bare |-> bare]]
  /\ IF s = Root THEN Write(Root) ELSE UNCHANGED files

\* sch.write: what was loaded, with the edit, replaces the file.  A clone from
\* the palette opens it once more, and that may fail.
WriteSheet ==
  /\ Doing("write")
  /\ \/ LET edit == [call.edit EXCEPT !.n = nextEdit]
        IN /\ SetSheet(call.target, call.loaded.edits \cup {edit},
                      call.loaded.bare \cup (IF call.bare THEN {edit} ELSE {}))
           /\ nextEdit' = nextEdit + 1
           /\ own' = own \cup {edit}
           /\ \/ GoOn(1, [call EXCEPT !.edit = edit, !.loaded = NoContent])
              \/ /\ "failures" \in World
                 /\ call' = Idle("FAILED") /\ failed' = failed \cup {edit}
     \/ MayFail /\ UNCHANGED <<sheet, nextEdit, own, files>>
  /\ UNCHANGED <<memory, present, session, audit, late, torn, doubted>>

\* D-06.3: the effect is verified in the file.
Verify ==
  /\ Doing("verify")
  /\ \/ call.edit \in sheet[call.target].edits /\ Continue
     \/ call.edit \notin sheet[call.target].edits /\ Return("FAILED")
     \/ MayFail
  /\ UNCHANGED Kept

\* Faulty: the state before the edit is registered as the one after it.
DeriveNothing == call.built

\* _derive_post_state_sch: the new symbol, with its pins unconnected wherever it
\* was put, and on whatever sheet.
DeriveSch(pre, edit) ==
  [pre EXCEPT !.placed = @ \cup {edit}, !.guessed = @ \cup {edit}]

\* _derive_post_state_connect: the name asked for, on the two pins asked for.  In
\* the netlist the name of a local label has the path of its sheet, a global label
\* keeps its own, and the other pins of the nets that are joined follow.
DeriveConnect(pre, edit) == [pre EXCEPT !.guessed = @ \cup {edit}]

\* _derive_post_state_set_value
DeriveSetValue(pre, edit) == [pre EXCEPT !.listed = @ \cup {edit}]

\* The state registered: the one built, with the edit made to it by hand.  Only a
\* new symbol is added wherever it was put; a value or a pin of another sheet is
\* not among the components of the root schematic, and a footprint in no state.
Derive ==
  CASE call.edit.shows \in {"symbol", "stray"} -> DeriveSch(call.built, call.edit)
    [] call.edit.shows = "nets" -> DeriveConnect(call.built, call.edit)
    [] call.edit.shows = "value" -> DeriveSetValue(call.built, call.edit)
    [] OTHER -> call.built

\* Faulty: states of evicted snapshots are kept.
StateOfEvery == Put(states, nextId, Derive)

StateOfRetained ==
  [i \in DOMAIN entries' |-> IF i = nextId THEN Derive ELSE states[i]]

\* collect_project_mtimes and store.register
RegisterState ==
  /\ Doing("register")
  /\ Register("sch", {CollectMtimes})
  /\ KeepStale
  /\ states' = StateOfRetained
  /\ doubted' = IF call.raced THEN doubted \cup {nextId} ELSE doubted
  /\ Continue
  /\ UNCHANGED <<files, sheets, cache, backup, done, audit, nextEdit, late, own, torn>>

\* Faulty: a line that cannot be written is left out.
AuditBestEffort ==
  /\ Doing("audit")
  /\ \/ Continue /\ audit' = audit \cup {call.edit}
     \/ "failures" \in World /\ Continue /\ UNCHANGED audit
  /\ UNCHANGED <<storeVars, sheets, session, nextEdit, late, own, torn, doubted>>

\* audit_record of a mutation that was made.
Audit ==
  /\ Doing("audit")
  /\ \/ Continue /\ audit' = audit \cup {call.edit}
     \/ MayFail /\ UNCHANGED audit
  /\ UNCHANGED <<storeVars, sheets, session, nextEdit, late, own, torn, doubted>>

\* The state does not fit the budget, or the focus is not in it; by now the
\* snapshot is registered.
Encode ==
  /\ Doing("encode")
  /\ Continue \/ MayFail
  /\ UNCHANGED Kept

ToolStep ==
  \/ CheckBase \/ DeltaBase \/ Check \/ Stat \/ Positions \/ ReadNetlist
  \/ Backup \/ CopySheet \/ Checkpoint \/ Load \/ WriteSheet \/ Verify
  \/ RegisterState \/ Audit \/ Encode

----------------------------------------------------------------------------
(* The world around the server                                             *)

\* A call that has still to write is left an edit and a write within the bounds.
Owed == IF \E i \in DOMAIN call.todo : call.todo[i] = "write" THEN 1 ELSE 0
MayEdit == nextEdit + Owed <= MaxEdits
MayWrite == clock + Owed < MaxWrites

\* Whatever writes a sheet, the call in progress is no longer alone.
Disturb(s) ==
  /\ call' = IF Running
                THEN [call EXCEPT !.alone = FALSE, !.raced = @ \/ s = Root]
                ELSE call
  /\ UNCHANGED <<memory, session, audit, own, failed, torn, doubted>>

\* Another program writes a sheet, on top of what it holds or of what it held
\* before this session; KiCad annotates the symbols, an editor of text does not.
\* A net is read as a value is; of a sheet beside or below the root nothing is.
ExternalWrite ==
  /\ "external" \in World
  /\ MayEdit /\ MayWrite
  /\ nextEdit' = nextEdit + 1
  /\ \E s \in present, overwrites, annotates \in BOOLEAN :
       \E shows \in IF s = Root THEN {"symbol", "placement", "value", "nothing"}
                                ELSE {"nothing"} :
         LET base == IF overwrites THEN sheet[s].edits \ own ELSE sheet[s].edits
         IN /\ SetSheet(s, base \cup {[n |-> nextEdit, shows |-> shows]},
                        IF annotates THEN {} ELSE sheet[s].bare \cap base)
            /\ Disturb(s)
  /\ UNCHANGED <<present, late>>

\* Another program makes a sheet in the directory of the root schematic.
ExternalCreate ==
  /\ "external" \in World
  /\ \E s \in Beside \ present :
       present' = present \cup {s} /\ late' = late \cup {s} /\ Disturb(s)
  /\ UNCHANGED <<files, sheet, nextEdit>>

\* The human takes a sheet out of the backup; the copy has the mtime of its
\* original (copy2), and the restored file that one or a new one.
Restore ==
  /\ "restore" \in World
  /\ \E s \in DOMAIN backup :
       /\ sheet' = [sheet EXCEPT ![s] = backup[s].content]
       /\ \/ s = Root /\ MayWrite /\ Write(Root)
          \/ s = Root /\ mtime' = [mtime EXCEPT ![Root] = backup[s].mtime] /\ UNCHANGED clock
          \/ s # Root /\ UNCHANGED files
       /\ Disturb(s)
  /\ UNCHANGED <<present, nextEdit, late>>

ServerRestart ==
  /\ "restart" \in World
  /\ ForgetAll
  /\ cache' = [m \in {} |-> NoState]
  /\ states' = [i \in {} |-> NoState]
  /\ done' = FALSE
  /\ audit' = {} /\ late' = {} /\ own' = {} /\ failed' = {} /\ torn' = {} /\ doubted' = {}
  /\ call' = Idle("none")
  /\ UNCHANGED <<files, sheets, backup, nextEdit>>

----------------------------------------------------------------------------

Init ==
  /\ StoreInit
  /\ mtime = [f \in Files |-> 1]
  /\ present \in {{Root} \cup Below \cup some : some \in SUBSET Beside}
  /\ sheet = [s \in Sheets |-> NoContent]
  /\ cache = [m \in {} |-> NoState]
  /\ states = [i \in {} |-> NoState]
  /\ call = Idle("none")
  /\ backup = NoBackup
  /\ done = FALSE
  /\ audit = {} /\ late = {} /\ own = {} /\ failed = {} /\ torn = {} /\ doubted = {}
  /\ nextEdit = 1

Next ==
  \/ BeginQuery \/ BeginEdit \/ ToolStep
  \/ ExternalWrite \/ ExternalCreate \/ Restore \/ ServerRestart

Spec == Init /\ [][Next]_vars

----------------------------------------------------------------------------
(* Properties                                                              *)

\* Every variable has its type.
SchTypeOK ==
  /\ StoreTypeOK
  /\ late \subseteq present /\ present \subseteq Sheets
  /\ sheet \in [Sheets -> Contents]
  /\ DOMAIN cache \subseteq Nat /\ \A m \in DOMAIN cache : cache[m] \in States
  /\ DOMAIN states = DOMAIN entries /\ \A i \in DOMAIN states : states[i] \in States
  /\ call.todo \in Seq(Steps) /\ call.reply \in Replies
  /\ call.edit \in Edits
  /\ call.built \in States /\ call.copying \subseteq Sheets /\ call.loaded \in Contents
  /\ DOMAIN backup \subseteq Sheets
  /\ done \in BOOLEAN
  /\ audit \cup own \cup failed \subseteq Edits
  /\ torn \subseteq Nat /\ doubted \subseteq Nat

\* A hit in the state cache tells what the root schematic holds now.  It may
\* not only when a program wrote the file while the state was being read and a
\* restored backup brought the mtime of that reading back.
CacheIsTruth ==
  \A m \in DOMAIN cache :
    m = mtime[Root] => cache[m] = View(sheet[Root]) \/ m \in torn

\* A state as the file would tell it, but for a symbol astray, if what was made up
\* of the netlist is taken for what kicad-cli will say.
Settled(state) ==
  LET astray == Showing(Edits, {"stray"})
  IN [placed |-> state.placed \ astray,
      listed |-> state.listed \cup (state.guessed \ astray),
      guessed |-> {}]

\* A snapshot the server accepts as a base leaves nothing out that the root
\* schematic holds now and tells nothing else, but for what one edit, its own
\* call's, shows in the netlist (connect_pins makes up the nets of two pins,
\* add_symbol leaves the pins of its symbol unconnected) or on another sheet
\* (add_symbol tells of its symbol there too).  One registered by a call whose
\* reading the file changed under may differ in everything.
ValidBaseIsTruth ==
  \A i \in DOMAIN entries :
    ValidBase(i) /\ i \notin doubted =>
      /\ Settled(states[i]) = View(sheet[Root])
      /\ \A d, e \in states[i].guessed : d = e

\* D-08.5: the snapshot an undisturbed call returns is a valid base for the
\* next one: its mtimes are those the files have after the server's own write.
OkSnapIsValid ==
  [][Running /\ ~Running' /\ call.alone /\ call'.reply = "OK" =>
       ValidBase(nextId - 1)']_vars

\* A tool writes a whole sheet, yet loses no edit that was in the file when it
\* opened it to make its own, however long its checks, its reading of the
\* netlist and its backup took.
SchWriteKeepsEdits ==
  [][WriteSheet =>
       \A e \in sheet[call.target].edits \ sheet'[call.target].edits : e.n >= call.mark]_vars

\* Gate G1: once the session has changed a sheet, whatever failed before, every
\* sheet that was in the directory of the root schematic when the backup was
\* begun has a copy with no edit of the session in it.  A sheet in a directory
\* below, or made since, has none, though add_symbol may have changed it.
MutationHasBackup ==
  own # {} =>
    /\ done
    /\ \A s \in present \ (Below \cup late) :
         s \in DOMAIN backup /\ backup[s].content.edits \cap own = {}

\* No change is made in silence: one that a finished call left in a sheet is in
\* the audit log, or that call told the agent that it failed.
AuditOrFailure ==
  own \subseteq audit \cup failed \cup (IF Running THEN {call.edit} ELSE {})

----------------------------------------------------------------------------
(* What the documentation says and the code does not do                    *)

\* tool-catalog.md: the snap_id of a confirmation is valid as the base_snap of
\* the next mutation.  So where nothing fails and nobody else writes, no call is
\* refused but for its base.
NextMutationWorks == World = {} => call.reply # "FAILED"
=============================================================================
