----------------------------- MODULE IpcBridge -----------------------------
(***************************************************************************)
(* The connection of the server to KiCad (class IpcBridge of               *)
(* bridge/ipc.py, and the health tool that probes it): the socket that is  *)
(* looked for again on every call, the client that is kept between calls,  *)
(* the instance token, the requests of a method with their supervision,    *)
(* and the retries of idempotent reads.                                    *)
(*                                                                         *)
(* KiCad starts, exits and crashes between any two requests.  One method   *)
(* runs at a time (a lock of depth one), and KiCad serves its requests in  *)
(* order on one thread: a request that timed out has been applied before   *)
(* the next one is answered, or never.                                     *)
(***************************************************************************)
EXTENDS Integers, Sequences, FiniteSets

CONSTANTS
  Legacy, NoPath,  \* /tmp/kicad/api.sock; no path at all
  Overrides,       \* values of KICAD_API_SOCKET or the argument of the bridge
  Tools,           \* the tools the agent calls (see Program)
  World,           \* what happens around the server (see AllOfTheWorld)
  MaxStarts,       \* bound: starts of KiCad
  MaxCalls         \* bound: tool calls

\* The n-th instance of KiCad listens on /tmp/kicad/api-<PID>.sock, here n, or
\* on the legacy path.
Paths == (1..MaxStarts) \cup {Legacy}

ASSUME PathsAssumption ==
  /\ MaxStarts \in Nat /\ Legacy \notin 0..MaxStarts /\ NoPath \notin Paths
  /\ Overrides \subseteq Paths \cup {NoPath}
ASSUME MaxCallsAssumption == MaxCalls \in Nat

\* exit, crash: KiCad goes and leaves no socket file, or a dead one; environ:
\* KICAD_API_TOKEN changes in the environment of the server's own process;
\* failures: KiCad answers that it is busy, or with an error, or too late;
\* reassigned: KiCad gives new copper the net of the copper under it; empty:
\* KiCad answers a create request without an item.
AllOfTheWorld == {"exit", "crash", "environ", "failures", "reassigned", "empty"}

VARIABLES
  sockets,     \* the socket files, and who listens on each: an instance or 0
  starts,
  env,         \* KICAD_API_TOKEN as the server's process sees it
  override,    \* the pinned socket, or NoPath
  socketPath, client, token,  \* IpcBridge: _socket_path, _client, _instance_token
  call,        \* the tool call in progress, or the reply of the last one
  calls,
  made,        \* ghost: how many items each call has put on the board
  streak       \* ghost: calls in a row that failed although KiCad was up and answered

kicad == <<sockets, starts, env, override>>
bridge == <<socketPath, client, token>>
vars == <<kicad, bridge, call, calls, made, streak>>

NoToken == 0
Tokens == 0..2
NoClient == NoPath
Replies == {"none", "OK", "BUSY", "KICAD_TIMEOUT", "KICAD_NOT_RUNNING",
            "KICAD_CLI_FAILED", "KICAD_RESTARTED", "NET_ASSIGNMENT_MISMATCH",
            "NOT_FOUND"}

----------------------------------------------------------------------------
(* The tools, as the requests of the methods they call                     *)

Steps == {"probe", "version", "documents", "open", "read",
          "lookup", "effect", "create", "verify", "revert"}

\* Methods that ask the client of the bridge; the others ask a board handle.
ClientReads == {"version", "documents", "open"}

\* _IDEMPOTENT_OPS: they go through _run_supervised_read.
Idempotent == ClientReads \cup {"read"}

\* Later requests of the method that is already running.
Within == {"effect", "create", "verify", "revert"}

Health == <<"probe", "version", "documents">>
ReadBoard == <<"open", "read">>
EditBoard == <<"open", "read", "lookup", "effect">>
AddCopper == <<"open", "read", "lookup", "create", "verify">>  \* add_track, add_via

Program == [health |-> Health, readBoard |-> ReadBoard,
            editBoard |-> EditBoard, addCopper |-> AddCopper]

ASSUME ToolsAssumption == Tools \subseteq {"health", "readBoard", "editBoard", "addCopper"}

\* A call: its requests left, the client that the running method uses, the
\* client behind its board handle, and the retries of the running read.
Calls == [todo : Seq(Steps), via : Paths \cup {NoClient}, handle : Paths \cup {NoClient},
          attempt : 0..2, id : 0..MaxCalls, reply : Replies]

Idle(reply) ==
  [todo |-> <<>>, via |-> NoClient, handle |-> NoClient, attempt |-> 0,
   id |-> call.id, reply |-> reply]

Running == call.todo # <<>>
Doing(step) == Running /\ Head(call.todo) = step

----------------------------------------------------------------------------
(* Sockets                                                                 *)

Present(path) == path \in DOMAIN sockets
Alive(path) == Present(path) /\ sockets[path] # 0

\* _resolve_kicad_socket: the override, the legacy path, the newest of the
\* others; if there is none, the override all the same.
Resolve ==
  IF Present(override) THEN override
  ELSE IF Present(Legacy) THEN Legacy
  ELSE IF DOMAIN sockets = {} THEN override
  ELSE CHOOSE path \in DOMAIN sockets : \A other \in DOMAIN sockets : other <= path

----------------------------------------------------------------------------
(* Ends and continuations of a call                                        *)

\* A call that fails for want of a listener while KiCad could be reached counts
\* against the bridge; KICAD_RESTARTED is no failure but the report of one.
Blames(reply) ==
  /\ reply \in {"KICAD_TIMEOUT", "KICAD_NOT_RUNNING"}
  /\ ~Alive(call.via) /\ Alive(Resolve)

Return(reply) ==
  /\ call' = Idle(reply)
  /\ streak' = IF Blames(reply) THEN IF streak = 2 THEN 2 ELSE streak + 1
               ELSE IF reply = "KICAD_RESTARTED" THEN streak
               ELSE 0

\* On to the next request, of the same method or of the next one.
Continue ==
  IF Len(call.todo) = 1
    THEN Return("OK")
    ELSE /\ call' = [call EXCEPT !.todo = Tail(@), !.attempt = 0,
                       !.via = IF call.todo[2] \in Within THEN @ ELSE NoClient,
                       !.handle = IF Doing("open") THEN call.via ELSE @]
         /\ UNCHANGED streak

----------------------------------------------------------------------------
(* The bridge                                                              *)

Begin ==
  /\ ~Running
  /\ calls < MaxCalls
  /\ calls' = calls + 1
  /\ \E tool \in Tools : call' = [Idle("none") EXCEPT !.todo = Program[tool], !.id = calls + 1]
  /\ UNCHANGED <<kicad, bridge, made, streak>>

\* health asks socket_present first.
Probe ==
  /\ Doing("probe")
  /\ socketPath' = Resolve
  /\ IF Present(Resolve) THEN Continue ELSE Return("KICAD_NOT_RUNNING")
  /\ UNCHANGED <<kicad, client, token, calls, made>>

\* _detect_restart finds a token that is not the one it keeps.
TokenChanged == token # NoToken /\ env # NoToken /\ env # token

\* A method that finds it: the client goes, the new token is kept.
DetectRestart ==
  /\ Running /\ call.via = NoClient /\ ~Doing("probe")
  /\ TokenChanged
  /\ client' = NoClient
  /\ token' = env
  /\ Return("KICAD_RESTARTED")
  /\ UNCHANGED <<kicad, socketPath, calls, made>>

\* The first half of a method on a board handle: it asks the client that gave
\* the handle, whatever has become of it.
EnterBoardMethod ==
  /\ Running /\ call.via = NoClient /\ ~Doing("probe")
  /\ Head(call.todo) \notin ClientReads
  /\ ~TokenChanged
  /\ token' = IF token = NoToken THEN env ELSE token
  /\ call' = [call EXCEPT !.via = call.handle]
  /\ UNCHANGED <<kicad, socketPath, client, calls, made, streak>>

\* A client of another socket than the resolved one is dropped.
KeptClient == IF Resolve = socketPath THEN client ELSE NoClient

\* _ensure_client, when it has a client or can make one.
EnsureClient ==
  /\ Running /\ call.via = NoClient
  /\ Head(call.todo) \in ClientReads
  /\ ~TokenChanged
  /\ KeptClient # NoClient \/ Present(Resolve)
  /\ socketPath' = Resolve
  /\ client' = IF KeptClient = NoClient THEN Resolve ELSE KeptClient
  /\ token' = IF KeptClient = NoClient \/ token = NoToken THEN env ELSE token
  /\ call' = [call EXCEPT !.via = client']
  /\ UNCHANGED <<kicad, calls, made, streak>>

\* No client, and none can be made: the socket file is missing, or nobody
\* listens on it.
NoClientToEnsure ==
  /\ Running /\ call.via = NoClient
  /\ Head(call.todo) \in ClientReads
  /\ ~TokenChanged
  /\ KeptClient = NoClient /\ ~Alive(Resolve)
  /\ socketPath' = Resolve
  /\ client' = NoClient
  /\ token' = IF token = NoToken THEN env ELSE token
  /\ Return("KICAD_NOT_RUNNING")
  /\ UNCHANGED <<kicad, calls, made>>

Requesting(steps) == Running /\ call.via # NoClient /\ Head(call.todo) \in steps

\* What may become of a request that is not served.
Failures ==
  IF Alive(call.via)
    THEN IF "failures" \in World
           THEN {"busy", "unhandled", "error", "timeout", "disconnected"}
           ELSE {}
    ELSE {"timeout", "disconnected"}

\* _map_ipc_failure
Mapped(failure) ==
  CASE failure = "timeout" -> "KICAD_TIMEOUT"
    [] failure = "disconnected" -> "KICAD_NOT_RUNNING"
    [] failure = "busy" -> "BUSY"
    [] failure \in {"unhandled", "error"} -> "KICAD_CLI_FAILED"

\* Faulty: a timeout keeps the client.
SuperviseKeepingOnTimeout(failure) ==
  client' = IF failure \in {"busy", "timeout"} THEN client ELSE NoClient

\* _supervise: a failure makes the client suspect, unless KiCad was busy.
Supervise(failure) == client' = IF failure = "busy" THEN client ELSE NoClient

\* A request that reads.
Read ==
  /\ Requesting(Idempotent \cup {"lookup"})
  /\ Alive(call.via)
  /\ Continue
  /\ UNCHANGED <<kicad, bridge, calls, made>>

\* NET_NOT_FOUND, COMPONENT_NOT_FOUND: what the method itself refuses in an
\* answer passes _supervise untouched.
NotFound ==
  /\ Requesting({"read", "lookup"})
  /\ Alive(call.via)
  /\ Return("NOT_FOUND")
  /\ UNCHANGED <<kicad, bridge, calls, made>>

\* Faulty: one retry too many.
RetriesOnceMore == Head(call.todo) \in Idempotent /\ call.attempt <= 2

\* An idempotent read that KiCad is too busy for is tried twice more.
Retries == Head(call.todo) \in Idempotent /\ call.attempt < 2

\* Faulty: the retries are not counted.
RetryForEver ==
  /\ Requesting(Idempotent)
  /\ "busy" \in Failures
  /\ call' = [call EXCEPT !.attempt = 1 - @]
  /\ UNCHANGED <<kicad, bridge, calls, made, streak>>

\* Faulty: a mutating method is tried again too, from its start.
RetryOfMutations ==
  /\ Requesting(Steps)
  /\ "busy" \in Failures
  /\ call.attempt < 2
  /\ call' = [call EXCEPT !.attempt = @ + 1,
                !.todo = IF @[1] \in Within THEN <<"lookup", "create", "verify">> ELSE @]
  /\ UNCHANGED <<kicad, bridge, calls, made, streak>>

Retry ==
  /\ Requesting(Idempotent)
  /\ "busy" \in Failures
  /\ Retries
  /\ call' = [call EXCEPT !.attempt = @ + 1]
  /\ UNCHANGED <<kicad, bridge, calls, made, streak>>

\* has_open_pcb takes "unhandled" for an answer: no editor is open.
NoEditor ==
  /\ Requesting({"documents"})
  /\ "unhandled" \in Failures
  /\ Supervise("unhandled")
  /\ Continue
  /\ UNCHANGED <<kicad, socketPath, token, calls, made>>

\* Any other failed request ends the call.
Fail ==
  /\ Running /\ call.via # NoClient
  /\ \E failure \in Failures :
       /\ ~(failure = "busy" /\ Retries)
       /\ ~(failure = "unhandled" /\ Doing("documents"))
       /\ Supervise(failure)
       /\ Return(Mapped(failure))
  /\ UNCHANGED <<kicad, socketPath, token, calls, made>>

Made(n) == made' = [made EXCEPT ![call.id] = @ + n]

\* A request that changes the board is served ...
Mutate ==
  /\ Requesting({"effect", "create"})
  /\ Alive(call.via)
  /\ Made(1)
  /\ Continue
  /\ UNCHANGED <<kicad, bridge, calls>>

\* ... or it is served, and the answer is lost.
MutateUnheard ==
  /\ Requesting({"effect", "create"})
  /\ Alive(call.via)
  /\ \E failure \in Failures \cap {"timeout", "disconnected"} :
       Supervise(failure) /\ Return(Mapped(failure))
  /\ Made(1)
  /\ UNCHANGED <<kicad, socketPath, token, calls>>

\* Nothing was created: add_track and add_via return early, and the tool says OK.
CreatedNothing ==
  /\ Requesting({"create"})
  /\ "empty" \in World
  /\ Alive(call.via)
  /\ Return("OK")
  /\ UNCHANGED <<kicad, bridge, calls, made>>

\* _verify_created_net_or_revert finds the net that was asked for, or no item.
VerifySame ==
  /\ Requesting({"verify"})
  /\ Alive(call.via)
  /\ Continue
  /\ UNCHANGED <<kicad, bridge, calls, made>>

\* It finds another one.
VerifyOther ==
  /\ Requesting({"verify"})
  /\ Alive(call.via)
  /\ "reassigned" \in World
  /\ call' = [call EXCEPT !.todo = <<"revert">>]
  /\ UNCHANGED <<kicad, bridge, calls, made, streak>>

\* Faulty: the mismatch is reported, the item stays.
RevertNothing ==
  /\ Requesting({"revert"})
  /\ Alive(call.via)
  /\ Return("NET_ASSIGNMENT_MISMATCH")
  /\ UNCHANGED <<kicad, bridge, calls, made>>

\* The item is removed; NET_ASSIGNMENT_MISMATCH passes _supervise untouched.
Revert ==
  /\ Requesting({"revert"})
  /\ Alive(call.via)
  /\ Made(-1)
  /\ Return("NET_ASSIGNMENT_MISMATCH")
  /\ UNCHANGED <<kicad, bridge, calls>>

RevertUnheard ==
  /\ Requesting({"revert"})
  /\ Alive(call.via)
  /\ \E failure \in Failures \cap {"timeout", "disconnected"} :
       Supervise(failure) /\ Return(Mapped(failure))
  /\ Made(-1)
  /\ UNCHANGED <<kicad, socketPath, token, calls>>

BridgeStep ==
  \/ Probe \/ DetectRestart \/ EnterBoardMethod \/ EnsureClient \/ NoClientToEnsure
  \/ Read \/ NotFound \/ Retry \/ NoEditor \/ Fail
  \/ Mutate \/ MutateUnheard \/ CreatedNothing
  \/ VerifySame \/ VerifyOther \/ Revert \/ RevertUnheard

----------------------------------------------------------------------------
(* KiCad                                                                   *)

\* A new start of KiCad is a change, and the bridge may fail once for it.
Disturb == streak' = 0 /\ UNCHANGED <<bridge, call, calls, made>>

Start ==
  /\ starts < MaxStarts
  /\ starts' = starts + 1
  /\ \E path \in {starts + 1, Legacy} :
       /\ ~Alive(path)
       /\ sockets' = [p \in DOMAIN sockets \cup {path} |->
                        IF p = path THEN starts + 1 ELSE sockets[p]]
  /\ Disturb
  /\ UNCHANGED <<env, override>>

Exit ==
  /\ "exit" \in World
  /\ \E path \in DOMAIN sockets :
       sockets' = [p \in DOMAIN sockets \ {path} |-> sockets[p]]
  /\ Disturb
  /\ UNCHANGED <<starts, env, override>>

\* The socket file outlives its listener.
Crash ==
  /\ "crash" \in World
  /\ \E path \in DOMAIN sockets : Alive(path) /\ sockets' = [sockets EXCEPT ![path] = 0]
  /\ Disturb
  /\ UNCHANGED <<starts, env, override>>

\* Nothing in the source does this; the repository's tests do.
ChangeEnviron ==
  /\ "environ" \in World
  /\ env' \in Tokens \ {env}
  /\ Disturb
  /\ UNCHANGED <<sockets, starts, override>>

WorldStep == Start \/ Exit \/ Crash \/ ChangeEnviron

----------------------------------------------------------------------------

Init ==
  /\ sockets = [p \in {} |-> 0] /\ starts = 0
  /\ env \in {NoToken, 1}
  /\ override \in Overrides
  /\ socketPath = override
  /\ client = NoClient
  /\ token = NoToken
  /\ call = [todo |-> <<>>, via |-> NoClient, handle |-> NoClient, attempt |-> 0,
             id |-> 0, reply |-> "none"]
  /\ calls = 0
  /\ made = [i \in 1..MaxCalls |-> 0]
  /\ streak = 0

Next == Begin \/ BridgeStep \/ WorldStep

\* Every request ends within the timeout of 2 s, so a call goes on as long as
\* KiCad itself stands still; KiCad and the agent are free to do nothing.
Spec == Init /\ [][Next]_vars /\ WF_vars(BridgeStep)

----------------------------------------------------------------------------
(* Properties                                                              *)

\* Every variable has its type.
BridgeTypeOK ==
  /\ DOMAIN sockets \subseteq Paths
  /\ \A path \in DOMAIN sockets : sockets[path] \in 0..MaxStarts
  /\ starts \in 0..MaxStarts
  /\ env \in Tokens /\ token \in Tokens /\ override \in Overrides
  /\ socketPath \in Paths \cup {NoPath}
  /\ client \in Paths \cup {NoClient}
  /\ call \in Calls
  /\ calls \in 0..MaxCalls
  /\ made \in [1..MaxCalls -> Int]
  /\ streak \in 0..2

\* D-07.1: whatever fails and whatever is tried again, a call puts at most one
\* item on the board.
MutationOnce == \A i \in 1..MaxCalls : made[i] \in {0, 1}

\* A mutating call that ends with OK has left its item on the board, and one
\* that ends with NET_ASSIGNMENT_MISMATCH has taken it back; only a create that
\* KiCad answers without an item is reported as OK for nothing.  (A removal of
\* several items has left them gone: some may have been gone before.)
ReplyTellsBoard ==
  [][(Mutate \/ VerifySame \/ Revert) /\ call'.todo = <<>> =>
       made'[call.id] = IF call'.reply = "OK" THEN 1 ELSE 0]_vars

\* F-19b-09, R11: once KiCad is up, at most one call in a row fails because of
\* what the bridge remembers of an earlier instance; the next one connects to
\* the socket that is there.
RecoversAfterOne == streak <= 1

\* A call ends, however long KiCad stays busy or away.
CallEnds == Running ~> ~Running
=============================================================================
