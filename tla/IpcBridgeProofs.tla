-------------------------- MODULE IpcBridgeProofs --------------------------
(***************************************************************************)
(* Proofs about IpcBridge, for any number of starts of KiCad, tool calls   *)
(* and pinned sockets, and whatever happens around the server: a call puts *)
(* at most one item on the board and its reply tells the truth about it,   *)
(* and what the bridge remembers of an earlier instance of KiCad costs at  *)
(* most one call.                                                          *)
(***************************************************************************)
EXTENDS IpcBridge, WellFoundedInduction, TLAPS

\* What may be left of a call: an end of a program, or the revert.
Left == {
  <<>>, Health, <<"version", "documents">>, <<"documents">>,
  ReadBoard, <<"read">>,
  EditBoard, <<"read", "lookup", "effect">>, <<"lookup", "effect">>, <<"effect">>,
  AddCopper, <<"read", "lookup", "create", "verify">>, <<"lookup", "create", "verify">>,
  <<"create", "verify">>, <<"verify">>, <<"revert">>}

\* A method on a board handle has one.
CallOK ==
  /\ call.todo \in Left
  /\ call.id = calls
  /\ Running => /\ calls # 0
                /\ Head(call.todo) \notin ClientReads \cup {"probe"} => call.handle \in Paths

\* The item of a call is on the board from its create to its revert.
BoardOK ==
  /\ \A i \in 1..MaxCalls : made[i] \in {0, 1} /\ (i > calls => made[i] = 0)
  /\ Running => made[calls] = IF Head(call.todo) \in {"verify", "revert"} THEN 1 ELSE 0

\* After a failure for want of a listener the bridge remembers no dead socket,
\* as long as KiCad stays as it is.
NoneOrAlive(path) == path = NoClient \/ Alive(path)

Recovered ==
  streak # 0 =>
    /\ streak = 1
    /\ Alive(Resolve)
    /\ NoneOrAlive(client) /\ NoneOrAlive(call.via) /\ NoneOrAlive(call.handle)

BridgeInv == BridgeTypeOK /\ CallOK /\ BoardOK /\ Recovered
----------------------------------------------------------------------------
(* Programs and sockets                                                    *)

\* The requests that are left after the first one.
LEMMA Rests ==
  ASSUME NEW todo \in Left, todo # <<>>
  PROVE  /\ todo \in Seq(Steps) /\ Head(todo) \in Steps
         /\ Tail(todo) \in Left
         /\ Len(todo) = 1 <=> Tail(todo) = <<>>
         /\ Tail(todo) # <<>> =>
              /\ Head(Tail(todo)) = todo[2]
              /\ Head(Tail(todo)) \notin {"probe", "open", "revert"}
              /\ Head(Tail(todo)) = "verify" <=> Head(todo) = "create"
              /\ Head(todo) \in {"probe", "version", "documents"}
                   <=> Head(Tail(todo)) \in ClientReads
         /\ Head(todo) \in {"effect", "verify", "revert"} => Tail(todo) = <<>>
         /\ Head(todo) = "create" => Tail(todo) # <<>>
<1> USE DEF Left, Steps, ClientReads, Health, ReadBoard, EditBoard, AddCopper
<1>1. CASE todo = Health
  BY <1>1
<1>2. CASE todo = <<"version", "documents">>
  BY <1>2
<1>3. CASE todo = <<"documents">>
  BY <1>3
<1>4. CASE todo = ReadBoard
  BY <1>4
<1>5. CASE todo = <<"read">>
  BY <1>5
<1>6. CASE todo = EditBoard
  BY <1>6
<1>7. CASE todo = <<"read", "lookup", "effect">>
  BY <1>7
<1>8. CASE todo = <<"lookup", "effect">>
  BY <1>8
<1>9. CASE todo = <<"effect">>
  BY <1>9
<1>10. CASE todo = AddCopper
  BY <1>10
<1>11. CASE todo = <<"read", "lookup", "create", "verify">>
  BY <1>11
<1>12. CASE todo = <<"lookup", "create", "verify">>
  BY <1>12
<1>13. CASE todo = <<"create", "verify">>
  BY <1>13
<1>14. CASE todo = <<"verify">>
  BY <1>14
<1>15. CASE todo = <<"revert">>
  BY <1>15
<1> QED BY <1>1, <1>2, <1>3, <1>4, <1>5, <1>6, <1>7, <1>8, <1>9, <1>10, <1>11, <1>12, <1>13, <1>14, <1>15

\* What may be left of a call is a list of requests.
LEMMA LeftAreSequences == Left \subseteq Seq(Steps)
<1>1. <<>> \in Seq(Steps)
  OBVIOUS
<1> QED BY <1>1, Rests

\* A set of natural numbers that is not empty has a least element.
LEMMA LeastNatural ==
  ASSUME NEW T, T \subseteq Nat, T # {}
  PROVE  \E x \in T : \A y \in T : x <= y
<1> DEFINE R == {ss \in Nat \X Nat : ss[1] < ss[2]}
<1>1. IsWellFoundedOn(R, Nat)
  BY NatLessThanWellFounded DEF OpToRel
<1>2. PICK x \in T : \A y \in T : <<y, x>> \notin R
  <2> HIDE DEF R
  <2> QED BY <1>1, WFMin
<1>3. ASSUME NEW y \in T PROVE x <= y
  <2>1. x \in Nat /\ y \in Nat
    OBVIOUS
  <2>2. ~(y < x)
    BY <1>2, <2>1
  <2> QED BY <2>1, <2>2
<1> QED BY <1>3

\* The greatest of a set of bounded numbers, as Resolve chooses it.
LEMMA GreatestBounded ==
  ASSUME NEW n \in Nat, NEW T, T \subseteq 0..n, T # {}
  PROVE  \E x \in T : \A y \in T : y <= x
<1> DEFINE U == {k \in Nat : n - k \in T}
<1>1. PICK t \in T : TRUE
  OBVIOUS
<1>2. n - (n - t) = t /\ n - t \in Nat
  OBVIOUS
<1>3. U # {} /\ U \subseteq Nat
  BY <1>2
<1>4. PICK x \in U : \A y \in U : x <= y
  <2> HIDE DEF U
  <2> QED BY <1>3, LeastNatural
<1>5. ASSUME NEW y \in T PROVE y <= n - x
  <2>1. y \in 0..n /\ n - y \in Nat /\ n - (n - y) = y
    OBVIOUS
  <2>2. n - y \in U
    BY <2>1
  <2>3. x <= n - y /\ x \in Nat
    BY <1>4, <2>2
  <2> QED BY <2>1, <2>3
<1> QED BY <1>4, <1>5

\* The resolved socket is a path, and there if any is.
LEMMA ResolveType ==
  ASSUME BridgeTypeOK
  PROVE  Resolve \in Paths \cup {NoPath} /\ (DOMAIN sockets # {} => Present(Resolve))
<1>1. CASE Present(override) \/ Present(Legacy) \/ DOMAIN sockets = {}
  BY <1>1, PathsAssumption DEF BridgeTypeOK, Resolve, Present, Paths
<1>2. CASE ~Present(override) /\ ~Present(Legacy) /\ DOMAIN sockets # {}
  <2>1. DOMAIN sockets \subseteq 0..MaxStarts /\ MaxStarts \in Nat
    BY <1>2, PathsAssumption DEF BridgeTypeOK, Present, Paths
  <2>2. \E path \in DOMAIN sockets : \A other \in DOMAIN sockets : other <= path
    BY <1>2, <2>1, GreatestBounded
  <2>3. Resolve = CHOOSE path \in DOMAIN sockets : \A other \in DOMAIN sockets : other <= path
    BY <1>2 DEF Resolve
  <2>4. Resolve \in DOMAIN sockets
    BY <2>2, <2>3
  <2> QED BY <2>4 DEF BridgeTypeOK, Present
<1> QED BY <1>1, <1>2

\* Nobody listens on the absence of a path.
LEMMA AliveIsPath == ASSUME BridgeTypeOK, NEW path, Alive(path) PROVE path \in Paths /\ path # NoPath
BY PathsAssumption DEF BridgeTypeOK, Alive, Present

----------------------------------------------------------------------------
(* Ends and continuations of a call                                        *)

\* How a call ends, and when it counts as one more failure.
LEMMA ReturnEnds ==
  ASSUME BridgeTypeOK, NEW reply \in Replies, Return(reply)
  PROVE  /\ call' \in Calls
         /\ call'.todo = <<>> /\ call'.via = NoClient /\ call'.handle = NoClient
         /\ call'.id = call.id /\ call'.reply = reply
         /\ streak' \in 0..2
         /\ streak' # 0 => IF Blames(reply) THEN streak' = 1 \/ streak # 0
                                           ELSE streak' = streak
<1>1. <<>> \in Seq(Steps)
  OBVIOUS
<1>2. call.id \in 0..MaxCalls /\ streak \in 0..2
  BY DEF BridgeTypeOK, Calls
<1>3. call' = [todo |-> <<>>, via |-> NoClient, handle |-> NoClient, attempt |-> 0,
               id |-> call.id, reply |-> reply]
  BY DEF Return, Idle
<1>4. /\ streak' \in 0..2
      /\ streak' # 0 => IF Blames(reply) THEN streak' = 1 \/ streak # 0
                                        ELSE streak' = streak
  BY <1>2 DEF Return
<1> QED BY <1>1, <1>2, <1>3, <1>4 DEF Calls

\* How a call goes on: only open gives a handle, and the failures in a row do
\* not change.
LEMMA ContinueGoesOn ==
  ASSUME BridgeTypeOK, CallOK, Running, Continue
  PROVE  /\ call' \in Calls
         /\ call'.todo = Tail(call.todo) /\ call'.id = call.id
         /\ call'.via \in {call.via, NoClient}
         /\ call'.handle \in {call.handle, call.via, NoClient}
         /\ call'.todo # <<>> =>
              call'.handle = IF Doing("open") THEN call.via ELSE call.handle
         /\ call'.todo = <<>> => call'.reply = "OK"
         /\ streak' \in 0..2
         /\ streak' # 0 => streak' = streak
<1>0. /\ call.todo \in Left /\ call.todo # <<>>
      /\ call \in Calls /\ streak \in 0..2
  BY DEF CallOK, Running, BridgeTypeOK
<1>1. CASE Len(call.todo) = 1
  <2>1. Return("OK") /\ "OK" \in Replies /\ ~Blames("OK")
    BY <1>1 DEF Continue, Replies, Blames
  <2>2. Tail(call.todo) = <<>>
    BY <1>0, <1>1, Rests
  <2>3. /\ call' \in Calls
        /\ call'.todo = <<>> /\ call'.via = NoClient /\ call'.handle = NoClient
        /\ call'.id = call.id /\ call'.reply = "OK"
        /\ streak' \in 0..2
        /\ streak' # 0 => streak' = streak
    BY <2>1, ReturnEnds
  <2> QED BY <2>2, <2>3
<1>2. CASE Len(call.todo) # 1
  <2>1. call' = [call EXCEPT !.todo = Tail(@), !.attempt = 0,
                   !.via = IF call.todo[2] \in Within THEN @ ELSE NoClient,
                   !.handle = IF Doing("open") THEN call.via ELSE @]
    BY <1>2 DEF Continue
  <2>2. Tail(call.todo) \in Seq(Steps) /\ Tail(call.todo) # <<>>
    BY <1>0, <1>2, Rests, LeftAreSequences
  <2>3. UNCHANGED streak
    BY <1>2 DEF Continue
  <2>4. /\ call.via \in Paths \cup {NoClient} /\ call.handle \in Paths \cup {NoClient}
        /\ call.id \in 0..MaxCalls /\ call.reply \in Replies
    BY <1>0 DEF Calls
  <2>5. /\ call'.todo = Tail(call.todo) /\ call'.id = call.id /\ call'.reply = call.reply
        /\ call'.via \in {call.via, NoClient} /\ call'.attempt = 0
        /\ call'.handle = IF Doing("open") THEN call.via ELSE call.handle
    BY <1>0, <2>1 DEF Calls
  <2>6. call' \in Calls
    <3>1. DOMAIN call' = {"todo", "via", "handle", "attempt", "id", "reply"}
      BY <1>0, <2>1 DEF Calls
    <3>2. call' = [todo |-> call'.todo, via |-> call'.via, handle |-> call'.handle,
                   attempt |-> call'.attempt, id |-> call'.id, reply |-> call'.reply]
      BY <1>0, <2>1, <3>1 DEF Calls
    <3>3. /\ call'.todo \in Seq(Steps) /\ call'.via \in Paths \cup {NoClient}
          /\ call'.handle \in Paths \cup {NoClient} /\ call'.attempt \in 0..2
          /\ call'.id \in 0..MaxCalls /\ call'.reply \in Replies
      BY <2>2, <2>4, <2>5
    <3> QED BY <3>2, <3>3 DEF Calls
  <2>7. call'.handle \in {call.handle, call.via, NoClient}
    BY <2>5
  <2>8. call'.todo # <<>>
    BY <2>2, <2>5
  <2>9. streak' \in 0..2 /\ streak' = streak
    BY <1>0, <2>3
  <2> QED BY <2>5, <2>6, <2>7, <2>8, <2>9
<1> QED BY <1>1, <1>2

----------------------------------------------------------------------------
(* Steps of the bridge                                                     *)

\* The ways in which a call goes on: it ends, it stays at its request, it goes
\* on to the next one, or its item has to be reverted.
EndsCall == call'.todo = <<>>
StaysAt == call'.todo = call.todo /\ call'.handle = call.handle
GoesOn ==
  /\ call'.todo = Tail(call.todo)
  /\ call'.todo # <<>> =>
       IF Doing("open") THEN call'.handle = call.via /\ call.via \in Paths
                        ELSE call'.handle = call.handle
ToRevert == Doing("verify") /\ call'.todo = <<"revert">> /\ call'.handle = call.handle

\* What it does with the board meanwhile.
LeavesBoard ==
  made' = made /\ (EndsCall \/ StaysAt \/ ToRevert \/ (GoesOn /\ ~Doing("create")))
PutsItem == (Doing("effect") \/ Doing("create")) /\ Made(1) /\ (EndsCall \/ GoesOn)
TakesItem == Doing("revert") /\ Made(-1) /\ EndsCall

\* Continue is the third way or, at the last request, the first one.
LEMMA ContinueWay ==
  ASSUME BridgeTypeOK, CallOK, Running, Continue, call.via # NoClient \/ Doing("probe")
  PROVE  /\ call' \in Calls /\ call'.id = call.id /\ GoesOn /\ streak' \in 0..2
         /\ EndsCall => call'.reply = "OK"
<1>1. Doing("open") => call.via \in Paths
  BY DEF BridgeTypeOK, Calls, Doing
<1> QED BY <1>1, ContinueGoesOn DEF GoesOn, EndsCall

\* Return is the first way.
LEMMA ReturnWay ==
  ASSUME BridgeTypeOK, NEW reply \in Replies, Return(reply)
  PROVE  call' \in Calls /\ call'.id = call.id /\ EndsCall /\ streak' \in 0..2
BY ReturnEnds DEF EndsCall

\* Every failure has its reply.
LEMMA MappedIsReply == \A failure \in Failures : Mapped(failure) \in Replies
BY DEF Failures, Mapped, Replies

\* A failure other than busy makes the bridge forget its client.
LEMMA SuperviseType ==
  ASSUME BridgeTypeOK, NEW failure, Supervise(failure)
  PROVE  client' \in Paths \cup {NoClient} /\ (failure # "busy" => client' = NoClient)
BY DEF BridgeTypeOK, Supervise

\* The client that a method asks, and the others of the bridge, have their type.
LEMMA BridgeStepTypes ==
  ASSUME BridgeTypeOK, CallOK, BridgeStep
  PROVE  /\ UNCHANGED <<kicad, calls>> /\ Running
         /\ socketPath' \in Paths \cup {NoPath}
         /\ client' \in Paths \cup {NoClient}
         /\ token' \in Tokens
<1>0. /\ socketPath \in Paths \cup {NoPath} /\ client \in Paths \cup {NoClient}
      /\ token \in Tokens /\ env \in Tokens /\ Resolve \in Paths \cup {NoPath}
  BY ResolveType DEF BridgeTypeOK
<1> USE DEF bridge, Doing, Requesting
<1>1. CASE Probe
  BY <1>0, <1>1 DEF Probe
<1>2. CASE DetectRestart \/ EnterBoardMethod \/ NoClientToEnsure
  BY <1>0, <1>2 DEF DetectRestart, EnterBoardMethod, NoClientToEnsure
<1>3. CASE EnsureClient
  <2>1. client' \in Paths \cup {NoClient}
    BY <1>0, <1>3 DEF EnsureClient, KeptClient, NoClient
  <2> QED BY <1>0, <1>3, <2>1 DEF EnsureClient
<1>4. CASE Read \/ NotFound \/ Retry \/ Mutate \/ CreatedNothing \/ VerifySame \/ VerifyOther
           \/ Revert
  BY <1>0, <1>4 DEF Read, NotFound, Retry, Mutate, CreatedNothing, VerifySame, VerifyOther, Revert
<1>5. CASE NoEditor \/ Fail \/ MutateUnheard \/ RevertUnheard
  BY <1>0, <1>5, SuperviseType DEF NoEditor, Fail, MutateUnheard, RevertUnheard
<1> QED BY <1>1, <1>2, <1>3, <1>4, <1>5 DEF BridgeStep

\* Every step of the bridge is one of the four ways, and one of the three with
\* the board.
LEMMA BridgeStepWays ==
  ASSUME BridgeTypeOK, CallOK, BridgeStep
  PROVE  /\ call' \in Calls /\ call'.id = call.id /\ streak' \in 0..2
         /\ LeavesBoard \/ PutsItem \/ TakesItem
<1>0. /\ call \in Calls /\ call.todo \in Left /\ streak \in 0..2
      /\ call.via \in Paths \cup {NoClient} /\ call.handle \in Paths \cup {NoClient}
      /\ call.attempt \in 0..2
  BY DEF BridgeTypeOK, CallOK, Calls
<1>1. CASE Probe
  <2>1. CASE Continue
    BY <1>1, <2>1, ContinueWay DEF Probe, Doing, LeavesBoard
  <2>2. CASE Return("KICAD_NOT_RUNNING")
    BY <1>1, <2>2, ReturnWay DEF Probe, Replies, LeavesBoard
  <2> QED BY <1>1, <2>1, <2>2 DEF Probe
<1>2. CASE DetectRestart \/ NoClientToEnsure \/ NotFound
  BY <1>2, ReturnWay DEF DetectRestart, NoClientToEnsure, NotFound, Replies, LeavesBoard
<1>3. CASE EnterBoardMethod \/ EnsureClient
  <2>1. PICK path \in Paths \cup {NoClient} : call' = [call EXCEPT !.via = path]
    BY <1>0, <1>3, BridgeStepTypes DEF EnterBoardMethod, EnsureClient, BridgeStep
  <2>2. call' \in Calls /\ call'.id = call.id /\ StaysAt
    BY <1>0, <2>1 DEF Calls, StaysAt
  <2> QED BY <1>0, <1>3, <2>2 DEF EnterBoardMethod, EnsureClient, LeavesBoard
<1>4. CASE Read \/ NoEditor \/ VerifySame
  <2>1. Running /\ call.via # NoClient /\ Continue /\ made' = made
    BY <1>4 DEF Read, NoEditor, VerifySame, Requesting
  <2>2. ~Doing("create")
    BY <1>4 DEF Read, NoEditor, VerifySame, Requesting, Doing, Idempotent, ClientReads
  <2> QED BY <2>1, <2>2, ContinueWay DEF LeavesBoard
<1>5. CASE Retry
  <2>1. call.attempt < 2 /\ call' = [call EXCEPT !.attempt = @ + 1] /\ UNCHANGED <<made, streak>>
    BY <1>5 DEF Retry, Retries
  <2>2. call' \in Calls /\ call'.id = call.id /\ StaysAt
    BY <1>0, <2>1 DEF Calls, StaysAt
  <2> QED BY <1>0, <2>1, <2>2 DEF LeavesBoard
<1>6. CASE Fail
  <2>1. PICK failure \in Failures : Return(Mapped(failure))
    BY <1>6 DEF Fail
  <2> QED BY <1>6, <2>1, MappedIsReply, ReturnWay DEF Fail, LeavesBoard
<1>7. CASE Mutate
  <2>1. Running /\ call.via # NoClient /\ Continue /\ Made(1)
    BY <1>7 DEF Mutate, Requesting
  <2>2. Doing("effect") \/ Doing("create")
    BY <1>7 DEF Mutate, Requesting, Doing
  <2> QED BY <2>1, <2>2, ContinueWay DEF PutsItem
<1>8. CASE MutateUnheard
  <2>1. PICK failure \in Failures : Return(Mapped(failure))
    BY <1>8 DEF MutateUnheard
  <2>2. Doing("effect") \/ Doing("create")
    BY <1>8 DEF MutateUnheard, Requesting, Doing
  <2> QED BY <1>8, <2>1, <2>2, MappedIsReply, ReturnWay DEF MutateUnheard, PutsItem
<1>9. CASE CreatedNothing
  BY <1>9, ReturnWay DEF CreatedNothing, Replies, LeavesBoard
<1>10. CASE VerifyOther
  <2>1. Doing("verify") /\ call' = [call EXCEPT !.todo = <<"revert">>] /\ UNCHANGED <<made, streak>>
    BY <1>10 DEF VerifyOther, Requesting, Doing
  <2>2. <<"revert">> \in Seq(Steps)
    BY LeftAreSequences DEF Left
  <2>3. call' \in Calls /\ call'.id = call.id /\ ToRevert
    BY <1>0, <2>1, <2>2 DEF Calls, ToRevert
  <2> QED BY <1>0, <2>1, <2>3 DEF LeavesBoard
<1>11. CASE Revert
  BY <1>11, ReturnWay DEF Revert, Requesting, Doing, Replies, TakesItem
<1>12. CASE RevertUnheard
  <2>1. PICK failure \in Failures : Return(Mapped(failure))
    BY <1>12 DEF RevertUnheard
  <2>2. Doing("revert")
    BY <1>12 DEF RevertUnheard, Requesting, Doing
  <2> QED BY <1>12, <2>1, <2>2, MappedIsReply, ReturnWay DEF RevertUnheard, TakesItem
<1> QED BY <1>1, <1>2, <1>3, <1>4, <1>5, <1>6, <1>7, <1>8, <1>9, <1>10, <1>11, <1>12
        DEF BridgeStep

----------------------------------------------------------------------------
(* The inductive invariant                                                 *)

\* A call begins with a probe or with the opening of the board.
LEMMA BeginCall ==
  ASSUME BridgeTypeOK, CallOK, Begin
  PROVE  /\ call' \in Calls /\ calls' \in 1..MaxCalls /\ calls' = calls + 1
         /\ call'.id = calls' /\ call'.via = NoClient /\ call'.handle = NoClient
         /\ call'.todo \in Left /\ call'.todo # <<>>
         /\ Head(call'.todo) \in {"probe", "open"}
         /\ UNCHANGED <<kicad, bridge, made, streak>> /\ ~Running
<1>1. PICK tool \in Tools : call' = [Idle("none") EXCEPT !.todo = Program[tool], !.id = calls + 1]
  BY DEF Begin
<1>2. Program[tool] \in {Health, ReadBoard, EditBoard, AddCopper}
  BY ToolsAssumption DEF Program
<1>3. Program[tool] \in Left
  BY <1>2 DEF Left
<1>4. Program[tool] # <<>> /\ Head(Program[tool]) \in {"probe", "open"}
  BY <1>2 DEF Health, ReadBoard, EditBoard, AddCopper
<1>5. calls + 1 \in 1..MaxCalls /\ calls' = calls + 1
  BY MaxCallsAssumption DEF Begin, BridgeTypeOK
<1>6. call' = [todo |-> Program[tool], via |-> NoClient, handle |-> NoClient, attempt |-> 0,
               id |-> calls + 1, reply |-> "none"]
  BY <1>1 DEF Idle
<1>7. call' \in Calls
  BY <1>3, <1>5, <1>6, LeftAreSequences, MaxCallsAssumption DEF Calls, Replies
<1> QED BY <1>3, <1>4, <1>5, <1>6, <1>7 DEF Begin

\* What KiCad does leaves the bridge alone and forgives it its failures.
LEMMA WorldStepTypes ==
  ASSUME BridgeTypeOK, WorldStep
  PROVE  /\ DOMAIN sockets' \subseteq Paths
         /\ \A path \in DOMAIN sockets' : sockets'[path] \in 0..MaxStarts
         /\ starts' \in 0..MaxStarts /\ env' \in Tokens /\ override' \in Overrides
         /\ UNCHANGED <<bridge, call, calls, made>> /\ streak' = 0
<1>1. CASE Start
  <2>1. PICK path \in {starts + 1, Legacy} :
          sockets' = [p \in DOMAIN sockets \cup {path} |->
                        IF p = path THEN starts + 1 ELSE sockets[p]]
    BY <1>1 DEF Start
  <2>2. starts + 1 \in 1..MaxStarts /\ path \in Paths
    BY <1>1, PathsAssumption DEF Start, BridgeTypeOK, Paths
  <2>3. /\ DOMAIN sockets' \subseteq Paths
        /\ \A p \in DOMAIN sockets' : sockets'[p] \in 0..MaxStarts
    BY <2>1, <2>2, PathsAssumption DEF BridgeTypeOK
  <2> QED BY <1>1, <2>2, <2>3, PathsAssumption DEF Start, Disturb, BridgeTypeOK
<1>2. CASE Exit
  BY <1>2, PathsAssumption DEF Exit, Disturb, BridgeTypeOK
<1>3. CASE Crash
  <2>1. PICK path \in DOMAIN sockets : sockets' = [sockets EXCEPT ![path] = 0]
    BY <1>3 DEF Crash
  <2>2. /\ DOMAIN sockets' = DOMAIN sockets
        /\ \A p \in DOMAIN sockets' : sockets'[p] = sockets[p] \/ sockets'[p] = 0
    BY <2>1
  <2>3. 0 \in 0..MaxStarts
    BY PathsAssumption
  <2> QED BY <1>3, <2>2, <2>3 DEF Crash, Disturb, BridgeTypeOK
<1>4. CASE ChangeEnviron
  BY <1>4 DEF ChangeEnviron, Disturb, BridgeTypeOK
<1> QED BY <1>1, <1>2, <1>3, <1>4 DEF WorldStep

\* The types are kept by every step.
LEMMA StepType == BridgeTypeOK /\ CallOK /\ [Next]_vars => BridgeTypeOK'
<1> SUFFICES ASSUME BridgeTypeOK, CallOK, [Next]_vars PROVE BridgeTypeOK'
  OBVIOUS
<1>1. CASE Begin
  <2>1. calls' \in 0..MaxCalls
    BY <1>1, BeginCall, MaxCallsAssumption
  <2> QED BY <1>1, <2>1, BeginCall DEF BridgeTypeOK, kicad, bridge
<1>2. CASE BridgeStep
  <2>1. made' \in [1..MaxCalls -> Int]
    BY <1>2, BridgeStepWays DEF LeavesBoard, PutsItem, TakesItem, Made, BridgeTypeOK
  <2> QED BY <1>2, <2>1, BridgeStepTypes, BridgeStepWays DEF BridgeTypeOK, kicad
<1>3. CASE WorldStep
  <2>1. streak' \in 0..2
    BY <1>3, WorldStepTypes
  <2> QED BY <1>3, <2>1, WorldStepTypes DEF BridgeTypeOK, bridge
<1>4. CASE UNCHANGED vars
  BY <1>4 DEF vars, kicad, bridge, BridgeTypeOK
<1> QED BY <1>1, <1>2, <1>3, <1>4 DEF Next

\* A call stays at an end of its program, with a handle where it needs one.
LEMMA StepCall == BridgeTypeOK /\ CallOK /\ [Next]_vars => CallOK'
<1> SUFFICES ASSUME BridgeTypeOK, CallOK, [Next]_vars PROVE CallOK'
  OBVIOUS
<1>1. CASE Begin
  <2>1. "probe" \notin {"open"} /\ "open" \in ClientReads
    BY DEF ClientReads
  <2>2. calls' # 0
    BY <1>1, BeginCall, MaxCallsAssumption
  <2> QED BY <1>1, <2>1, <2>2, BeginCall DEF CallOK, Running
<1>2. CASE BridgeStep
  <2>0. /\ call.todo \in Left /\ call.todo # <<>> /\ UNCHANGED calls /\ call'.id = call.id
        /\ calls # 0
    BY <1>2, BridgeStepTypes, BridgeStepWays DEF CallOK, Running
  <2>1. EndsCall \/ StaysAt \/ ToRevert \/ GoesOn
    BY <1>2, BridgeStepWays DEF LeavesBoard, PutsItem, TakesItem
  <2>2. CASE EndsCall
    BY <2>0, <2>2 DEF EndsCall, CallOK, Running, Left
  <2>3. CASE StaysAt
    BY <2>0, <2>3 DEF StaysAt, CallOK, Running
  <2>4. CASE ToRevert
    <3>1. call'.todo \in Left /\ call'.todo # <<>>
      BY <2>4 DEF ToRevert, Left
    <3>2. call'.handle \in Paths
      BY <2>0, <2>4 DEF ToRevert, Doing, CallOK, Running, ClientReads
    <3> QED BY <2>0, <3>1, <3>2 DEF CallOK, Running
  <2>5. CASE GoesOn /\ call'.todo # <<>>
    <3>1. call'.todo \in Left /\ call'.todo = Tail(call.todo)
      BY <2>0, <2>5, Rests DEF GoesOn
    <3>2. CASE Head(call'.todo) \in ClientReads
      BY <2>0, <3>1, <3>2 DEF CallOK, Running
    <3>3. CASE Doing("open")
      BY <2>0, <2>5, <3>1, <3>3 DEF GoesOn, CallOK, Running
    <3>4. CASE ~Doing("open") /\ Head(call'.todo) \notin ClientReads
      <4>1. Head(call.todo) \notin ClientReads \cup {"probe"}
        BY <2>0, <2>5, <3>1, <3>4, Rests DEF Doing, Running, ClientReads
      <4>2. call'.handle = call.handle /\ call.handle \in Paths
        BY <2>0, <2>5, <3>4, <4>1 DEF GoesOn, CallOK, Running
      <4> QED BY <2>0, <3>1, <4>2 DEF CallOK, Running
    <3> QED BY <3>2, <3>3, <3>4
  <2> QED BY <2>1, <2>2, <2>3, <2>4, <2>5 DEF EndsCall
<1>3. CASE WorldStep \/ UNCHANGED vars
  BY <1>3, WorldStepTypes DEF CallOK, Running, vars
<1> QED BY <1>1, <1>2, <1>3 DEF Next

\* A call has an item on the board between its create and its end.
LEMMA StepBoard == BridgeTypeOK /\ CallOK /\ BoardOK /\ [Next]_vars => BoardOK'
<1> SUFFICES ASSUME BridgeTypeOK, CallOK, BoardOK, [Next]_vars PROVE BoardOK'
  OBVIOUS
<1>0. calls \in 0..MaxCalls /\ MaxCalls \in Nat /\ made \in [1..MaxCalls -> Int]
  BY MaxCallsAssumption DEF BridgeTypeOK
<1>1. CASE Begin
  <2>1. Head(call'.todo) \notin {"verify", "revert"} /\ UNCHANGED made
    BY <1>1, BeginCall
  <2>2. calls' \in 1..MaxCalls /\ calls' = calls + 1
    BY <1>1, BeginCall
  <2>3. made[calls'] = 0
    BY <1>0, <2>2 DEF BoardOK
  <2> QED BY <1>0, <2>1, <2>2, <2>3 DEF BoardOK
<1>2. CASE BridgeStep
  <2>0. /\ call.todo \in Left /\ call.todo # <<>> /\ UNCHANGED calls /\ call.id = calls
        /\ calls \in 1..MaxCalls
    BY <1>0, <1>2, BridgeStepTypes DEF CallOK, Running
  <2>1. made[calls] = IF Head(call.todo) \in {"verify", "revert"} THEN 1 ELSE 0
    BY <2>0 DEF BoardOK, Running
  <2>2. CASE LeavesBoard
    <3>1. CASE EndsCall
      BY <2>0, <2>2, <3>1 DEF EndsCall, LeavesBoard, BoardOK, Running
    <3>2. CASE StaysAt
      BY <2>0, <2>1, <2>2, <3>2 DEF StaysAt, LeavesBoard, BoardOK, Running
    <3>3. CASE ToRevert
      <4>1. Head(call'.todo) = "revert" /\ made[calls] = 1
        BY <2>1, <3>3 DEF ToRevert, Doing
      <4> QED BY <2>0, <2>2, <4>1 DEF LeavesBoard, BoardOK
    <3>4. CASE GoesOn /\ ~Doing("create") /\ ~EndsCall
      <4>1. Head(call'.todo) \notin {"verify", "revert"} /\ Head(call.todo) \notin {"verify", "revert"}
        BY <2>0, <3>4, Rests DEF GoesOn, EndsCall, Doing, Running
      <4> QED BY <2>0, <2>1, <2>2, <4>1 DEF LeavesBoard, BoardOK
    <3> QED BY <2>2, <3>1, <3>2, <3>3, <3>4 DEF LeavesBoard
  <2>3. CASE PutsItem
    <3>1. made[calls] = 0 /\ made' = [made EXCEPT ![calls] = made[calls] + 1]
      BY <2>0, <2>1, <2>3 DEF PutsItem, Doing, Made
    <3>2. call'.todo # <<>> => Head(call'.todo) = "verify"
      BY <2>0, <2>3, Rests DEF PutsItem, GoesOn, EndsCall, Doing, Running
    <3>3. \A i \in 1..MaxCalls : made'[i] \in {0, 1} /\ (i > calls' => made'[i] = 0)
      BY <1>0, <2>0, <3>1 DEF BoardOK
    <3>4. made'[calls'] = 1
      BY <1>0, <2>0, <3>1
    <3> QED BY <3>2, <3>3, <3>4 DEF BoardOK, Running
  <2>4. CASE TakesItem
    <3>1. /\ made[calls] = 1 /\ made' = [made EXCEPT ![calls] = made[calls] + (-1)]
          /\ call'.todo = <<>>
      BY <2>0, <2>1, <2>4 DEF TakesItem, EndsCall, Doing, Made
    <3>2. \A i \in 1..MaxCalls : made'[i] \in {0, 1} /\ (i > calls' => made'[i] = 0)
      BY <1>0, <2>0, <3>1 DEF BoardOK
    <3> QED BY <3>1, <3>2 DEF BoardOK, Running
  <2> QED BY <1>2, <2>2, <2>3, <2>4, BridgeStepWays
<1>3. CASE WorldStep \/ UNCHANGED vars
  BY <1>3, WorldStepTypes DEF BoardOK, Running, vars
<1> QED BY <1>1, <1>2, <1>3 DEF Next

\* A failure that blames the bridge is one of a method whose client is dead.
LEMMA BlamesAreFailures ==
  ASSUME BridgeTypeOK, NEW reply \in Replies, Blames(reply)
  PROVE  ~Alive(call.via) /\ Alive(Resolve) /\ reply \in {"KICAD_TIMEOUT", "KICAD_NOT_RUNNING"}
BY DEF Blames

\* The calls that count against the bridge leave it without a client.
LEMMA StepStreak ==
  ASSUME BridgeTypeOK, CallOK, Recovered, BridgeStep, streak' # 0
  PROVE  /\ streak' = 1 /\ Alive(Resolve)
         /\ \/ streak # 0
            \/ EndsCall /\ client' = NoClient /\ call'.via = NoClient /\ call'.handle = NoClient
<1>0. UNCHANGED kicad /\ Running /\ call \in Calls
  BY BridgeStepTypes DEF BridgeTypeOK
<1>1. ASSUME NEW reply \in Replies, Return(reply), Blames(reply) => streak = 0 /\ client' = NoClient
      PROVE  /\ streak' = 1 /\ Alive(Resolve)
             /\ \/ streak # 0
                \/ EndsCall /\ client' = NoClient /\ call'.via = NoClient /\ call'.handle = NoClient
  BY <1>1, ReturnEnds DEF EndsCall, Blames, Recovered
<1>2. ASSUME Continue PROVE streak' = streak
  BY <1>0, <1>2, ContinueGoesOn
<1>3. ASSUME streak' = streak
      PROVE  streak' = 1 /\ Alive(Resolve) /\ streak # 0
  BY <1>3 DEF Recovered
<1>4. ASSUME NEW failure \in Failures, Supervise(failure), Return(Mapped(failure)),
             call.via # NoClient
      PROVE  Blames(Mapped(failure)) => streak = 0 /\ client' = NoClient
  <2>1. Mapped(failure) \in {"KICAD_TIMEOUT", "KICAD_NOT_RUNNING"} => failure # "busy"
    BY DEF Mapped
  <2> QED BY <1>4, <2>1, SuperviseType DEF Blames, Recovered, NoneOrAlive
<1>5. CASE Probe
  <2>1. Return("KICAD_NOT_RUNNING") => ~Blames("KICAD_NOT_RUNNING") \/ Present(Resolve)
    BY DEF Blames, Alive
  <2>2. CASE Return("KICAD_NOT_RUNNING") /\ ~Present(Resolve)
    BY <1>1, <2>1, <2>2 DEF Replies
  <2> QED BY <1>2, <1>3, <1>5, <2>2 DEF Probe
<1>6. CASE DetectRestart
  BY <1>1, <1>6 DEF DetectRestart, Blames, Replies
<1>7. CASE NoClientToEnsure
  BY <1>1, <1>7 DEF NoClientToEnsure, Blames, Replies
<1>8. CASE NotFound \/ CreatedNothing \/ Revert
  BY <1>1, <1>8 DEF NotFound, CreatedNothing, Revert, Blames, Replies
<1>9. CASE EnterBoardMethod \/ EnsureClient \/ Retry \/ VerifyOther
  BY <1>3, <1>9 DEF EnterBoardMethod, EnsureClient, Retry, VerifyOther
<1>10. CASE Read \/ NoEditor \/ Mutate \/ VerifySame
  BY <1>2, <1>3, <1>10 DEF Read, NoEditor, Mutate, VerifySame
<1>11. CASE Fail \/ MutateUnheard \/ RevertUnheard
  <2>1. call.via # NoClient
    BY <1>11 DEF Fail, MutateUnheard, RevertUnheard, Requesting
  <2>2. PICK failure \in Failures : Supervise(failure) /\ Return(Mapped(failure))
    BY <1>11 DEF Fail, MutateUnheard, RevertUnheard
  <2> QED BY <1>1, <1>4, <2>1, <2>2, MappedIsReply
<1> QED BY <1>5, <1>6, <1>7, <1>8, <1>9, <1>10, <1>11 DEF BridgeStep

\* What it remembers once it has recovered is a listener, or nothing.
LEMMA StepMemory ==
  ASSUME BridgeTypeOK, CallOK, BridgeStep,
         Alive(Resolve), NoneOrAlive(client), NoneOrAlive(call.via), NoneOrAlive(call.handle)
  PROVE  NoneOrAlive(client') /\ NoneOrAlive(call'.via) /\ NoneOrAlive(call'.handle)
<1>0. call \in Calls /\ Running
  BY BridgeStepTypes DEF BridgeTypeOK
<1>1. ASSUME NEW reply \in Replies, Return(reply)
      PROVE  NoneOrAlive(call'.via) /\ NoneOrAlive(call'.handle)
  BY <1>1, ReturnEnds DEF NoneOrAlive
<1>2. ASSUME Continue PROVE NoneOrAlive(call'.via) /\ NoneOrAlive(call'.handle)
  <2>1. call'.via \in {call.via, NoClient} /\ call'.handle \in {call.handle, call.via, NoClient}
    BY <1>0, <1>2, ContinueGoesOn
  <2> QED BY <2>1 DEF NoneOrAlive
<1>3. ASSUME NEW failure, Supervise(failure) PROVE NoneOrAlive(client')
  BY <1>3 DEF Supervise, NoneOrAlive
<1>4. CASE Probe
  BY <1>1, <1>2, <1>4 DEF Probe, Replies
<1>5. CASE DetectRestart \/ NoClientToEnsure
  BY <1>1, <1>5 DEF DetectRestart, NoClientToEnsure, Replies, NoneOrAlive
<1>6. CASE EnterBoardMethod
  <2>1. call'.via = call.handle /\ call'.handle = call.handle /\ UNCHANGED client
    BY <1>0, <1>6 DEF EnterBoardMethod, Calls
  <2> QED BY <2>1
<1>7. CASE EnsureClient
  <2>1. NoneOrAlive(client')
    BY <1>7 DEF EnsureClient, KeptClient, NoneOrAlive
  <2>2. call'.via = client' /\ call'.handle = call.handle
    BY <1>0, <1>7 DEF EnsureClient, Calls
  <2> QED BY <2>1, <2>2
<1>8. CASE NotFound \/ CreatedNothing \/ Revert
  BY <1>1, <1>8 DEF NotFound, CreatedNothing, Revert, Replies, bridge
<1>9. CASE Retry \/ VerifyOther
  <2>1. call'.via = call.via /\ call'.handle = call.handle /\ UNCHANGED client
    BY <1>0, <1>9 DEF Retry, VerifyOther, Calls, bridge
  <2> QED BY <2>1
<1>10. CASE Read \/ Mutate \/ VerifySame
  BY <1>2, <1>10 DEF Read, Mutate, VerifySame, bridge
<1>11. CASE NoEditor
  BY <1>2, <1>3, <1>11 DEF NoEditor
<1>12. CASE Fail \/ MutateUnheard \/ RevertUnheard
  <2>1. PICK failure \in Failures : Supervise(failure) /\ Return(Mapped(failure))
    BY <1>12 DEF Fail, MutateUnheard, RevertUnheard
  <2> QED BY <1>1, <1>3, <2>1, MappedIsReply
<1> QED BY <1>4, <1>5, <1>6, <1>7, <1>8, <1>9, <1>10, <1>11, <1>12 DEF BridgeStep

\* The first failure for want of a listener leaves nothing to fail for again.
LEMMA StepRecovered == BridgeTypeOK /\ CallOK /\ Recovered /\ [Next]_vars => Recovered'
<1> SUFFICES ASSUME BridgeTypeOK, CallOK, Recovered, [Next]_vars, streak' # 0
             PROVE  /\ streak' = 1
                    /\ Alive(Resolve)'
                    /\ NoneOrAlive(client)' /\ NoneOrAlive(call.via)' /\ NoneOrAlive(call.handle)'
  BY DEF Recovered
<1>1. ASSUME UNCHANGED kicad
      PROVE  /\ Alive(Resolve)' <=> Alive(Resolve)
             /\ NoneOrAlive(client)' <=> NoneOrAlive(client')
             /\ NoneOrAlive(call.via)' <=> NoneOrAlive(call'.via)
             /\ NoneOrAlive(call.handle)' <=> NoneOrAlive(call'.handle)
  BY <1>1 DEF kicad, NoneOrAlive, Alive, Present, Resolve
<1>2. CASE Begin
  BY <1>1, <1>2, BeginCall DEF Recovered, NoneOrAlive, bridge
<1>3. CASE BridgeStep
  <2>1. UNCHANGED kicad /\ streak' = 1 /\ Alive(Resolve)
    BY <1>3, BridgeStepTypes, StepStreak
  <2>2. CASE streak # 0
    BY <1>1, <1>3, <2>1, <2>2, StepMemory DEF Recovered
  <2>3. CASE client' = NoClient /\ call'.via = NoClient /\ call'.handle = NoClient
    BY <1>1, <2>1, <2>3 DEF NoneOrAlive
  <2> QED BY <1>3, <2>2, <2>3, StepStreak
<1>4. CASE WorldStep
  BY <1>4, WorldStepTypes
<1>5. CASE UNCHANGED vars
  BY <1>1, <1>5 DEF vars, bridge, Recovered
<1> QED BY <1>2, <1>3, <1>4, <1>5 DEF Next

\* No call has been made and nothing is remembered.
LEMMA InitBridge == Init => BridgeInv
<1> SUFFICES ASSUME Init PROVE BridgeInv
  OBVIOUS
<1>1. <<>> \in Seq(Steps) /\ <<>> \in Left
  BY DEF Left
<1>2. call \in Calls
  BY <1>1, MaxCallsAssumption DEF Init, Calls, Replies
<1>3. BridgeTypeOK
  BY <1>2, PathsAssumption, MaxCallsAssumption DEF Init, BridgeTypeOK, Tokens, NoToken, NoClient
<1>4. CallOK
  BY <1>1 DEF Init, CallOK, Running
<1>5. BoardOK
  BY MaxCallsAssumption DEF Init, BoardOK, Running
<1>6. Recovered
  BY DEF Init, Recovered
<1> QED BY <1>3, <1>4, <1>5, <1>6 DEF BridgeInv

\* At every step of a call the bridge stands where its reply, its attempts and
\* its items say, and what it remembers of KiCad is stale in at most one way.
THEOREM BridgeInvariant == Spec => []BridgeInv
<1>1. BridgeInv /\ [Next]_vars => BridgeInv'
  BY StepType, StepCall, StepBoard, StepRecovered DEF BridgeInv
<1> QED BY InitBridge, <1>1, PTL DEF Spec

\* Every variable of the bridge keeps its type; the path it resolves is always
\* a path, also where the source takes the newest of the sockets.
THEOREM BridgeTypeCorrect == Spec => []BridgeTypeOK
BY BridgeInvariant, PTL DEF BridgeInv

\* D-07.1: a call puts at most one item on the board, whatever fails and
\* whatever _run_supervised_read tries again.
THEOREM OneMutation == Spec => []MutationOnce
<1>1. BridgeInv => MutationOnce
  BY DEF BridgeInv, BoardOK, MutationOnce
<1> QED BY <1>1, BridgeInvariant, PTL

\* R11: what the bridge remembers of an earlier instance of KiCad costs at most
\* one call in a row.
THEOREM OneFailure == Spec => []RecoversAfterOne
<1>1. BridgeInv => RecoversAfterOne
  BY DEF BridgeInv, Recovered, RecoversAfterOne
<1> QED BY <1>1, BridgeInvariant, PTL

\* add_track, add_via and the other mutating methods: the reply of a call tells
\* whether its item is on the board.
THEOREM RepliesTellBoard == Spec => ReplyTellsBoard
<1> DEFINE Tells == made'[call.id] = IF call'.reply = "OK" THEN 1 ELSE 0
<1>1. ASSUME BridgeInv, Mutate \/ VerifySame \/ Revert, call'.todo = <<>> PROVE Tells
  <2>0. /\ BridgeTypeOK /\ CallOK /\ BridgeStep
        /\ call.todo \in Left /\ call.todo # <<>> /\ call.id = calls
    BY <1>1 DEF BridgeInv, BridgeStep, CallOK, Mutate, VerifySame, Revert, Requesting, Running
  <2>1. /\ made \in [1..MaxCalls -> Int] /\ calls \in 1..MaxCalls
        /\ made[calls] = IF Head(call.todo) \in {"verify", "revert"} THEN 1 ELSE 0
    BY <1>1, <2>0, MaxCallsAssumption DEF BridgeInv, BridgeTypeOK, CallOK, BoardOK, Running
  <2>2. CASE Mutate
    <3>1. Continue /\ Made(1) /\ Head(call.todo) \in {"effect", "create"} /\ Running
      BY <2>2 DEF Mutate, Requesting
    <3>2. call'.reply = "OK"
      BY <1>1, <2>0, <3>1, ContinueGoesOn
    <3> QED BY <2>0, <2>1, <3>1, <3>2 DEF Made
  <2>3. CASE VerifySame
    <3>1. Continue /\ Head(call.todo) = "verify" /\ UNCHANGED made /\ Running
      BY <2>3 DEF VerifySame, Requesting
    <3>2. call'.reply = "OK"
      BY <1>1, <2>0, <3>1, ContinueGoesOn
    <3> QED BY <2>0, <2>1, <3>1, <3>2
  <2>4. CASE Revert
    <3>1. Return("NET_ASSIGNMENT_MISMATCH") /\ Made(-1) /\ Head(call.todo) = "revert"
      BY <2>4 DEF Revert, Requesting
    <3>2. call'.reply = "NET_ASSIGNMENT_MISMATCH"
      BY <2>0, <3>1, ReturnEnds DEF Replies
    <3> QED BY <2>0, <2>1, <3>1, <3>2 DEF Made
  <2> QED BY <1>1, <2>2, <2>3, <2>4
<1>2. BridgeInv => [(Mutate \/ VerifySame \/ Revert) /\ call'.todo = <<>> => Tells]_vars
  BY <1>1
<1> QED BY <1>2, BridgeInvariant, PTL DEF ReplyTellsBoard

----------------------------------------------------------------------------
(* Calls are short                                                         *)

\* What a call may still take of the bridge: at each request that is left an
\* entry, two retries and the request, and once a revert.
StepsLeft ==
  IF Running
    THEN 4 * Len(call.todo) + (2 - call.attempt)
           + (IF call.via = NoClient THEN 1 ELSE 0) + (IF Doing("revert") THEN 0 ELSE 1)
    ELSE 0

\* No program is longer than the one of add_track.
LEMMA LeftAreShort ==
  ASSUME NEW todo \in Left
  PROVE  Len(todo) \in 0..5 /\ (todo # <<>> => Len(todo) # 0 /\ Len(Tail(todo)) = Len(todo) - 1)
<1> USE DEF Left, Health, ReadBoard, EditBoard, AddCopper
<1>1. Len(todo) \in 0..5
  OBVIOUS
<1>2. todo # <<>> => Len(todo) # 0 /\ Len(Tail(todo)) = Len(todo) - 1
  <2>1. todo \in Seq(Steps)
    BY LeftAreSequences
  <2> HIDE DEF Left
  <2> QED BY <2>1
<1> QED BY <1>1, <1>2

\* A running call has at least its request to make, and at most 24 steps.
LEMMA StepsLeftBounded ==
  ASSUME BridgeTypeOK, CallOK
  PROVE  StepsLeft \in 0..24 /\ (Running => StepsLeft >= 4)
<1>1. Len(call.todo) \in 0..5 /\ (Running => Len(call.todo) # 0)
  BY LeftAreShort DEF CallOK, Running
<1>2. call.attempt \in 0..2
  BY DEF BridgeTypeOK, Calls
<1> DEFINE entry == IF call.via = NoClient THEN 1 ELSE 0
           revert == IF Doing("revert") THEN 0 ELSE 1
<1>3. entry \in 0..1 /\ revert \in 0..1
  OBVIOUS
<1>4. StepsLeft = IF Running THEN 4 * Len(call.todo) + (2 - call.attempt) + entry + revert ELSE 0
  BY DEF StepsLeft
<1> HIDE DEF entry, revert
<1>5. CASE Running
  <2> DEFINE n == Len(call.todo)
  <2>1. n \in 1..5 /\ StepsLeft = 4 * n + (2 - call.attempt) + entry + revert
    BY <1>1, <1>4, <1>5
  <2> HIDE DEF n
  <2> QED BY <1>2, <1>3, <2>1
<1>6. CASE ~Running
  BY <1>4, <1>6
<1> QED BY <1>5, <1>6

\* A call that ends has nothing left.
LEMMA ReturnShortens ==
  ASSUME BridgeTypeOK, CallOK, Running, NEW reply \in Replies, Return(reply)
  PROVE  StepsLeft' < StepsLeft
<1>1. StepsLeft' = 0
  BY ReturnEnds DEF StepsLeft, Running
<1>2. StepsLeft \in Nat /\ StepsLeft >= 4
  BY StepsLeftBounded
<1> QED BY <1>1, <1>2

\* The next request brings its own entry and retries, which the four that the
\* last one counted for make up.
LEMMA ContinueShortens ==
  ASSUME BridgeTypeOK, CallOK, Running, Continue
  PROVE  StepsLeft' < StepsLeft
<1>0. /\ call.todo \in Left /\ call.todo # <<>>
      /\ call \in Calls /\ call.attempt \in 0..2
  BY DEF CallOK, Running, BridgeTypeOK, Calls
<1>1. CASE Len(call.todo) = 1
  BY <1>1, ReturnShortens DEF Continue, Replies
<1>2. CASE Len(call.todo) # 1
  <2>1. call'.todo = Tail(call.todo) /\ call'.attempt = 0
    BY <1>0, <1>2 DEF Continue, Calls
  <2>2. Tail(call.todo) # <<>> /\ Head(call.todo) # "revert"
    BY <1>0, <1>2, Rests
  <2>3. Len(call.todo) \in Nat /\ Len(Tail(call.todo)) = Len(call.todo) - 1
    BY <1>0, LeftAreShort
  <2> DEFINE entry == IF call'.via = NoClient THEN 1 ELSE 0
             revert == IF Doing("revert")' THEN 0 ELSE 1
             n == Len(call.todo)
  <2>4. entry \in 0..1 /\ revert \in 0..1
    OBVIOUS
  <2>6. Running' /\ StepsLeft' = 4 * Len(call'.todo) + (2 - call'.attempt) + entry + revert
    BY <2>1, <2>2 DEF StepsLeft, Running
  <2> HIDE DEF entry, revert
  <2>7. StepsLeft' = 4 * (n - 1) + 2 + entry + revert
    BY <2>1, <2>3, <2>6
  <2>8. n \in Nat
    BY <2>3
  <2>5. StepsLeft >= 4 * Len(call.todo) + 1
    BY <1>0, <2>2, <2>3 DEF StepsLeft, Running, Doing
  <2>9. StepsLeft \in Nat
    BY StepsLeftBounded
  <2> HIDE DEF n
  <2>10. StepsLeft' <= 4 * n
    BY <2>4, <2>7, <2>8
  <2>11. StepsLeft' \in Int
    BY <2>4, <2>7, <2>8
  <2> QED BY <2>5, <2>8, <2>9, <2>10, <2>11 DEF n
<1> QED BY <1>1, <1>2

\* A method that begins has a client to ask.
LEMMA EntryShortens ==
  ASSUME BridgeTypeOK, CallOK, EnterBoardMethod \/ EnsureClient
  PROVE  StepsLeft' < StepsLeft
<1>0. /\ call \in Calls /\ call.attempt \in 0..2 /\ call.todo \in Left
  BY DEF CallOK, BridgeTypeOK, Calls
<1>1. Running /\ call.via = NoClient
  BY DEF EnterBoardMethod, EnsureClient
<1>2. call'.todo = call.todo /\ call'.attempt = call.attempt /\ call'.via # NoClient
  <2>1. CASE EnterBoardMethod
    <3>1. call.handle \in Paths
      BY <2>1 DEF EnterBoardMethod, CallOK, Doing
    <3> QED BY <1>0, <2>1, <3>1, PathsAssumption DEF EnterBoardMethod, Calls, NoClient
  <2>2. CASE EnsureClient
    <3>1. client' # NoClient
      BY <2>2, PathsAssumption DEF EnsureClient, BridgeTypeOK, Present, NoClient
    <3> QED BY <1>0, <2>2, <3>1 DEF EnsureClient, Calls
  <2> QED BY <2>1, <2>2
<1>3. Len(call.todo) \in Nat
  BY <1>0, LeftAreShort
<1> QED BY <1>0, <1>1, <1>2, <1>3 DEF StepsLeft, Running, Doing

\* Entries, retries and the revert count one each, everything else is the next
\* request or the end.
LEMMA BridgeStepShortens ==
  ASSUME BridgeTypeOK, CallOK, BridgeStep
  PROVE  StepsLeft' < StepsLeft
<1>0. /\ call \in Calls /\ call.attempt \in 0..2 /\ call.todo \in Left
  BY DEF CallOK, BridgeTypeOK, Calls
<1>1. Running
  BY BridgeStepTypes
<1>2. CASE EnterBoardMethod \/ EnsureClient
  BY <1>2, EntryShortens
<1>3. CASE Retry
  <2>1. call'.todo = call.todo /\ call'.attempt = call.attempt + 1 /\ call'.via = call.via
    BY <1>0, <1>3 DEF Retry, Calls
  <2>2. Len(call.todo) \in Nat
    BY <1>0, LeftAreShort
  <2> QED BY <1>0, <1>1, <2>1, <2>2 DEF StepsLeft, Running, Doing
<1>4. CASE VerifyOther
  <2>1. /\ call'.todo = <<"revert">> /\ call'.attempt = call.attempt /\ call'.via = call.via
        /\ Doing("verify")
    BY <1>0, <1>4 DEF VerifyOther, Requesting, Doing, Calls
  <2>2. Len(call.todo) \in Nat /\ Len(call.todo) >= 1
    BY <1>0, <1>1, LeftAreShort DEF Running
  <2>3. Doing("revert")' /\ ~Doing("revert") /\ Running'
    BY <2>1 DEF Doing, Running
  <2>4. Len(call'.todo) = 1
    BY <2>1
  <2> QED BY <1>0, <1>1, <2>1, <2>2, <2>3, <2>4 DEF StepsLeft
<1>5. CASE Continue
  BY <1>1, <1>5, ContinueShortens
<1>6. CASE \E reply \in Replies : Return(reply)
  BY <1>1, <1>6, ReturnShortens
<1>7. \/ EnterBoardMethod \/ EnsureClient \/ Retry \/ VerifyOther \/ Continue
      \/ \E reply \in Replies : Return(reply)
  <2>1. CASE Fail \/ MutateUnheard \/ RevertUnheard
    <3>1. PICK failure \in Failures : Return(Mapped(failure))
      BY <2>1 DEF Fail, MutateUnheard, RevertUnheard
    <3> QED BY <3>1, MappedIsReply
  <2>2. CASE DetectRestart \/ NoClientToEnsure \/ NotFound \/ CreatedNothing \/ Revert \/ Probe
    BY <2>2 DEF DetectRestart, NoClientToEnsure, NotFound, CreatedNothing, Revert, Probe, Replies
  <2>3. CASE Read \/ NoEditor \/ Mutate \/ VerifySame
    BY <2>3 DEF Read, NoEditor, Mutate, VerifySame
  <2> QED BY <2>1, <2>2, <2>3 DEF BridgeStep
<1> QED BY <1>2, <1>3, <1>4, <1>5, <1>6, <1>7

\* Every step of the bridge brings a call nearer to its end, and nothing that
\* KiCad does takes it back.
CallsComeNearer ==
  [][/\ BridgeStep => StepsLeft' < StepsLeft
     /\ ~Begin => StepsLeft' <= StepsLeft]_vars

\* _BUSY_RETRY_BACKOFFS_MS: whatever fails, is tried again or has to be
\* reverted, no call takes more than 24 steps of the bridge.  This is the part
\* of CallEnds that is not about fairness.
THEOREM CallsAreShort ==
  Spec => [](StepsLeft \in 0..24 /\ (Running <=> StepsLeft # 0)) /\ CallsComeNearer
<1>1. BridgeInv => StepsLeft \in 0..24 /\ (Running <=> StepsLeft # 0)
  <2> SUFFICES ASSUME BridgeTypeOK, CallOK
               PROVE  StepsLeft \in 0..24 /\ (Running <=> StepsLeft # 0)
    BY DEF BridgeInv
  <2>1. StepsLeft \in 0..24 /\ (Running => StepsLeft >= 4)
    BY StepsLeftBounded
  <2>2. ~Running => StepsLeft = 0
    BY DEF StepsLeft
  <2> QED BY <2>1, <2>2
<1>2. BridgeInv /\ [Next]_vars =>
        [/\ BridgeStep => StepsLeft' < StepsLeft
         /\ ~Begin => StepsLeft' <= StepsLeft]_vars
  <2> SUFFICES ASSUME BridgeTypeOK, CallOK, Next
               PROVE  /\ BridgeStep => StepsLeft' < StepsLeft
                      /\ ~Begin => StepsLeft' <= StepsLeft
    BY DEF BridgeInv
  <2>1. StepsLeft \in Nat
    BY StepsLeftBounded
  <2>2. BridgeStep => StepsLeft' < StepsLeft
    BY BridgeStepShortens
  <2>3. BridgeStep => StepsLeft' <= StepsLeft
    <3>1. StepsLeft' \in Nat \/ ~BridgeStep
      <4> SUFFICES ASSUME BridgeStep PROVE StepsLeft' \in Nat
        OBVIOUS
      <4>1. BridgeTypeOK' /\ CallOK'
        BY StepType, StepCall DEF Next
      <4>2. (BridgeTypeOK /\ CallOK => StepsLeft \in 0..24)'
        BY StepsLeftBounded, PTL
      <4> QED BY <4>1, <4>2
    <3> QED BY <2>1, <2>2, <3>1
  <2>4. WorldStep => StepsLeft' = StepsLeft
    BY DEF WorldStep, Start, Exit, Crash, ChangeEnviron, Disturb, StepsLeft, Running, Doing
  <2> QED BY <2>1, <2>2, <2>3, <2>4 DEF Next
<1> QED BY <1>1, <1>2, BridgeInvariant, PTL DEF Spec, CallsComeNearer
=============================================================================
