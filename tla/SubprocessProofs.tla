------------------------- MODULE SubprocessProofs --------------------------
(***************************************************************************)
(* Proofs about the two modules that are about subprocesses and the board  *)
(* file, Fabrication and Autoroute, for every set of findings, every page  *)
(* size and filter, and any number of writes, runs and failures: a         *)
(* fabrication set is of one board, which was clean; the pages of a DRC    *)
(* make up the report; the errors a routing is said to introduce are those *)
(* that were not there; and a run installs its own routing.                *)
(***************************************************************************)
EXTENDS Fabrication, Autoroute, FiniteSetTheorems, NaturalsInduction, WellFoundedInduction,
        SequenceTheorems, TLAPS

----------------------------------------------------------------------------
(* Exports: gate G3 and the output directory                               *)

\* The steps an export has left, and those of a routing.
Exporting == ExportManufacturing
Gerbers == <<"gerbers", "drill", "list">>
Drill == <<"drill", "list">>
Listing == <<"list">>
Exports == {Exporting, Gerbers, Drill, Listing}

RouteRest == {RouteDrc, <<"routing", "drcAfter">>, <<"drcAfter">>}

Fields == {"todo", "pre", "reply", "files", "diff", "fabBefore", "post", "alone"}

\* Where a call stands, and that only it has a reply once it has ended.
CallOK ==
  /\ call = [x \in Fields |-> call[x]]
  /\ call.todo \in Exports \cup RouteRest \cup {<<>>}
  /\ call.todo # <<>> => call.reply = "none"
  /\ call.todo \in RouteRest => call.files = {}

IsOutput == fab = [file \in DOMAIN fab |-> fab[file]]

Shows(file) == file \in DOMAIN fab /\ fab[file] = pcb.write

\* What an export that nobody disturbs has established: before the gate the
\* output directory is as it was; after it the board is clean; and what it has
\* plotted shows that board.
ExportOK ==
  /\ call.todo = Exporting => fab = call.fabBefore
  /\ call.alone /\ call.todo \in {Gerbers, Drill, Listing} => Errors(pcb.report) = <<>>
  /\ call.alone /\ call.todo \in {Drill, Listing} => Shows("gerbers")
  /\ call.alone /\ call.todo = Listing => Shows("drill")

\* What it leaves when it ends.
EndOK ==
  call.todo = <<>> =>
    /\ call.reply = "OK" /\ call.files # {} /\ call.alone =>
         /\ \A file \in Outputs : file \in call.files /\ Shows(file)
         /\ Errors(pcb.report) = <<>>
    /\ call.reply = "EXPORT_BLOCKED_BY_DRC" => fab = call.fabBefore

FabInv == CallOK /\ IsOutput /\ ExportOK /\ EndOK

\* What the gate counts is what run_drc(min_severity="error") reports.
LEMMA GateSeesErrors ==
  ASSUME NEW report
  PROVE  Filtered(report, ErrorsOnly) = Errors(report)
<1>1. ASSUME NEW f
      PROVE  Rank(Severity(f)) >= Rank("error") <=> Severity(f) = "error"
  BY DEF Rank, SeverityOrder
<1>2. {f \in Findings : Rank(Severity(f)) >= Rank("error") /\ f.rule \notin {}}
        = {f \in Findings : Severity(f) = "error"}
  BY <1>1
<1> QED BY <1>2 DEF Filtered, Errors, ErrorsOnly, IsError

\* The lists of steps, told apart by their first step.
LEMMA Places ==
  /\ Tail(Exporting) = Gerbers /\ Tail(Gerbers) = Drill /\ Tail(Drill) = Listing
  /\ Tail(Listing) = <<>>
  /\ Tail(RouteDrc) = <<"routing", "drcAfter">>
  /\ Tail(<<"routing", "drcAfter">>) = <<"drcAfter">>
  /\ <<>> \notin Exports \cup RouteRest
  /\ \A todo \in Exports \cup RouteRest :
       /\ todo # <<>>
       /\ Head(todo) = "gate" <=> todo = Exporting
       /\ Head(todo) = "gerbers" <=> todo = Gerbers
       /\ Head(todo) = "drill" <=> todo = Drill
       /\ Head(todo) = "list" <=> todo = Listing
       /\ Head(todo) = "drcBefore" <=> todo = RouteDrc
       /\ Head(todo) = "routing" <=> todo = <<"routing", "drcAfter">>
       /\ Head(todo) = "drcAfter" <=> todo = <<"drcAfter">>
  /\ Exports \cap RouteRest = {}
BY DEF Exports, Exporting, ExportManufacturing, Gerbers, Drill, Listing, RouteRest, RouteDrc

\* The ways a step leaves the call.
LEMMA CallGoesOn ==
  ASSUME CallOK, Running, Continue
  PROVE  /\ call' = [x \in Fields |-> call'[x]]
         /\ call'.todo = Tail(call.todo)
         /\ call'.reply = call.reply /\ call'.files = call.files
         /\ call'.fabBefore = call.fabBefore /\ call'.alone = call.alone
BY DEF CallOK, Continue, Fields

\* A call that fails has nothing left but its reply.
LEMMA CallFails ==
  ASSUME CallOK, NEW code, Fail(code)
  PROVE  /\ call' = [x \in Fields |-> call'[x]]
         /\ call'.todo = <<>> /\ call'.reply = code
         /\ call'.fabBefore = call.fabBefore
BY DEF CallOK, Fail, Return, Fields

\* A failure has a reply that FabIsClean says nothing of.
LEMMA FailedEnds ==
  ASSUME FabInv, MayFail, IsOutput'
  PROVE  FabInv'
<1>1. /\ call' = [x \in Fields |-> call'[x]]
      /\ call'.todo = <<>> /\ call'.reply = "FAILED"
  BY CallFails DEF FabInv, MayFail
<1> QED BY <1>1, Places DEF FabInv, CallOK, ExportOK, EndOK, Exports

\* A call begins at the first step of its program, with the directory noted.
LEMMA BeginStep ==
  ASSUME FabInv, Begin
  PROVE  FabInv'
<1>1. PICK steps \in {ExportManufacturing, RouteDrc} : call' = [Idle("none") EXCEPT !.todo = steps]
  BY DEF Begin
<1>2. /\ call' = [x \in Fields |-> call'[x]]
      /\ call'.todo = steps /\ call'.reply = "none" /\ call'.files = {} /\ call'.fabBefore = fab
  BY <1>1 DEF Idle, Fields
<1>3. UNCHANGED <<pcb, fab>>
  BY DEF Begin
<1>4. steps \in {Exporting, RouteDrc} /\ Exporting \in Exports /\ RouteDrc \in RouteRest
  BY DEF Exporting, Exports, RouteRest
<1>5. steps # <<>> /\ steps \notin {Gerbers, Drill, Listing}
  BY <1>4, Places DEF Exports
<1>6. CallOK'
  BY <1>2, <1>4 DEF CallOK
<1>7. ExportOK' /\ EndOK'
  BY <1>2, <1>3, <1>5 DEF ExportOK, EndOK
<1> QED BY <1>3, <1>6, <1>7 DEF FabInv, IsOutput

\* Only a clean board passes the gate; a blocked export has written nothing.
LEMMA GateStep ==
  ASSUME FabInv, Gate
  PROVE  FabInv'
<1>1. Running /\ call.todo = Exporting /\ UNCHANGED <<pcb, fab>>
  BY Places DEF FabInv, CallOK, Gate, Doing, Running
<1>2. CASE Errors(pcb.report) = <<>> /\ Continue
  <2>1. /\ call' = [x \in Fields |-> call'[x]] /\ call'.todo = Gerbers
        /\ call'.reply = call.reply /\ call'.alone = call.alone
    BY <1>1, <1>2, CallGoesOn, Places DEF FabInv
  <2>2. Gerbers \in Exports /\ Exporting \in Exports
    BY DEF Exports
  <2>3. Gerbers \notin {<<>>, Exporting, Drill, Listing} \cup RouteRest
    BY <2>2, Places DEF Exports
  <2>4. CallOK'
    BY <1>1, <2>1, <2>2, <2>3, Places DEF FabInv, CallOK
  <2>5. ExportOK' /\ EndOK'
    BY <1>1, <1>2, <2>1, <2>3 DEF ExportOK, EndOK
  <2> QED BY <1>1, <2>4, <2>5 DEF FabInv, IsOutput
<1>3. CASE Fail("EXPORT_BLOCKED_BY_DRC")
  <2>1. /\ call' = [x \in Fields |-> call'[x]] /\ call'.todo = <<>>
        /\ call'.reply = "EXPORT_BLOCKED_BY_DRC" /\ call'.fabBefore = call.fabBefore
    BY <1>3, CallFails DEF FabInv
  <2>2. fab' = call'.fabBefore
    BY <1>1, <2>1 DEF FabInv, ExportOK
  <2> QED BY <1>1, <2>1, <2>2, Places DEF FabInv, CallOK, IsOutput, ExportOK, EndOK, Exports
<1>4. CASE MayFail
  BY <1>1, <1>4, FailedEnds DEF FabInv, IsOutput
<1> QED BY <1>2, <1>3, <1>4 DEF Gate

\* An export writes the file of the board as it is; an undisturbed one, of the
\* board that passed the gate.
LEMMA OutputStep ==
  ASSUME FabInv, NEW file \in Outputs, Output(file)
  PROVE  FabInv'
<1> DEFINE written == [x \in DOMAIN fab \cup {file} |-> IF x = file THEN pcb.write ELSE fab[x]]
<1>1. Running /\ pcb' = pcb /\ fab' \in {fab, written}
  BY DEF Output, Doing
<1>2. IsOutput'
  BY <1>1 DEF FabInv, IsOutput
<1>3. /\ file = "gerbers" => call.todo = Gerbers
      /\ file = "drill" => call.todo = Drill
      /\ file \in {"gerbers", "drill"}
  BY Places DEF FabInv, CallOK, Output, Doing, Running, Outputs
<1>4. CASE MayFail
  BY <1>2, <1>4, FailedEnds
<1>5. CASE Continue /\ fab' = written
  <2>1. /\ call' = [x \in Fields |-> call'[x]] /\ call'.todo = Tail(call.todo)
        /\ call'.reply = call.reply /\ call'.alone = call.alone
    BY <1>1, <1>5, CallGoesOn DEF FabInv
  <2>2. /\ \A x \in Outputs : Shows(x) => Shows(x)'
        /\ Shows(file)'
    BY <1>1, <1>5 DEF Shows
  <2>3. {Exporting, Gerbers, Drill, Listing} = Exports
    BY DEF Exports
  <2>4. call.todo # <<>> /\ call.reply = "none"
    BY <1>1 DEF FabInv, CallOK, Running
  <2>5. CASE file = "gerbers"
    <3>1. call'.todo = Drill /\ Drill \notin {<<>>, Exporting, Gerbers, Listing} \cup RouteRest
      BY <1>3, <2>1, <2>3, <2>5, Places
    <3>2. CallOK'
      BY <2>1, <2>3, <2>4, <3>1 DEF CallOK
    <3>3. call'.alone => Errors(pcb'.report) = <<>>
      BY <1>1, <1>3, <2>1, <2>5 DEF FabInv, ExportOK
    <3>4. ExportOK' /\ EndOK'
      BY <2>2, <2>5, <3>1, <3>3 DEF ExportOK, EndOK
    <3> QED BY <1>2, <3>2, <3>4 DEF FabInv
  <2>6. CASE file = "drill"
    <3>1. call'.todo = Listing /\ Listing \notin {<<>>, Exporting, Gerbers, Drill} \cup RouteRest
      BY <1>3, <2>1, <2>3, <2>6, Places
    <3>2. CallOK'
      BY <2>1, <2>3, <2>4, <3>1 DEF CallOK
    <3>3. call'.alone => Errors(pcb'.report) = <<>> /\ Shows("gerbers")
      BY <1>1, <1>3, <2>1, <2>6 DEF FabInv, ExportOK
    <3>4. ExportOK' /\ EndOK'
      BY <2>2, <2>6, <3>1, <3>3 DEF ExportOK, EndOK, Outputs
    <3> QED BY <1>2, <3>2, <3>4 DEF FabInv
  <2> QED BY <1>3, <2>5, <2>6
<1> QED BY <1>4, <1>5 DEF Output

\* The list has both files, both of the board that passed the gate.
LEMMA ListStep ==
  ASSUME FabInv, List
  PROVE  FabInv'
<1>1. Running /\ call.todo = Listing /\ UNCHANGED <<pcb, fab>>
  BY Places DEF FabInv, CallOK, List, Doing, Running
<1>2. /\ call' = [x \in Fields |-> call'[x]] /\ call'.todo = <<>> /\ call'.reply = "OK"
      /\ call'.files = DOMAIN fab /\ call'.alone = call.alone
  BY DEF FabInv, CallOK, List, Return, Fields
<1>3. call.alone => Shows("gerbers") /\ Shows("drill") /\ Errors(pcb.report) = <<>>
  BY <1>1 DEF FabInv, ExportOK
<1>4. call'.alone => /\ \A file \in Outputs : file \in call'.files /\ Shows(file)'
                     /\ Errors(pcb'.report) = <<>>
  BY <1>1, <1>2, <1>3 DEF Shows, Outputs
<1>5. CallOK' /\ ExportOK'
  BY <1>2, Places DEF CallOK, ExportOK, Exports
<1>6. EndOK'
  BY <1>2, <1>4 DEF EndOK
<1> QED BY <1>1, <1>5, <1>6 DEF FabInv, IsOutput

\* The steps of a routing do not touch the output directory.
LEMMA RouteStep ==
  ASSUME FabInv, DrcBefore \/ Routing \/ DrcAfter
  PROVE  FabInv'
<1>1. /\ Running /\ call.todo \in RouteRest /\ fab' = fab
      /\ DrcBefore => call.todo = RouteDrc
      /\ Routing => call.todo = <<"routing", "drcAfter">>
  BY Places DEF FabInv, CallOK, DrcBefore, Routing, DrcAfter, Doing, Running, RouteRest
<1>2. IsOutput'
  BY <1>1 DEF FabInv, IsOutput
<1>3. call.files = {} /\ call.reply = "none"
  BY <1>1 DEF FabInv, CallOK, Running
<1>4. CASE MayFail
  BY <1>2, <1>4, FailedEnds
<1>5. CASE DrcBefore /\ call' = [call EXCEPT !.todo = Tail(@), !.pre = pcb.report]
  <2>1. /\ call' = [x \in Fields |-> call'[x]] /\ call'.todo = Tail(call.todo)
        /\ call'.files = {} /\ call'.reply = "none"
    BY <1>3, <1>5 DEF FabInv, CallOK, Fields
  <2>2. call'.todo \in RouteRest
    BY <1>1, <1>5, <2>1, Places DEF RouteRest
  <2> QED BY <1>2, <2>1, <2>2, Places DEF FabInv, CallOK, ExportOK, EndOK, Exports
<1>6. CASE Routing
  <2>1. /\ call' = [x \in Fields |-> call'[x]] /\ call'.todo = Tail(call.todo)
        /\ call'.files = {} /\ call'.reply = "none"
    BY <1>1, <1>3, <1>6, CallGoesOn DEF FabInv, Routing
  <2>2. call'.todo \in RouteRest
    BY <1>1, <1>6, <2>1, Places DEF RouteRest
  <2> QED BY <1>2, <2>1, <2>2, Places DEF FabInv, CallOK, ExportOK, EndOK, Exports
<1>7. CASE Return([call EXCEPT !.reply = "OK", !.post = pcb.report,
                               !.diff = Diff(call.pre, pcb.report)])
  <2>1. /\ call' = [x \in Fields |-> call'[x]] /\ call'.todo = <<>>
        /\ call'.files = {} /\ call'.reply = "OK"
    BY <1>3, <1>7 DEF FabInv, CallOK, Return, Fields
  <2> QED BY <1>2, <2>1, Places DEF FabInv, CallOK, ExportOK, EndOK, Exports
<1> QED BY <1>4, <1>5, <1>6, <1>7 DEF DrcBefore, DrcAfter

\* An external write only takes away that the call was alone.
LEMMA ExternalStep ==
  ASSUME FabInv, ExternalWrite
  PROVE  FabInv'
<1>1. fab' = fab /\ call' = [call EXCEPT !.alone = FALSE]
  BY DEF ExternalWrite
<1>2. /\ call' = [x \in Fields |-> call'[x]] /\ call'.todo = call.todo /\ ~call'.alone
      /\ call'.reply = call.reply /\ call'.files = call.files /\ call'.fabBefore = call.fabBefore
  BY <1>1 DEF FabInv, CallOK, Fields
<1>3. CallOK'
  BY <1>2 DEF FabInv, CallOK
<1>4. ExportOK' /\ EndOK'
  BY <1>1, <1>2 DEF FabInv, ExportOK, EndOK
<1> QED BY <1>1, <1>3, <1>4 DEF FabInv, IsOutput

\* What an agent reads changes nothing of an export.
LEMMA QuietStep ==
  ASSUME FabInv, UNCHANGED <<pcb, fab, call>>
  PROVE  FabInv'
BY DEF FabInv, CallOK, IsOutput, ExportOK, EndOK, Shows

\* No call has been made.
LEMMA FabInvInit == Init => FabInv
<1> SUFFICES ASSUME Init PROVE FabInv
  OBVIOUS
<1>1. IsOutput
  BY DEF Init, IsOutput
<1>2. /\ call = [x \in Fields |-> call[x]] /\ call.todo = <<>> /\ call.reply = "none"
  BY DEF Init, Idle, Fields
<1> QED BY <1>1, <1>2, Places DEF FabInv, CallOK, ExportOK, EndOK, Exports

\* By the lemmas above, one for each kind of step.
LEMMA FabInvStep == FabInv /\ [Next]_vars => FabInv'
<1> SUFFICES ASSUME FabInv, [Next]_vars PROVE FabInv'
  OBVIOUS
<1>1. CASE Begin
  BY <1>1, BeginStep
<1>2. CASE Gate
  BY <1>2, GateStep
<1>3. ASSUME NEW file \in Outputs, Output(file) PROVE FabInv'
  BY <1>3, OutputStep
<1>4. CASE List
  BY <1>4, ListStep
<1>5. CASE DrcBefore \/ Routing \/ DrcAfter
  BY <1>5, RouteStep
<1>6. CASE ExternalWrite
  BY <1>6, ExternalStep
<1>7. CASE AskSummary \/ AskPage \/ UNCHANGED vars
  BY <1>7, QuietStep DEF AskSummary, AskPage, vars
<1> QED BY <1>1, <1>2, <1>3, <1>4, <1>5, <1>6, <1>7 DEF Next

\* Where an export stands, whoever writes the board meanwhile.
THEOREM FabInvariant == Spec => []FabInv
BY FabInvInit, FabInvStep, PTL DEF Spec

\* ADR-0003: an export that says OK, and during which nobody wrote the board,
\* leaves the files of one board, which run_drc reports clean; an export that
\* is blocked leaves the output directory as it found it.
THEOREM FabCorrect == Spec => []FabIsClean
<1>1. FabInv => FabIsClean
  BY GateSeesErrors DEF FabInv, EndOK, FabIsClean, Running, Shows
<1> QED BY <1>1, FabInvariant, PTL

----------------------------------------------------------------------------
(* Counting                                                                *)

\* A set of natural numbers that is not empty has a least element.
LEMMA LeastNatural ==
  ASSUME NEW T, T \subseteq Nat, T # {}
  PROVE  \E x \in T : \A y \in T : x <= y
<1> DEFINE R == {ss \in Nat \X Nat : ss[1] < ss[2]}
<1>1. IsWellFoundedOn(R, Nat)
  BY NatLessThanWellFounded DEF OpToRel
<1>2. PICK x \in T : \A y \in T : <<y, x>> \notin R
  <2> HIDE DEF R
  <2> QED BY <1>1, WFMin
<1>3. ASSUME NEW y \in T PROVE x <= y
  <2>1. x \in Nat /\ y \in Nat
    OBVIOUS
  <2>2. ~(y < x)
    BY <1>2, <2>1
  <2> QED BY <2>1, <2>2
<1> QED BY <1>3

\* Whether or not the findings up to the n-th have been taken, the n-th is.
OneMore(taken, report, kept, n) ==
  IF report[n] \in kept THEN Append(taken, report[n]) ELSE taken

\* The recursion in Among has a solution.
Solves(g, report, kept, m) ==
  g = [n \in 0..m |-> IF n = 0 THEN <<>> ELSE OneMore(g[n - 1], report, kept, n)]

\* The recursive function in Among exists for a list of any length: there is
\* no least length for which it does not.
LEMMA AmongIsDefined ==
  ASSUME NEW report, NEW kept, NEW m \in Nat
  PROVE  \E g : Solves(g, report, kept, m)
<1> DEFINE P(k) == \E g : Solves(g, report, kept, k)
           Bad == {k \in Nat : ~P(k)}
<1> SUFFICES ASSUME Bad # {} PROVE FALSE
  OBVIOUS
<1>1. PICK k \in Bad : \A y \in Bad : k <= y
  BY LeastNatural
<1>2. P(0)
  <2> DEFINE g == [n \in 0..0 |-> <<>>]
  <2>1. g = [n \in 0..0 |-> IF n = 0 THEN <<>> ELSE OneMore(g[n - 1], report, kept, n)]
    <3>1. \A n \in 0..0 : n = 0
      OBVIOUS
    <3> QED BY <3>1
  <2> HIDE DEF g
  <2> QED BY <2>1 DEF Solves
<1> HIDE DEF P
<1>3. k # 0 /\ k \in Nat /\ k - 1 \in Nat
  BY <1>2
<1>4. P(k - 1)
  <2>1. k - 1 \notin Bad
    BY <1>1, <1>3
  <2> QED BY <1>3, <2>1
<1>5. PICK h : h = [n \in 0..(k - 1) |-> IF n = 0 THEN <<>>
                                         ELSE OneMore(h[n - 1], report, kept, n)]
  BY <1>4 DEF Solves, P
<1> DEFINE g == [n \in 0..k |-> IF n = k THEN OneMore(h[k - 1], report, kept, k) ELSE h[n]]
<1>6. ASSUME NEW n \in 0..k
      PROVE  g[n] = IF n = 0 THEN <<>> ELSE OneMore(g[n - 1], report, kept, n)
  <2>1. CASE n = 0
    <3>1. g[0] = h[0] /\ 0 \in 0..(k - 1)
      BY <1>3
    <3> HIDE DEF g
    <3> QED BY <1>5, <2>1, <3>1
  <2>2. CASE n = k
    <3>1. g[k] = OneMore(h[k - 1], report, kept, k) /\ g[k - 1] = h[k - 1]
      BY <1>3
    <3> HIDE DEF g
    <3> QED BY <1>3, <2>2, <3>1
  <2>3. CASE n # 0 /\ n # k
    <3>1. n \in 0..(k - 1) /\ n - 1 \in 0..k /\ n - 1 # k
      BY <1>3, <2>3
    <3>2. g[n] = h[n] /\ g[n - 1] = h[n - 1]
      BY <2>3, <3>1
    <3> HIDE DEF g
    <3> QED BY <1>5, <2>3, <3>1, <3>2
  <2> QED BY <2>1, <2>2, <2>3
<1>7. g = [n \in 0..k |-> IF n = 0 THEN <<>> ELSE OneMore(g[n - 1], report, kept, n)]
  <2>1. g = [n \in 0..k |-> g[n]]
    OBVIOUS
  <2> HIDE DEF g
  <2> QED BY <1>6, <2>1
<1>8. P(k)
  <2> HIDE DEF g
  <2> QED BY <1>7 DEF P, Solves
<1> QED BY <1>1, <1>8

\* As many findings are taken as there are to be kept.
LEMMA AmongCounts ==
  ASSUME NEW S, NEW report \in Seq(S), NEW kept
  PROVE  /\ Among(report, kept) \in Seq(S)
         /\ Len(Among(report, kept)) = Cardinality({i \in DOMAIN report : report[i] \in kept})
<1> DEFINE among == CHOOSE g : Solves(g, report, kept, Len(report))
           Kept(n) == {i \in 1..n : report[i] \in kept}
           Good(n) == among[n] \in Seq(S) /\ Len(among[n]) = Cardinality(Kept(n))
           Bad == {n \in 0..Len(report) : ~Good(n)}
<1>1. Len(report) \in Nat /\ \A i \in 1..Len(report) : report[i] \in S
  OBVIOUS
<1>2. \E g : Solves(g, report, kept, Len(report))
  BY <1>1, AmongIsDefined
<1>3. Solves(among, report, kept, Len(report))
  BY <1>2
<1>4. Among(report, kept) = among[Len(report)]
  BY DEF Among, OneMore, Solves
<1> HIDE DEF among
<1>5. among[0] = <<>>
  BY <1>1, <1>3 DEF Solves
<1>6. ASSUME NEW n \in 1..Len(report)
      PROVE  among[n] = OneMore(among[n - 1], report, kept, n)
  BY <1>1, <1>3, <1>6 DEF Solves
<1>7. Bad = {}
  <2> SUFFICES ASSUME Bad # {} PROVE FALSE
    OBVIOUS
  <2>1. PICK n \in Bad : \A y \in Bad : n <= y
    <3>1. Bad \subseteq Nat
      BY <1>1
    <3> HIDE DEF Bad
    <3> QED BY <3>1, LeastNatural
  <2>2. Good(0)
    <3>1. Kept(0) = {}
      OBVIOUS
    <3>2. Cardinality(Kept(0)) = 0
      BY <3>1, FS_EmptySet
    <3>3. among[0] \in Seq(S) /\ Len(among[0]) = 0
      BY <1>5
    <3> QED BY <3>2, <3>3
  <2>3. n \in 1..Len(report) /\ n - 1 \in 0..Len(report) /\ n - 1 \notin Bad
    <3> HIDE DEF Good
    <3>1. n \in 0..Len(report) /\ n # 0
      BY <2>1, <2>2
    <3>2. n \in 1..Len(report) /\ n - 1 \in 0..Len(report) /\ ~(n <= n - 1)
      BY <1>1, <3>1
    <3> QED BY <2>1, <3>2
  <2>4. among[n - 1] \in Seq(S) /\ Len(among[n - 1]) = Cardinality(Kept(n - 1))
    BY <2>3
  <2>5. IsFiniteSet(Kept(n - 1)) /\ n \notin Kept(n - 1)
    <3>1. IsFiniteSet(1..(n - 1)) /\ Kept(n - 1) \subseteq 1..(n - 1)
      BY <2>3, FS_Interval
    <3> QED BY <1>1, <2>3, <3>1, FS_Subset
  <2>6. among[n] = OneMore(among[n - 1], report, kept, n) /\ report[n] \in S
    BY <1>1, <1>6, <2>3
  <2>7. CASE report[n] \in kept
    <3>1. Kept(n) = Kept(n - 1) \cup {n}
      BY <1>1, <2>3, <2>7
    <3>2. Cardinality(Kept(n)) = Cardinality(Kept(n - 1)) + 1
      <4> HIDE DEF Kept
      <4> QED BY <2>5, <3>1, FS_AddElement
    <3>3. among[n] = Append(among[n - 1], report[n])
      BY <2>6, <2>7 DEF OneMore
    <3>4. among[n] \in Seq(S) /\ Len(among[n]) = Len(among[n - 1]) + 1
      BY <2>4, <2>6, <3>3, AppendProperties
    <3> QED BY <2>1, <2>4, <3>2, <3>4
  <2>8. CASE report[n] \notin kept
    <3>1. Kept(n) = Kept(n - 1)
      BY <1>1, <2>3, <2>8
    <3> QED BY <2>1, <2>4, <2>6, <2>8, <3>1 DEF OneMore
  <2> QED BY <2>7, <2>8
<1>8. Len(report) \in 0..Len(report) /\ Kept(Len(report)) = {i \in DOMAIN report : report[i] \in kept}
  BY <1>1
<1> QED BY <1>4, <1>7, <1>8

\* A set is as large as the parts together that g divides it into.
LEMMA PartsTotal ==
  ASSUME NEW S, IsFiniteSet(S), NEW g, NEW R, \A x \in S : g[x] \in R, NEW counts,
         counts = [r \in R |-> Cardinality({x \in S : g[x] = r})]
  PROVE  Total(counts) = Cardinality(S)
<1> DEFINE Part(r) == {x \in S : g[x] = r}
           numbered == [r \in R |-> CHOOSE b : b \in Bijection(1..counts[r], Part(r))]
           T == UNION {{r} \X (1..counts[r]) : r \in R}
           f == [t \in T |-> numbered[t[1]][t[2]]]
<1>1. ASSUME NEW r \in R
      PROVE  numbered[r] \in Bijection(1..counts[r], Part(r))
  <2>1. IsFiniteSet(Part(r)) /\ counts[r] = Cardinality(Part(r))
    BY FS_Subset
  <2> HIDE DEF Part
  <2> QED BY <2>1, FS_CardinalityType DEF ExistsBijection
<1>2. DOMAIN counts = R
  OBVIOUS
<1>3. ASSUME NEW r \in R, NEW k \in 1..counts[r]
      PROVE  numbered[r][k] \in S /\ g[numbered[r][k]] = r
  BY <1>1, <1>3 DEF Bijection, Injection
<1> HIDE DEF numbered
<1>4. \A t : t \in T <=> \E r \in R : \E k \in 1..counts[r] : t = <<r, k>>
  <2> TAKE t
  <2>1. t \in T <=> \E r \in R : t \in {r} \X (1..counts[r])
    OBVIOUS
  <2>2. \A r \in R : t \in {r} \X (1..counts[r]) <=> \E k \in 1..counts[r] : t = <<r, k>>
    OBVIOUS
  <2> HIDE DEF T
  <2> QED BY <2>1, <2>2
<1>5. f \in [T -> S]
  <2> SUFFICES ASSUME NEW t \in T PROVE numbered[t[1]][t[2]] \in S
    OBVIOUS
  <2>1. PICK r \in R : \E k \in 1..counts[r] : t = <<r, k>>
    BY <1>4
  <2> QED BY <1>3, <2>1
<1>6. ASSUME NEW r \in R, NEW k \in 1..counts[r]
      PROVE  <<r, k>> \in T /\ f[<<r, k>>] = numbered[r][k]
  BY <1>4
<1> HIDE DEF T, f
<1>7. ASSUME NEW s \in T, NEW t \in T, f[s] = f[t]
      PROVE  s = t
  <2>1. PICK r \in R : \E k \in 1..counts[r] : s = <<r, k>>
    BY <1>4
  <2>2. PICK k \in 1..counts[r] : s = <<r, k>>
    BY <2>1
  <2>3. PICK q \in R : \E m \in 1..counts[q] : t = <<q, m>>
    BY <1>4
  <2>4. PICK m \in 1..counts[q] : t = <<q, m>>
    BY <2>3
  <2>5. r = q /\ numbered[r][k] = numbered[r][m]
    BY <1>3, <1>6, <1>7, <2>2, <2>4
  <2>6. k = m
    BY <1>1, <2>5 DEF Bijection, Injection, IsInjective
  <2> QED BY <2>2, <2>4, <2>5, <2>6
<1>8. ASSUME NEW x \in S
      PROVE  \E t \in T : f[t] = x
  <2>1. g[x] \in R /\ x \in Part(g[x])
    OBVIOUS
  <2>2. PICK k \in 1..counts[g[x]] : numbered[g[x]][k] = x
    BY <1>1, <2>1 DEF Bijection, Surjection
  <2> QED BY <1>6, <2>1, <2>2
<1>9. f \in Injection(T, S) /\ f \in Surjection(T, S)
  BY <1>5, <1>7, <1>8 DEF Injection, Surjection, IsInjective
<1>10. Cardinality(T) = Cardinality(S)
  BY <1>9, FS_Injection
<1> QED BY <1>2, <1>10 DEF Total, T

RankIn(S, i) == Cardinality({j \in S : j <= i})

\* The elements of a set of numbers are its first, its second, and so on.
LEMMA RanksAre ==
  ASSUME NEW S, S \subseteq Nat, IsFiniteSet(S)
  PROVE  [i \in S |-> RankIn(S, i)] \in Bijection(S, 1..Cardinality(S))
<1> DEFINE f == [i \in S |-> RankIn(S, i)]
           UpTo(i) == {j \in S : j <= i}
<1>1. Cardinality(S) \in Nat /\ IsFiniteSet(1..Cardinality(S))
  BY FS_CardinalityType, FS_Interval
<1>2. ASSUME NEW i \in S
      PROVE  /\ IsFiniteSet(UpTo(i)) /\ f[i] = Cardinality(UpTo(i))
             /\ f[i] \in 1..Cardinality(S)
  <2>1. UpTo(i) \subseteq S /\ i \in UpTo(i)
    OBVIOUS
  <2>2. f[i] = Cardinality(UpTo(i))
    BY DEF RankIn
  <2> HIDE DEF UpTo, f
  <2>3. IsFiniteSet(UpTo(i)) /\ Cardinality(UpTo(i)) <= Cardinality(S)
    BY <2>1, FS_Subset
  <2>4. Cardinality(UpTo(i)) \in Nat /\ Cardinality(UpTo(i)) # 0
    BY <2>1, <2>3, FS_CardinalityType, FS_EmptySet
  <2> QED BY <1>1, <2>2, <2>3, <2>4
<1>3. ASSUME NEW i \in S, NEW k \in S, i < k
      PROVE  f[i] # f[k]
  <2>1. UpTo(i) \subseteq UpTo(k) /\ k \in UpTo(k) /\ k \notin UpTo(i)
    <3>1. i \in Nat /\ k \in Nat /\ \A j \in S : j \in Nat
      OBVIOUS
    <3>2. ~(k <= i) /\ k <= k /\ \A j \in Nat : j <= i => j <= k
      BY <1>3, <3>1
    <3> QED BY <3>1, <3>2
  <2> HIDE DEF UpTo, f
  <2> QED BY <1>2, <2>1, FS_Subset
<1>4. ASSUME NEW i \in S, NEW k \in S, f[i] = f[k]
      PROVE  i = k
  <2>1. i \in Nat /\ k \in Nat /\ ~(i < k) /\ ~(k < i)
    BY <1>3, <1>4
  <2> QED BY <2>1
<1> HIDE DEF f
<1>5. f \in [S -> 1..Cardinality(S)]
  BY <1>2 DEF f
<1>6. f \in Injection(S, 1..Cardinality(S))
  BY <1>4, <1>5 DEF Injection, IsInjective
<1>7. Cardinality(1..Cardinality(S)) = Cardinality(S)
  BY <1>1, FS_Interval
<1>8. f \in Surjection(S, 1..Cardinality(S))
  BY <1>1, <1>6, <1>7, FS_Injection
<1> QED BY <1>6, <1>8 DEF Bijection, f

----------------------------------------------------------------------------
(* Counters and pairings                                                   *)

\* The findings of an identity, and the copy of its identity that each one is.
Of(report, id) == {i \in DOMAIN report : Identity(report[i]) = id}
Copy(report, i) == <<Identity(report[i]), RankIn(Of(report, Identity(report[i])), i)>>

\* The places of one identity are finitely many, as many as Count says.
LEMMA OfIs ==
  ASSUME NEW S, NEW report \in Seq(S), NEW id
  PROVE  /\ IsFiniteSet(DOMAIN report) /\ Cardinality(DOMAIN report) = Len(report)
         /\ Of(report, id) \subseteq Nat /\ IsFiniteSet(Of(report, id))
         /\ Cardinality(Of(report, id)) = Count(report, id)
         /\ Count(report, id) \in Nat
<1>1. Len(report) \in Nat /\ DOMAIN report = 1..Len(report)
  BY LenProperties
<1>2. IsFiniteSet(1..Len(report)) /\ Cardinality(1..Len(report)) = Len(report)
  BY <1>1, FS_Interval
<1>3. Of(report, id) \subseteq 1..Len(report)
  BY <1>1 DEF Of
<1>4. IsFiniteSet(Of(report, id)) /\ Of(report, id) \subseteq Nat
  BY <1>1, <1>2, <1>3, FS_Subset
<1>5. Cardinality(Of(report, id)) = Count(report, id)
  BY DEF Of, Count
<1> QED BY <1>1, <1>2, <1>4, <1>5, FS_CardinalityType

\* A copy counts if there are as many of its identity.
LEMMA CounterHas ==
  ASSUME NEW S, NEW report \in Seq(S), NEW id, NEW k
  PROVE  <<id, k>> \in Counter(report) <=> k \in 1..Count(report, id)
<1> DEFINE ids == {Identity(f) : f \in ToSet(report)}
<1>1. Counter(report) = UNION {{x} \X (1..Count(report, x)) : x \in ids}
  BY DEF Counter
<1>2. id \in ids <=> Of(report, id) # {}
  BY DEF ToSet, Of
<1> HIDE DEF ids
<1>3. <<id, k>> \in Counter(report) <=> id \in ids /\ k \in 1..Count(report, id)
  BY <1>1
<1>4. ASSUME NEW m \in 1..Count(report, id)
      PROVE  id \in ids
  <2>1. Cardinality(Of(report, id)) # 0
    BY OfIs
  <2> QED BY <1>2, <2>1, FS_EmptySet
<1> QED BY <1>3, <1>4

\* A copy is a pair: its identity and its number.
LEMMA CounterPairs ==
  ASSUME NEW report, NEW copy \in Counter(report)
  PROVE  copy = <<copy[1], copy[2]>>
BY DEF Counter

\* The findings of a report are the copies of its Counter, one each.
LEMMA CopiesAre ==
  ASSUME NEW S, NEW report \in Seq(S)
  PROVE  /\ [i \in DOMAIN report |-> Copy(report, i)] \in Bijection(DOMAIN report, Counter(report))
         /\ \A copy \in Counter(report) : \E i \in DOMAIN report : Copy(report, i) = copy
         /\ \A i, j \in DOMAIN report : Copy(report, i) = Copy(report, j) => i = j
<1> DEFINE f == [i \in DOMAIN report |-> Copy(report, i)]
           ranks(id) == [i \in Of(report, id) |-> RankIn(Of(report, id), i)]
<1>1. ASSUME NEW id
      PROVE  ranks(id) \in Bijection(Of(report, id), 1..Count(report, id))
  BY OfIs, RanksAre
<1>2. ASSUME NEW i \in DOMAIN report
      PROVE  /\ i \in Of(report, Identity(report[i]))
             /\ Copy(report, i) = <<Identity(report[i]), ranks(Identity(report[i]))[i]>>
  BY DEF Of, Copy
<1>3. ASSUME NEW id, NEW i \in Of(report, id)
      PROVE  i \in DOMAIN report /\ Identity(report[i]) = id
  BY DEF Of
<1> HIDE DEF ranks
<1>4. ASSUME NEW i \in DOMAIN report
      PROVE  Copy(report, i) \in Counter(report)
  <2>1. ranks(Identity(report[i]))[i] \in 1..Count(report, Identity(report[i]))
    BY <1>1, <1>2 DEF Bijection, Injection
  <2> QED BY <1>2, <2>1, CounterHas
<1>5. ASSUME NEW i \in DOMAIN report, NEW j \in DOMAIN report, Copy(report, i) = Copy(report, j)
      PROVE  i = j
  <2> DEFINE id == Identity(report[i])
  <2>1. Identity(report[j]) = id /\ ranks(id)[i] = ranks(id)[j]
    BY <1>2, <1>5
  <2>2. i \in Of(report, id) /\ j \in Of(report, id)
    BY <1>2, <2>1
  <2> HIDE DEF id
  <2> QED BY <1>1, <2>1, <2>2 DEF Bijection, Injection, IsInjective
<1>6. ASSUME NEW copy \in Counter(report)
      PROVE  \E i \in DOMAIN report : Copy(report, i) = copy
  <2> DEFINE id == copy[1]
  <2>1. copy = <<id, copy[2]>> /\ copy[2] \in 1..Count(report, id)
    BY CounterPairs, CounterHas
  <2> HIDE DEF id
  <2>2. PICK i \in Of(report, id) : ranks(id)[i] = copy[2]
    BY <1>1, <2>1 DEF Bijection, Surjection
  <2> QED BY <1>2, <1>3, <2>1, <2>2
<1>7. f \in Injection(DOMAIN report, Counter(report)) /\ f \in Surjection(DOMAIN report, Counter(report))
  <2>1. f \in [DOMAIN report -> Counter(report)] /\ DOMAIN f = DOMAIN report
    BY <1>4
  <2>2. \A i \in DOMAIN report : f[i] = Copy(report, i)
    OBVIOUS
  <2> HIDE DEF f
  <2> QED BY <1>5, <1>6, <2>1, <2>2 DEF Injection, Surjection, IsInjective
<1> QED BY <1>5, <1>6, <1>7 DEF Bijection

\* A Counter has as many members as the list has places.
LEMMA CounterSize ==
  ASSUME NEW S, NEW report \in Seq(S)
  PROVE  IsFiniteSet(Counter(report)) /\ Cardinality(Counter(report)) = Len(report)
<1>1. ExistsBijection(DOMAIN report, Counter(report))
  BY CopiesAre DEF ExistsBijection
<1> QED BY <1>1, OfIs, FS_Bijection

\* What is paired off is no more than what both Counters have: of each identity,
\* the first partner of it is its first copy, the second its second.
LEMMA PairedAreCommon ==
  ASSUME NEW S, NEW a \in Seq(S), NEW b \in Seq(S), NEW p \in Pairings(a, b)
  PROVE  /\ IsFiniteSet(DOMAIN p)
         /\ Cardinality(DOMAIN p) <= Cardinality(Counter(a) \cap Counter(b))
<1> DEFINE part == DOMAIN p
           common == Counter(a) \cap Counter(b)
           Part(id) == {i \in part : Identity(a[i]) = id}
           f == [i \in part |-> <<Identity(a[i]), RankIn(Part(Identity(a[i])), i)>>]
<1>1. /\ part \subseteq DOMAIN a /\ p \in [part -> DOMAIN b]
      /\ \A i \in part : Identity(a[i]) = Identity(b[p[i]])
      /\ \A i, j \in part : p[i] = p[j] => i = j
  BY DEF Pairings
<1>2. IsFiniteSet(part)
  BY <1>1, OfIs, FS_Subset
<1> HIDE DEF part
<1>3. ASSUME NEW id
      PROVE  /\ Part(id) \subseteq Nat /\ IsFiniteSet(Part(id)) /\ Cardinality(Part(id)) \in Nat
             /\ Cardinality(Part(id)) <= Count(a, id) /\ Cardinality(Part(id)) <= Count(b, id)
  <2>1. Part(id) \subseteq Of(a, id)
    BY <1>1 DEF Of
  <2>2. [i \in Part(id) |-> p[i]] \in Injection(Part(id), Of(b, id))
    BY <1>1 DEF Of, Injection, IsInjective
  <2> HIDE DEF Part
  <2>3. /\ Of(a, id) \subseteq Nat /\ IsFiniteSet(Of(a, id)) /\ Cardinality(Of(a, id)) = Count(a, id)
        /\ IsFiniteSet(Of(b, id)) /\ Cardinality(Of(b, id)) = Count(b, id)
    BY OfIs
  <2>4. IsFiniteSet(Part(id)) /\ Cardinality(Part(id)) <= Count(a, id)
    BY <2>1, <2>3, FS_Subset
  <2>5. Cardinality(Part(id)) <= Count(b, id)
    BY <2>2, <2>3, FS_Injection
  <2> QED BY <2>1, <2>3, <2>4, <2>5, FS_CardinalityType
<1>4. ASSUME NEW i \in part
      PROVE  i \in Part(Identity(a[i]))
  OBVIOUS
<1> DEFINE ranks(id) == [i \in Part(id) |-> RankIn(Part(id), i)]
<1>5. ASSUME NEW i \in part
      PROVE  f[i] = <<Identity(a[i]), ranks(Identity(a[i]))[i]>>
  BY <1>4
<1>6. ASSUME NEW id
      PROVE  ranks(id) \in Bijection(Part(id), 1..Cardinality(Part(id)))
  BY <1>3, RanksAre
<1> HIDE DEF Part, ranks
<1>7. ASSUME NEW i \in part
      PROVE  f[i] \in common
  <2> DEFINE id == Identity(a[i])
             k == ranks(id)[i]
  <2>1. k \in 1..Cardinality(Part(id))
    BY <1>4, <1>6 DEF Bijection, Injection
  <2>2. f[i] = <<id, k>>
    BY <1>5
  <2> HIDE DEF id, k, f
  <2>3. k \in 1..Count(a, id) /\ k \in 1..Count(b, id)
    <3>1. Count(a, id) \in Nat /\ Count(b, id) \in Nat
      BY OfIs
    <3> QED BY <1>3, <2>1, <3>1
  <2> QED BY <2>2, <2>3, CounterHas
<1>8. ASSUME NEW i \in part, NEW j \in part, f[i] = f[j]
      PROVE  i = j
  <2> DEFINE id == Identity(a[i])
  <2>1. Identity(a[j]) = id /\ ranks(id)[i] = ranks(id)[j]
    BY <1>5, <1>8
  <2>2. i \in Part(id) /\ j \in Part(id)
    BY <1>4, <2>1
  <2> HIDE DEF id
  <2> QED BY <1>6, <2>1, <2>2 DEF Bijection, Injection, IsInjective
<1>9. f \in Injection(part, common)
  <2>1. f \in [part -> common] /\ DOMAIN f = part
    BY <1>7
  <2> HIDE DEF f
  <2> QED BY <1>8, <2>1 DEF Injection, IsInjective
<1>10. IsFiniteSet(common)
  BY CounterSize, FS_Intersection
<1> QED BY <1>2, <1>9, <1>10, FS_Injection DEF part

\* And all of that can be paired off: a copy with the same copy.
LEMMA CommonArePaired ==
  ASSUME NEW S, NEW a \in Seq(S), NEW b \in Seq(S)
  PROVE  \E p \in Pairings(a, b) : Cardinality(DOMAIN p) = Cardinality(Counter(a) \cap Counter(b))
<1> DEFINE common == Counter(a) \cap Counter(b)
           part == {i \in DOMAIN a : Copy(a, i) \in common}
           p == [i \in part |-> CHOOSE j \in DOMAIN b : Copy(b, j) = Copy(a, i)]
           f == [i \in part |-> Copy(a, i)]
<1>1. ASSUME NEW i \in part
      PROVE  p[i] \in DOMAIN b /\ Copy(b, p[i]) = Copy(a, i)
  <2>1. Copy(a, i) \in Counter(b)
    OBVIOUS
  <2>2. \E j \in DOMAIN b : Copy(b, j) = Copy(a, i)
    <3> DEFINE copy == Copy(a, i)
    <3> HIDE DEF copy
    <3>1. copy \in Counter(b) => \E j \in DOMAIN b : Copy(b, j) = copy
      BY CopiesAre
    <3> QED BY <2>1, <3>1 DEF copy
  <2> QED BY <2>2
<1>2. DOMAIN p = part /\ p \in [part -> DOMAIN b] /\ part \subseteq DOMAIN a
  BY <1>1
<1>3. ASSUME NEW i \in part, NEW j \in part, Copy(a, i) = Copy(a, j)
      PROVE  i = j
  BY <1>3, CopiesAre
<1> HIDE DEF p
<1>4. p \in Pairings(a, b)
  <2>1. \A i \in part : Identity(a[i]) = Identity(b[p[i]])
    BY <1>1 DEF Copy
  <2>2. \A i, j \in part : p[i] = p[j] => i = j
    BY <1>1, <1>3
  <2> HIDE DEF part
  <2> QED BY <1>2, <2>1, <2>2 DEF Pairings
<1>5. f \in Injection(part, common)
  BY <1>3 DEF Injection, IsInjective
<1>6. f \in Surjection(part, common)
  <2> SUFFICES ASSUME NEW copy \in common PROVE \E i \in part : f[i] = copy
    BY DEF Surjection
  <2>1. PICK i \in DOMAIN a : Copy(a, i) = copy
    BY CopiesAre
  <2> QED BY <2>1
<1>7. IsFiniteSet(common)
  BY CounterSize, FS_Intersection
<1>8. Cardinality(part) = Cardinality(common)
  <2> HIDE DEF part, common, f
  <2> QED BY <1>5, <1>6, <1>7, FS_Injection
<1> QED BY <1>2, <1>4, <1>8

\* A greatest pairing has the size of the intersection of the Counters.
LEMMA MostPairedIs ==
  ASSUME NEW S, NEW a \in Seq(S), NEW b \in Seq(S)
  PROVE  MostPaired(a, b) = Cardinality(Counter(a) \cap Counter(b))
<1> DEFINE sizes == {Cardinality(DOMAIN p) : p \in Pairings(a, b)}
           n == Cardinality(Counter(a) \cap Counter(b))
<1>1. n \in Nat
  BY CounterSize, FS_Intersection, FS_CardinalityType
<1>2. n \in sizes
  BY CommonArePaired
<1>3. \A m \in sizes : m \in Nat /\ m <= n
  BY PairedAreCommon, FS_CardinalityType
<1>4. MostPaired(a, b) = Max(sizes)
  BY DEF MostPaired
<1> HIDE DEF sizes, n
<1>5. Max(sizes) = n
  <2> DEFINE Greatest(x) == \A y \in sizes : x >= y
  <2>1. Greatest(n)
    BY <1>1, <1>3
  <2>2. \A x \in sizes : Greatest(x) => x = n
    BY <1>1, <1>2, <1>3
  <2>3. Max(sizes) = CHOOSE x \in sizes : Greatest(x)
    BY DEF Max
  <2> HIDE DEF Greatest
  <2> QED BY <1>2, <2>1, <2>2, <2>3
<1> QED BY <1>4, <1>5 DEF n

\* What a comparison tells of two lists of errors.
LEMMA DiffIs ==
  ASSUME NEW S, NEW pre, NEW post, Errors(pre) \in Seq(S), Errors(post) \in Seq(S)
  PROVE  LET a == Errors(pre)
             b == Errors(post)
         IN /\ Diff(pre, post).introduced = Len(b) - MostPaired(b, a)
            /\ Diff(pre, post).resolved = Len(a) - MostPaired(b, a)
            /\ Total(Diff(pre, post).ofRule) = Diff(pre, post).introduced
<1> DEFINE a == Errors(pre)
           b == Errors(post)
           introduced == Counter(b) \ Counter(a)
           rules == {copy[1].rule : copy \in introduced}
           ofRule == [r \in rules |-> Cardinality({copy \in introduced : copy[1].rule = r})]
<1>1. /\ Diff(pre, post).introduced = Cardinality(introduced)
      /\ Diff(pre, post).resolved = Cardinality(Counter(a) \ Counter(b))
      /\ Diff(pre, post).ofRule = ofRule
  BY DEF Diff
<1>2. a \in Seq(S) /\ b \in Seq(S)
  OBVIOUS
<1> HIDE DEF a, b
<1>3. /\ IsFiniteSet(Counter(a)) /\ Cardinality(Counter(a)) = Len(a)
      /\ IsFiniteSet(Counter(b)) /\ Cardinality(Counter(b)) = Len(b)
  BY <1>2, CounterSize
<1>4. MostPaired(b, a) = Cardinality(Counter(b) \cap Counter(a))
  BY <1>2, MostPairedIs
<1>5. IsFiniteSet(introduced) /\ Cardinality(introduced) = Len(b) - MostPaired(b, a)
  BY <1>3, <1>4, FS_Difference
<1>6. Cardinality(Counter(a) \ Counter(b)) = Len(a) - MostPaired(b, a)
  <2>1. Counter(a) \cap Counter(b) = Counter(b) \cap Counter(a)
    OBVIOUS
  <2>2. Cardinality(Counter(a) \ Counter(b))
          = Cardinality(Counter(a)) - Cardinality(Counter(a) \cap Counter(b))
    BY <1>3, FS_Difference
  <2> QED BY <1>3, <1>4, <2>1, <2>2
<1>7. Total(ofRule) = Cardinality(introduced)
  <2> DEFINE g == [copy \in introduced |-> copy[1].rule]
  <2>1. \A copy \in introduced : g[copy] \in rules
    OBVIOUS
  <2>2. ofRule = [r \in rules |-> Cardinality({copy \in introduced : g[copy] = r})]
    <3>1. \A r : {copy \in introduced : copy[1].rule = r} = {copy \in introduced : g[copy] = r}
      OBVIOUS
    <3> HIDE DEF g, introduced
    <3> QED BY <3>1
  <2> HIDE DEF g, introduced, rules, ofRule
  <2> QED BY <1>5, <2>1, <2>2, PartsTotal
<1> QED BY <1>1, <1>5, <1>6, <1>7 DEF a, b

----------------------------------------------------------------------------
(* What the board file holds                                               *)

FileOK == pcb.report \in Seq(Findings) /\ pcb.write \in Nat \ {0}

\* Every report within the bound is a list of findings.
LEMMA ReportsAre == \A report \in Reports : report \in Seq(Findings)
<1>1. \A report \in Reports : \E m \in Nat : report \in [1..m -> Findings]
  BY MaxFindingsAssumption DEF Reports, SeqOf
<1> QED BY <1>1, SeqDef

\* What is kept of a report is a report.
LEMMA KeptAre ==
  ASSUME NEW report \in Seq(Findings)
  PROVE  /\ Errors(report) \in Seq(Findings)
         /\ \A filter : Filtered(report, filter) \in Seq(Findings)
         /\ \A rule : OfRule(report, rule) \in Seq(Findings)
BY AmongCounts DEF Errors, Filtered, OfRule

\* A write leaves a report, and its number is one higher.
LEMMA Rewritten ==
  ASSUME FileOK, Rewrite
  PROVE  FileOK' /\ pcb'.write = pcb.write + 1
<1>1. PICK report \in Reports : pcb' = [write |-> pcb.write + 1, report |-> report]
  BY DEF Rewrite
<1> QED BY <1>1, ReportsAre DEF FileOK

\* The first board has a report.
LEMMA FileOKInit == Init => FileOK
BY ReportsAre DEF Init, FileOK

\* Only a write changes the file.
LEMMA FileOKStep == FileOK /\ [Next]_vars => FileOK'
<1> SUFFICES ASSUME FileOK, [Next]_vars PROVE FileOK'
  OBVIOUS
<1>1. CASE Routing \/ ExternalWrite
  BY <1>1, Rewritten DEF Routing, ExternalWrite
<1>2. CASE UNCHANGED pcb
  BY <1>2 DEF FileOK
<1> QED BY <1>1, <1>2 DEF Next, vars, Begin, Gate, Output, List, DrcBefore, DrcAfter,
                          AskSummary, AskPage

----------------------------------------------------------------------------
(* The comparison of the DRCs of a routing                                 *)

\* An export compares nothing; a routing that ends well has compared the DRC it
\* began with and the one it ends with.
DiffOK ==
  /\ call.pre \in Seq(Findings) /\ call.post \in Seq(Findings)
  /\ call.todo \in Exports => call.pre = <<>> /\ call.post = <<>> /\ call.diff = NoDiff
  /\ call.todo = <<>> /\ call.reply = "OK" => call.diff = Diff(call.pre, call.post)

DiffInv == FabInv /\ FileOK /\ DiffOK

\* On the way from one DRC to the other nothing that was compared changes.
LEMMA DiffGoesOn ==
  ASSUME CallOK, Running, DiffOK, Continue \/ call' = [call EXCEPT !.alone = FALSE]
  PROVE  DiffOK'
<1>1. /\ call'.pre = call.pre /\ call'.post = call.post /\ call'.diff = call.diff
      /\ call'.reply = call.reply /\ call'.todo \in {call.todo, Tail(call.todo)}
  BY DEF CallOK, Continue, Fields
<1>2. call.todo # <<>> /\ call.reply = "none"
  BY DEF CallOK, Running
<1>3. call'.todo \in Exports => call.todo \in Exports
  <2>1. CASE call.todo \in Exports
    BY <2>1
  <2>2. CASE call.todo \in RouteRest
    <3>0. Tail(<<"drcAfter">>) = <<>>
      OBVIOUS
    <3>1. Tail(call.todo) \in RouteRest \cup {<<>>}
      BY <2>2, <3>0, Places DEF RouteRest
    <3>2. call'.todo \in RouteRest \cup {<<>>}
      BY <1>1, <2>2, <3>1
    <3> QED BY <3>2, Places
  <2> QED BY <1>2, <2>1, <2>2 DEF CallOK
<1> QED BY <1>1, <1>2, <1>3 DEF DiffOK

\* A call that ends with an error compares nothing.
LEMMA DiffStops ==
  ASSUME CallOK, DiffOK, NEW code, code # "OK", Fail(code)
  PROVE  DiffOK'
<1>1. /\ call'.pre = call.pre /\ call'.post = call.post /\ call'.todo = <<>> /\ call'.reply = code
  BY DEF CallOK, Fail, Return, Fields
<1> QED BY <1>1, Places DEF DiffOK

\* There is no call yet.
LEMMA DiffOKInit == Init => DiffOK
<1> SUFFICES ASSUME Init PROVE DiffOK
  OBVIOUS
<1>1. /\ call.pre = <<>> /\ call.post = <<>> /\ call.todo = <<>> /\ call.reply = "none"
  BY DEF Init, Idle
<1> QED BY <1>1, Places DEF DiffOK

\* The first DRC is kept to the second, which makes the comparison.
LEMMA DiffOKStep == DiffInv /\ [Next]_vars => DiffOK'
<1> SUFFICES ASSUME CallOK, FileOK, DiffOK, [Next]_vars PROVE DiffOK'
  BY DEF DiffInv, FabInv
<1>1. CASE Begin
  <2>1. PICK steps \in {ExportManufacturing, RouteDrc} : call' = [Idle("none") EXCEPT !.todo = steps]
    BY <1>1 DEF Begin
  <2>2. /\ call'.pre = <<>> /\ call'.post = <<>> /\ call'.diff = NoDiff
        /\ call'.reply = "none"
    BY <2>1 DEF Idle
  <2> QED BY <2>2 DEF DiffOK
<1>2. CASE Gate
  BY <1>2, DiffGoesOn, DiffStops DEF Gate, Doing, MayFail
<1>3. ASSUME NEW file \in Outputs, Output(file) PROVE DiffOK'
  BY <1>3, DiffGoesOn, DiffStops DEF Output, Doing, MayFail
<1>4. CASE List
  <2>1. call.todo \in Exports
    <3>1. call.todo = Listing
      BY <1>4, Places DEF CallOK, List, Doing, Running
    <3> QED BY <3>1 DEF Exports
  <2>2. /\ call'.pre = call.pre /\ call'.post = call.post /\ call'.diff = call.diff
        /\ call'.todo = <<>>
    BY <1>4 DEF CallOK, List, Return, Fields
  <2> QED BY <2>1, <2>2, Places DEF DiffOK, NoDiff
<1>5. CASE DrcBefore /\ call' = [call EXCEPT !.todo = Tail(@), !.pre = pcb.report]
  <2>1. call.todo = RouteDrc
    BY <1>5, Places DEF CallOK, DrcBefore, Doing, Running
  <2>2. /\ call'.pre = pcb.report /\ call'.post = call.post /\ call'.todo = Tail(call.todo)
    BY <1>5 DEF CallOK, Fields
  <2>3. call'.todo \in RouteRest
    BY <2>1, <2>2, Places DEF RouteRest
  <2> QED BY <2>2, <2>3, Places DEF DiffOK, FileOK
<1>6. CASE DrcBefore /\ MayFail
  BY <1>6, DiffStops DEF MayFail
<1>7. CASE Routing
  BY <1>7, DiffGoesOn DEF Routing, Doing
<1>8. CASE DrcAfter
  <2>1. CASE MayFail
    BY <2>1, DiffStops DEF MayFail
  <2>2. CASE Return([call EXCEPT !.reply = "OK", !.post = pcb.report,
                                 !.diff = Diff(call.pre, pcb.report)])
    <3>1. /\ call'.pre = call.pre /\ call'.post = pcb.report /\ call'.todo = <<>>
          /\ call'.diff = Diff(call.pre, pcb.report)
      BY <2>2 DEF CallOK, Return, Fields
    <3> QED BY <3>1, Places DEF DiffOK, FileOK
  <2> QED BY <1>8, <2>1, <2>2 DEF DrcAfter
<1>9. CASE ExternalWrite
  <2>1. /\ call'.pre = call.pre /\ call'.post = call.post /\ call'.diff = call.diff
        /\ call'.todo = call.todo /\ call'.reply = call.reply
    BY <1>9 DEF CallOK, ExternalWrite, Fields
  <2> QED BY <2>1 DEF DiffOK
<1>10. CASE AskSummary \/ AskPage \/ UNCHANGED vars
  BY <1>10 DEF AskSummary, AskPage, vars, DiffOK
<1> QED BY <1>1, <1>2, <1>3, <1>4, <1>5, <1>6, <1>7, <1>8, <1>9, <1>10 DEF Next, DrcBefore

\* F-D3-03: for any reports, and whoever writes the board during a routing, the
\* errors it is said to introduce and to resolve are those left alone when the
\* errors before and after are paired off by identity, and the types add up.
THEOREM IntroducedAreThose == Spec => []IntroducedAreNew
<1>1. Init => DiffInv
  BY FabInvInit, FileOKInit, DiffOKInit DEF DiffInv
<1>2. DiffInv /\ [Next]_vars => DiffInv'
  BY FabInvStep, FileOKStep, DiffOKStep DEF DiffInv
<1>3. DiffInv => IntroducedAreNew
  <2> SUFFICES ASSUME DiffInv, call.reply = "OK" PROVE IntroducedAreNew
    BY DEF IntroducedAreNew
  <2>1. call.diff = Diff(call.pre, call.post)
    BY DEF DiffInv, FabInv, CallOK, DiffOK
  <2>2. Errors(call.pre) \in Seq(Findings) /\ Errors(call.post) \in Seq(Findings)
    BY KeptAre DEF DiffInv, DiffOK
  <2> QED BY <2>1, <2>2, DiffIs DEF IntroducedAreNew
<1> QED BY <1>1, <1>2, <1>3, PTL DEF Spec

----------------------------------------------------------------------------
(* Pages                                                                   *)

ReaderFields == {"filter", "counts", "got", "left", "offset", "report", "write", "same"}

\* A type of which the agent has read the first pages and goes on to the next.
Underway(r) ==
  LET of == OfRule(reader.report, r)
  IN reader.offset \in 1..Len(of) - 1 /\ reader.got[r] = SubSeq(of, 1, reader.offset)

\* While the file stays the same the agent has read whole types, the beginning
\* of at most one, and nothing of the others.
PagesSoFar ==
  /\ reader.report \in Seq(Findings)
  /\ reader.counts = ByType(reader.report)
  /\ reader.got = [r \in RulesIn(reader.report) |-> reader.got[r]]
  /\ reader.left \subseteq RulesIn(reader.report) /\ reader.offset \in Nat
  /\ pcb.write = reader.write => Filtered(pcb.report, reader.filter) = reader.report
  /\ \A r \in RulesIn(reader.report) \ reader.left : reader.got[r] = OfRule(reader.report, r)
  /\ \A r \in reader.left : reader.got[r] = <<>> \/ Underway(r)
  /\ \A r, q \in reader.left : reader.got[r] # <<>> /\ reader.got[q] # <<>> => r = q

ReaderOK ==
  /\ reader = [x \in ReaderFields |-> reader[x]]
  /\ reader.write \in Nat /\ reader.write <= pcb.write
  /\ reader.same => PagesSoFar

PageInv == FileOK /\ ReaderOK

\* Nothing has been read of a report that is empty.
LEMMA ReaderOKInit == Init => ReaderOK
<1> SUFFICES ASSUME Init PROVE ReaderOK
  OBVIOUS
<1>1. reader = NotReading /\ pcb.write = 1
  BY DEF Init
<1>2. RulesIn(<<>>) = {}
  BY DEF RulesIn, ToSet
<1>3. /\ reader = [x \in ReaderFields |-> reader[x]] /\ reader.write = 0 /\ reader.offset = 0
      /\ reader.report = <<>> /\ reader.left = {}
      /\ reader.counts = [r \in {} |-> 0] /\ reader.got = [r \in {} |-> <<>>]
  BY <1>1 DEF NotReading, ReaderFields
<1>4. reader.counts = ByType(reader.report)
  BY <1>2, <1>3 DEF ByType
<1>5. reader.report \in Seq(Findings)
  BY <1>3, EmptySeq
<1>6. pcb.write # reader.write
  BY <1>1, <1>3
<1>7. PagesSoFar
  <2>1. RulesIn(reader.report) = {}
    BY <1>2, <1>3
  <2>2. reader.got = [r \in RulesIn(reader.report) |-> reader.got[r]]
    BY <1>3, <2>1
  <2>3. reader.left \subseteq RulesIn(reader.report) /\ reader.offset \in Nat
    BY <1>3
  <2>4. \A r : r \notin RulesIn(reader.report) /\ r \notin reader.left
    BY <1>3, <2>1
  <2> QED BY <1>4, <1>5, <1>6, <2>2, <2>3, <2>4 DEF PagesSoFar
<1> QED BY <1>1, <1>3, <1>7 DEF ReaderOK

\* A summary names the types of the report, none of which is read.
LEMMA SummaryStarts ==
  ASSUME PageInv, AskSummary
  PROVE  ReaderOK'
<1>1. PICK filter \in Filters :
        LET report == Filtered(pcb.report, filter)
        IN reader' = [NotReading EXCEPT
                        !.filter = filter, !.counts = ByType(report), !.left = RulesIn(report),
                        !.got = [r \in RulesIn(report) |-> <<>>],
                        !.report = report, !.write = pcb.write]
  BY DEF AskSummary
<1> DEFINE report == Filtered(pcb.report, filter)
<1>2. /\ reader' = [x \in ReaderFields |-> reader'[x]]
      /\ reader'.filter = filter /\ reader'.counts = ByType(report)
      /\ reader'.left = RulesIn(report) /\ reader'.got = [r \in RulesIn(report) |-> <<>>]
      /\ reader'.offset = 0 /\ reader'.report = report /\ reader'.write = pcb.write
  BY <1>1 DEF NotReading, ReaderFields
<1>3. pcb' = pcb /\ pcb.write \in Nat
  BY DEF AskSummary, PageInv, FileOK
<1>4. report \in Seq(Findings)
  BY KeptAre DEF PageInv, FileOK
<1>5. Filtered(pcb'.report, reader'.filter) = report
  BY <1>2, <1>3
<1> HIDE DEF report
<1> QED BY <1>2, <1>3, <1>4, <1>5 DEF ReaderOK, PagesSoFar

\* A page goes on where the last one ended, and the last page of a type ends
\* with its last violation; if the file is another, nothing is claimed.
LEMMA PageAdds ==
  ASSUME PageInv, AskPage
  PROVE  ReaderOK'
<1>1. PICK rule \in reader.left :
        LET page == Page(Filtered(pcb.report, reader.filter), rule, reader.offset)
        IN /\ reader.offset = 0 \/ reader.got[rule] # <<>>
           /\ reader' = [reader EXCEPT
                           !.got[rule] = @ \o page.found,
                           !.offset = IF page.more THEN @ + Limit ELSE 0,
                           !.left = IF page.more THEN @ ELSE @ \ {rule},
                           !.same = @ /\ pcb.write = reader.write]
  BY DEF AskPage
<1> DEFINE page == Page(Filtered(pcb.report, reader.filter), rule, reader.offset)
<1>2. /\ reader' = [x \in ReaderFields |-> reader'[x]]
      /\ reader'.filter = reader.filter /\ reader'.counts = reader.counts
      /\ reader'.report = reader.report /\ reader'.write = reader.write
      /\ reader'.got = [reader.got EXCEPT ![rule] = @ \o page.found]
      /\ reader'.offset = IF page.more THEN reader.offset + Limit ELSE 0
      /\ reader'.left = IF page.more THEN reader.left ELSE reader.left \ {rule}
      /\ reader'.same <=> reader.same /\ pcb.write = reader.write
  <2> HIDE DEF page
  <2> QED BY <1>1 DEF PageInv, ReaderOK, ReaderFields, page
<1>3. pcb' = pcb /\ reader.write \in Nat /\ reader.write <= pcb.write
  BY DEF AskPage, PageInv, ReaderOK
<1> SUFFICES ASSUME reader.same, pcb.write = reader.write
             PROVE  PagesSoFar'
  BY <1>2, <1>3 DEF ReaderOK
<1>4. PagesSoFar /\ Filtered(pcb.report, reader.filter) = reader.report
  BY DEF PageInv, ReaderOK, PagesSoFar
<1> DEFINE of == OfRule(reader.report, rule)
           offset == reader.offset
           end == IF offset + Limit < Len(of) THEN offset + Limit ELSE Len(of)
<1>5. of \in Seq(Findings) /\ Len(of) \in Nat /\ offset \in Nat /\ Limit \in Nat \ {0}
  BY <1>4, KeptAre, LenProperties, LimitAssumption DEF PagesSoFar
<1>6. page.found = SubSeq(of, offset + 1, end) /\ (page.more <=> offset + Limit < Len(of))
  BY <1>4 DEF Page, MoreAfter
<1>6a. offset = 0 => \A r : ~Underway(r)
  BY DEF Underway
<1>7. reader.got[rule] = SubSeq(of, 1, offset) /\ offset <= Len(of)
  <2>1. CASE offset = 0
    <3>1. reader.got[rule] = <<>>
      <4> HIDE DEF offset
      <4> QED BY <1>6a, <1>4, <2>1 DEF PagesSoFar
    <3>2. SubSeq(of, 1, 0) = <<>>
      BY SubSeqEmpty
    <3> QED BY <1>5, <2>1, <3>1, <3>2
  <2>2. CASE offset # 0
    <3>1. Underway(rule)
      BY <1>1, <1>4, <2>2 DEF PagesSoFar
    <3> QED BY <1>5, <3>1 DEF Underway
  <2> QED BY <2>1, <2>2
<1>8. \A r \in reader.left \ {rule} : reader.got[r] = <<>>
  <2>1. CASE offset = 0
    <3> HIDE DEF offset
    <3> QED BY <1>6a, <1>4, <2>1 DEF PagesSoFar
  <2>2. CASE offset # 0
    BY <1>1, <1>4, <2>2 DEF PagesSoFar
  <2> QED BY <2>1, <2>2
<1> HIDE DEF page, of, offset
<1>9. end \in offset..Len(of) /\ end \in Nat /\ (page.more => end \in 1..Len(of) - 1)
      /\ (~page.more => end = Len(of)) /\ (page.more => end = offset + Limit)
  BY <1>5, <1>6, <1>7
<1> HIDE DEF end
<1>10. reader'.got[rule] = SubSeq(of, 1, end)
  <2>1. rule \in DOMAIN reader.got
    BY <1>4 DEF PagesSoFar
  <2>2. reader'.got[rule] = reader.got[rule] \o page.found
    BY <1>2, <2>1
  <2>3. SubSeq(of, 1, offset) \o SubSeq(of, offset + 1, end) = SubSeq(of, 1, end)
    <3>1. 1 \in 1..Len(of) + 1 /\ offset \in 1 - 1..Len(of) /\ end \in offset..Len(of)
      BY <1>5, <1>7, <1>9
    <3> QED BY <1>5, <3>1, ConcatAdjacentSubSeq
  <2> QED BY <1>6, <1>7, <2>2, <2>3
<1>11. \A r \in RulesIn(reader.report) \ {rule} : reader'.got[r] = reader.got[r]
  BY <1>2, <1>4 DEF PagesSoFar
<1>12. /\ reader'.got = [r \in RulesIn(reader.report) |-> reader'.got[r]]
       /\ rule \in RulesIn(reader.report)
  BY <1>2, <1>4 DEF PagesSoFar
\* What a page leaves as it was.
<1>12a. /\ reader'.report = reader.report /\ reader'.report \in Seq(Findings)
      /\ reader'.counts = ByType(reader'.report)
      /\ reader'.got = [r \in RulesIn(reader'.report) |-> reader'.got[r]]
      /\ reader'.left \subseteq reader.left /\ reader.left \subseteq RulesIn(reader'.report)
      /\ reader'.offset \in Nat
      /\ Filtered(pcb'.report, reader'.filter) = reader'.report
  <2>1. reader'.offset \in Nat
    BY <1>2, <1>5 DEF offset
  <2>2. reader'.left \subseteq reader.left
    BY <1>2
  <2> QED BY <1>2, <1>3, <1>4, <1>12, <2>1, <2>2 DEF PagesSoFar
<1>13. CASE page.more
  <2>1. reader'.offset = end /\ reader'.left = reader.left
    BY <1>2, <1>9, <1>13 DEF offset
  <2>2. Underway(rule)'
    BY <1>2, <1>9, <1>10, <1>13, <2>1 DEF Underway, of
  <2>3. \A r \in RulesIn(reader.report) \ reader.left : reader'.got[r] = OfRule(reader.report, r)
    BY <1>4, <1>11 DEF PagesSoFar
  <2>4. \A r \in reader.left \ {rule} : reader'.got[r] = <<>>
    BY <1>4, <1>8, <1>11 DEF PagesSoFar
  <2> QED BY <1>12a, <2>1, <2>2, <2>3, <2>4 DEF PagesSoFar
<1>14. CASE ~page.more
  <2>1. reader'.got[rule] = of
    BY <1>5, <1>9, <1>10, <1>14, SubSeqFull
  <2>2. reader'.offset = 0 /\ reader'.left = reader.left \ {rule}
    BY <1>2, <1>14
  <2>3. \A r \in RulesIn(reader.report) \ (reader.left \ {rule}) :
          reader'.got[r] = OfRule(reader.report, r)
    BY <1>4, <1>11, <2>1 DEF PagesSoFar, of
  <2>4. \A r \in reader.left \ {rule} : reader'.got[r] = <<>>
    BY <1>4, <1>8, <1>11 DEF PagesSoFar
  <2> QED BY <1>12a, <2>2, <2>3, <2>4 DEF PagesSoFar
<1> QED BY <1>13, <1>14

\* A write makes the file another one than the one that is being read.
LEMMA ReaderOKStep == PageInv /\ [Next]_vars => ReaderOK'
<1> SUFFICES ASSUME PageInv, [Next]_vars PROVE ReaderOK'
  OBVIOUS
<1>1. CASE Routing \/ ExternalWrite
  <2>1. reader' = reader /\ pcb'.write = pcb.write + 1
    BY <1>1, Rewritten DEF PageInv, Routing, ExternalWrite
  <2>2. /\ reader.write \in Nat /\ pcb.write \in Nat /\ reader.write <= pcb.write
        /\ reader = [x \in ReaderFields |-> reader[x]] /\ (reader.same => PagesSoFar)
    BY DEF PageInv, FileOK, ReaderOK
  <2>3. pcb'.write # reader.write /\ reader.write <= pcb'.write
    BY <2>1, <2>2
  <2>4. PagesSoFar => PagesSoFar'
    BY <2>1, <2>3 DEF PagesSoFar, Underway
  <2> QED BY <2>1, <2>2, <2>3, <2>4 DEF ReaderOK
<1>2. CASE AskSummary
  BY <1>2, SummaryStarts
<1>3. CASE AskPage
  BY <1>3, PageAdds
<1>4. CASE UNCHANGED <<pcb, reader>>
  BY <1>4 DEF PageInv, ReaderOK, PagesSoFar, Underway
<1> QED BY <1>1, <1>2, <1>3, <1>4
        DEF Next, vars, Begin, Gate, Output, List, DrcBefore, DrcAfter

\* The types of a report divide its findings.
LEMMA TypesAddUp ==
  ASSUME NEW report \in Seq(Findings)
  PROVE  Total(ByType(report)) = Len(report)
<1> DEFINE g == [i \in DOMAIN report |-> report[i].rule]
<1>1. \A i \in DOMAIN report : report[i] \in Findings /\ g[i] \in RulesIn(report)
  BY LenProperties DEF RulesIn, ToSet
<1>2. ASSUME NEW r
      PROVE  Len(OfRule(report, r)) = Cardinality({i \in DOMAIN report : g[i] = r})
  <2>1. {i \in DOMAIN report : report[i] \in {f \in Findings : f.rule = r}}
          = {i \in DOMAIN report : g[i] = r}
    BY <1>1
  <2>2. Len(Among(report, {f \in Findings : f.rule = r}))
          = Cardinality({i \in DOMAIN report : report[i] \in {f \in Findings : f.rule = r}})
    BY AmongCounts
  <2> HIDE DEF g
  <2> QED BY <2>1, <2>2 DEF OfRule
<1> HIDE DEF g
<1>3. ByType(report) = [r \in RulesIn(report) |-> Cardinality({i \in DOMAIN report : g[i] = r})]
  BY <1>2 DEF ByType
<1>4. IsFiniteSet(DOMAIN report) /\ Cardinality(DOMAIN report) = Len(report)
  BY OfIs
<1> DEFINE R == RulesIn(report)
           I == DOMAIN report
<1>5. Total([r \in R |-> Cardinality({i \in I : g[i] = r})]) = Cardinality(I)
  <2>1. IsFiniteSet(I) /\ \A i \in I : g[i] \in R
    BY <1>1, <1>4
  <2> HIDE DEF R, I
  <2> QED BY <2>1, PartsTotal
<1> QED BY <1>3, <1>4, <1>5

\* D-12.6: for any page size, filter and report, and whoever writes the board
\* between two calls, an agent that follows the hints on one and the same file
\* has read every violation once, type by type, as many as the summary said.
THEOREM PagesMakeReport == Spec => []PagesTellReport
<1>1. Init => PageInv
  BY FileOKInit, ReaderOKInit DEF PageInv
<1>2. PageInv /\ [Next]_vars => PageInv'
  BY FileOKStep, ReaderOKStep DEF PageInv
<1>3. PageInv => PagesTellReport
  <2> SUFFICES ASSUME PagesSoFar, reader.left = {} PROVE PagesTellReport
    BY DEF PagesTellReport, PageInv, ReaderOK
  <2>1. DOMAIN reader.got = RulesIn(reader.report) /\ DOMAIN reader.counts = RulesIn(reader.report)
    BY DEF PagesSoFar, ByType
  <2>2. \A r \in DOMAIN reader.got : /\ reader.got[r] = OfRule(reader.report, r)
                                     /\ reader.counts[r] = Len(OfRule(reader.report, r))
    BY <2>1 DEF PagesSoFar, ByType
  <2>3. Total(reader.counts) = Len(reader.report)
    BY TypesAddUp DEF PagesSoFar
  <2> QED BY <2>1, <2>2, <2>3 DEF PagesTellReport
<1> QED BY <1>1, <1>2, <1>3, PTL DEF Spec

----------------------------------------------------------------------------
(* The autorouter round trip (module Autoroute): although nobody clears    *)
(* the directory that the subprocesses share, what a run installs is what  *)
(* it has routed itself.                                                   *)

RunTypeOK ==
  /\ board \in Nat /\ boards \in Nat /\ run \in Nat /\ exported \in Nat
  /\ step \in {"idle", "export", "inject", "freerouting", "present", "import",
               "counts", "replace"}
  /\ alone \in BOOLEAN /\ silent \in BOOLEAN

\* Each step finds the files that the step before it of the same run has left;
\* only a silent router makes it take an older SES for the one of this run.
HandOver ==
  /\ step \in {"inject", "freerouting"} => dsn \in [of : {exported}, classes : Nat]
  /\ ~silent /\ step \in {"present", "import"} => ses.of = exported /\ ses.by = run
  /\ ~silent /\ step \in {"counts", "replace"} => routed.of = exported /\ routed.by = run

\* Until somebody else writes the board it stays as the run has exported it.
SameBoard ==
  alone =>
    /\ step \notin {"idle", "export"} => board = exported
    /\ step \in {"counts", "replace"} => routed.over = exported

RunInv == RunTypeOK /\ HandOver /\ SameBoard

\* No run has begun, and nobody has written the board.
LEMMA InitRun == TripInit => RunInv
<1> SUFFICES ASSUME TripInit PROVE RunInv
  OBVIOUS
<1>1. alone \in BOOLEAN /\ silent \in BOOLEAN
  BY Zenon DEF TripInit
<1>2. board = 1 /\ boards = 1 /\ step = "idle" /\ run = 0 /\ exported = 0
  BY DEF TripInit
<1> QED BY <1>1, <1>2 DEF RunInv, RunTypeOK, HandOver, SameBoard

\* Each step hands the files it has made over to the next one.
LEMMA StepRun == RunInv /\ [TripNext]_tripVars => RunInv'
<1> SUFFICES ASSUME RunTypeOK, HandOver, SameBoard, [TripNext]_tripVars PROVE RunInv'
  BY DEF RunInv
<1> USE DEF RunInv, RunTypeOK, At, GoTo, Abort, files
<1>1. CASE BeginRun
  <2>1. alone' \in BOOLEAN /\ silent' \in BOOLEAN
    BY <1>1, Zenon DEF BeginRun
  <2>2. /\ UNCHANGED <<board, boards, exported>>
        /\ step' = "export" /\ run' \in Nat
    BY <1>1 DEF BeginRun
  <2> QED BY <2>1, <2>2 DEF HandOver, SameBoard
<1>2. CASE Export
  BY <1>2 DEF Export, HandOver, SameBoard
<1>3. CASE ExportFails \/ ImportFails
  BY <1>3 DEF ExportFails, ImportFails, HandOver, SameBoard
<1>4. CASE Inject
  <2>1. dsn' \in [of : {exported}, classes : Nat]
    BY <1>4 DEF Inject, HandOver
  <2> QED BY <1>4, <2>1 DEF Inject, HandOver, SameBoard
<1>5. CASE Freerouting
  <2>1. ses'.of = exported /\ ses'.by = run
    BY <1>5 DEF Freerouting, HandOver
  <2> QED BY <1>5, <2>1 DEF Freerouting, HandOver, SameBoard
<1>6. CASE FreeroutingSilent
  BY <1>6 DEF FreeroutingSilent, HandOver, SameBoard
<1>7. CASE FreeroutingTimeout
  BY <1>7 DEF FreeroutingTimeout, HandOver, SameBoard
<1>8. CASE SesPresent
  BY <1>8 DEF SesPresent, HandOver, SameBoard
<1>9. CASE Import
  <2>1. routed'.of = ses.of /\ routed'.by = ses.by /\ routed'.over = board
    BY <1>9 DEF Import
  <2> QED BY <1>9, <2>1 DEF Import, HandOver, SameBoard
<1>10. CASE Counts
  BY <1>10 DEF Counts, HandOver, SameBoard
<1>11. CASE Replace
  BY <1>11 DEF Replace, HandOver, SameBoard
<1>12. CASE WriteBoard
  <2>1. alone' = FALSE /\ alone' \in BOOLEAN
    BY <1>12, Zenon DEF WriteBoard
  <2>2. /\ board' \in Nat /\ boards' \in Nat
        /\ UNCHANGED <<dsn, ses, routed, step, run, exported, silent>>
    BY <1>12 DEF WriteBoard
  <2> QED BY <2>1, <2>2 DEF HandOver, SameBoard
<1>13. CASE UNCHANGED tripVars
  BY <1>13 DEF tripVars, HandOver, SameBoard
<1> QED BY <1>1, <1>2, <1>3, <1>4, <1>5, <1>6, <1>7, <1>8, <1>9, <1>10, <1>11, <1>12, <1>13
        DEF TripNext, RunStep

\* The invariant of the round trip, over its runs and whatever happens between
\* the subprocesses.
THEOREM RunInvariant == TripSpec => []RunInv
BY InitRun, StepRun, PTL DEF TripSpec

\* What replaces the board was exported, routed and imported by this run, and
\* over the board it has exported if nobody wrote it meanwhile.
THEOREM OwnRouting == TripSpec => InstallsItsOwnRouting
<1>1. RunInv /\ [TripNext]_tripVars =>
        [Replace /\ ~silent => /\ routed.by = run /\ routed.of = exported
                               /\ alone => routed.over = exported]_tripVars
  BY DEF RunInv, HandOver, SameBoard, Replace, At
<1> QED BY <1>1, RunInvariant, PTL DEF TripSpec, InstallsItsOwnRouting
=============================================================================
