---------------------------- MODULE Fabrication ----------------------------
(***************************************************************************)
(* Everything that depends on a DRC of the board file: run_drc, summarised *)
(* and then read page by page (tools/validate.py), export_manufacturing    *)
(* behind gate G3 (tools/export.py, gates/g3.py) and the comparison of the *)
(* DRC before and after a routing (bridge/rules.py diff_violations, called *)
(* by route_board).  Each runs kicad-cli anew on whatever the file then    *)
(* is, and other programs write the file between any two runs.             *)
(*                                                                         *)
(* The board file is the list of violations kicad-cli finds in it, in the  *)
(* order it reports them, which only the file determines.                  *)
(***************************************************************************)
EXTENDS Integers, Sequences, SequencesExt, FiniteSetsExt

CONSTANTS
  Findings,      \* what kicad-cli may find: rule, severity, where
  MaxFindings,   \* bound: findings in a board
  Limit,         \* the page size the agent asks for
  Filters,       \* what it filters by: least severity, excluded types
  World,         \* "external", "failures": what happens around the server
  MaxWrites      \* bound: writes of the board file

ASSUME LimitAssumption == Limit \in Nat \ {0}
ASSUME MaxFindingsAssumption == MaxFindings \in Nat

VARIABLES
  pcb,     \* the board file: which write made it, and what is wrong with it
  fab,     \* [files in the output directory -> write of the board they show]
  call,    \* the tool call in progress, or the reply of the last one
  reader   \* the agent, reading a DRC

vars == <<pcb, fab, call, reader>>

Reports == SeqOf(Findings, MaxFindings)
Outputs == {"gerbers", "drill"}

----------------------------------------------------------------------------
(* Reports (bridge/rules.py)                                               *)

\* The findings of a report that are to be kept, in its order.
Among(report, kept) ==
  LET among[n \in 0..Len(report)] ==
        IF n = 0 THEN <<>>
        ELSE IF report[n] \in kept THEN Append(among[n - 1], report[n]) ELSE among[n - 1]
  IN among[Len(report)]

\* A finding without a severity is a warning, an unconnected item included.
Severity(f) == IF f.severity = "unset" THEN "warning" ELSE f.severity
SeverityOrder == [exclusion |-> 0, info |-> 1, warning |-> 2, error |-> 3]
Rank(severity) ==
  IF severity \in DOMAIN SeverityOrder THEN SeverityOrder[severity] ELSE 0

\* _filter_drc over filter_by_min_severity.
Filtered(report, filter) ==
  Among(report, {f \in Findings : /\ Rank(Severity(f)) >= Rank(filter.least)
                                  /\ f.rule \notin filter.without})

OfRule(report, rule) == Among(report, {f \in Findings : f.rule = rule})
RulesIn(report) == {f.rule : f \in ToSet(report)}

IsError(f) == Severity(f) = "error"
Errors(report) == Among(report, {f \in Findings : IsError(f)})

\* _violation_identity: the rule, the place to 0.1 mm, and the items.
Identity(f) == [rule |-> f.rule, at |-> f.where]
Count(report, id) == Cardinality({i \in DOMAIN report : Identity(report[i]) = id})

\* collections.Counter: the k-th finding of an identity is <<identity, k>>, so
\* that a difference of Counters is one of sets.
Counter(report) ==
  UNION {{id} \X (1..Count(report, id)) : id \in {Identity(f) : f \in ToSet(report)}}

\* Faulty: F-D3-03, the difference of the totals.
DiffTotals(pre, post) ==
  LET more == Len(Errors(post)) - Len(Errors(pre)) IN
  [introduced |-> IF more > 0 THEN more ELSE 0,
   resolved |-> IF more < 0 THEN -more ELSE 0,
   ofRule |-> [r \in RulesIn(Errors(post)) |-> Len(OfRule(Errors(post), r))]]

\* diff_violations
Diff(pre, post) ==
  LET preIds == Counter(Errors(pre))
      postIds == Counter(Errors(post))
      introduced == postIds \ preIds
      OfRuleOnly(r) == {copy \in introduced : copy[1].rule = r}
  IN [introduced |-> Cardinality(introduced),
      resolved |-> Cardinality(preIds \ postIds),
      ofRule |-> [r \in {copy[1].rule : copy \in introduced} |-> Cardinality(OfRuleOnly(r))]]

NoDiff == Diff(<<>>, <<>>)

----------------------------------------------------------------------------
(* The tools, as the steps each handler takes                              *)

\* Faulty: the gate is asked once the files are there.
ExportGateLast == <<"gerbers", "drill", "gate", "list">>

ExportManufacturing == <<"gate", "gerbers", "drill", "list">>

\* The part of route_board that is about the DRC.
RouteDrc == <<"drcBefore", "routing", "drcAfter">>

\* A call: its steps left, the report of the DRC before the routing, and what
\* the reply tells.  Ghosts: the output directory when it began, the report of
\* the DRC after, and whether nobody else wrote the board meanwhile.
Idle(reply) ==
  [todo |-> <<>>, pre |-> <<>>, reply |-> reply, files |-> {}, diff |-> NoDiff,
   fabBefore |-> fab, post |-> <<>>, alone |-> TRUE]

Running == call.todo # <<>>
Doing(step) == Running /\ Head(call.todo) = step
Return(result) == call' = [result EXCEPT !.todo = <<>>]
Fail(code) == Return([call EXCEPT !.reply = code])
Continue == call' = [call EXCEPT !.todo = Tail(@)]
MayFail == "failures" \in World /\ Fail("FAILED")

Begin ==
  /\ ~Running
  /\ pcb.write < MaxWrites
  /\ \E steps \in {ExportManufacturing, RouteDrc} :
       call' = [Idle("none") EXCEPT !.todo = steps]
  /\ UNCHANGED <<pcb, fab, reader>>

\* check_drc_clean
Gate ==
  /\ Doing("gate")
  /\ \/ Errors(pcb.report) = <<>> /\ Continue
     \/ Errors(pcb.report) # <<>> /\ Fail("EXPORT_BLOCKED_BY_DRC")
     \/ MayFail
  /\ UNCHANGED <<pcb, fab, reader>>

\* kicad-cli writes its files over those of the same name; if it fails, it may
\* have.
Output(file) ==
  LET written == [x \in DOMAIN fab \cup {file} |-> IF x = file THEN pcb.write ELSE fab[x]] IN
  /\ Doing(file)
  /\ \/ Continue /\ fab' = written
     \/ MayFail /\ fab' \in {fab, written}
  /\ UNCHANGED <<pcb, reader>>

\* Every file of the directory is listed, whoever wrote it.
List ==
  /\ Doing("list")
  /\ Return([call EXCEPT !.reply = "OK", !.files = DOMAIN fab])
  /\ UNCHANGED <<pcb, fab, reader>>

DrcBefore ==
  /\ Doing("drcBefore")
  /\ \/ call' = [call EXCEPT !.todo = Tail(@), !.pre = pcb.report]
     \/ MayFail
  /\ UNCHANGED <<pcb, fab, reader>>

Rewrite == \E report \in Reports : pcb' = [write |-> pcb.write + 1, report |-> report]

\* The board comes back routed (RouteBoard has the steps of it).
Routing ==
  /\ Doing("routing")
  /\ Rewrite
  /\ Continue
  /\ UNCHANGED <<fab, reader>>

DrcAfter ==
  /\ Doing("drcAfter")
  /\ \/ Return([call EXCEPT !.reply = "OK", !.post = pcb.report,
                            !.diff = Diff(call.pre, pcb.report)])
     \/ MayFail
  /\ UNCHANGED <<pcb, fab, reader>>

----------------------------------------------------------------------------
(* run_drc: each call is a DRC of its own                                  *)

\* by_type of summarize_drc.
ByType(report) == [r \in RulesIn(report) |-> Len(OfRule(report, r))]

\* Faulty: the hint of one more page comes one violation too late.
MoreAfterNext(offset, total) == offset + Limit + 1 < total

\* paginate_drc_detail: a page of the violations of a type, and whether the
\* hint asks for another.
MoreAfter(offset, total) == offset + Limit < total

Page(report, rule, offset) ==
  LET of == OfRule(report, rule)
      end == IF offset + Limit < Len(of) THEN offset + Limit ELSE Len(of)
  IN [found |-> SubSeq(of, offset + 1, end), more |-> MoreAfter(offset, Len(of))]

\* The agent: the filter it uses, the types it has left to read with the counts
\* the summary gave, what it read of each, and where it is.  Ghosts: the report
\* the summary was of, and whether every page was of that same file.
NotReading ==
  [filter |-> [least |-> "warning", without |-> {}], counts |-> [r \in {} |-> 0],
   got |-> [r \in {} |-> <<>>], left |-> {}, offset |-> 0, report |-> <<>>,
   write |-> 0, same |-> TRUE]

\* run_drc(min_severity, exclude_types)
AskSummary ==
  /\ ~Running
  /\ reader.left = {}
  /\ \E filter \in Filters :
       LET report == Filtered(pcb.report, filter) IN
       reader' = [NotReading EXCEPT
                    !.filter = filter, !.counts = ByType(report), !.left = RulesIn(report),
                    !.got = [r \in RulesIn(report) |-> <<>>],
                    !.report = report, !.write = pcb.write]
  /\ UNCHANGED <<pcb, fab, call>>

\* run_drc(detail_type=rule, offset, limit), one type after the other.
AskPage ==
  /\ ~Running
  /\ \E rule \in reader.left :
       LET page == Page(Filtered(pcb.report, reader.filter), rule, reader.offset) IN
       /\ reader.offset = 0 \/ reader.got[rule] # <<>>
       /\ reader' = [reader EXCEPT
                       !.got[rule] = @ \o page.found,
                       !.offset = IF page.more THEN @ + Limit ELSE 0,
                       !.left = IF page.more THEN @ ELSE @ \ {rule},
                       !.same = @ /\ pcb.write = reader.write]
  /\ UNCHANGED <<pcb, fab, call>>

\* Another program saves the board, within the bound, which leaves a routing
\* its own write.
ExternalWrite ==
  /\ "external" \in World
  /\ pcb.write + Len(SelectSeq(call.todo, LAMBDA step : step = "routing")) < MaxWrites
  /\ Rewrite
  /\ call' = [call EXCEPT !.alone = FALSE]
  /\ UNCHANGED <<fab, reader>>

\* The output directory is empty, or holds an export of another board.
Init ==
  /\ \E report \in Reports : pcb = [write |-> 1, report |-> report]
  /\ \E old \in {{}, Outputs \cup {"leftover"}} : fab = [f \in old |-> 0]
  /\ call = Idle("none")
  /\ reader = NotReading

Next ==
  \/ Begin \/ Gate \/ (\E file \in Outputs : Output(file)) \/ List
  \/ DrcBefore \/ Routing \/ DrcAfter
  \/ AskSummary \/ AskPage \/ ExternalWrite

Spec == Init /\ [][Next]_vars

----------------------------------------------------------------------------
(* Properties                                                              *)

\* ADR-0003 (F2): an export that says OK, and during which nobody wrote the
\* board, leaves gerbers and drill files of one and the same board, which
\* run_drc(min_severity="error") reports clean; an export that G3 blocks leaves
\* the output directory as it found it.
ErrorsOnly == [least |-> "error", without |-> {}]
FabIsClean ==
  ~Running =>
    /\ call.reply = "OK" /\ call.files # {} /\ call.alone =>
         /\ \A file \in Outputs : file \in call.files /\ fab[file] = pcb.write
         /\ Filtered(pcb.report, ErrorsOnly) = <<>>
    /\ call.reply = "EXPORT_BLOCKED_BY_DRC" => fab = call.fabBefore

\* The sum of the counts: of each r there are counts[r] things.
Total(counts) == Cardinality(UNION {{r} \X (1..counts[r]) : r \in DOMAIN counts})

\* D-12.6: an agent that asks for the summary and then follows the hints page
\* by page, type by type, on one and the same file, has read every violation
\* its filter lets through, once, and as many of each type as the summary said.
PagesTellReport ==
  reader.left = {} /\ reader.same =>
    /\ \A r \in DOMAIN reader.got :
         /\ Len(reader.got[r]) = reader.counts[r]
         /\ reader.got[r] = OfRule(reader.report, r)
    /\ DOMAIN reader.counts = DOMAIN reader.got /\ Total(reader.counts) = Len(reader.report)

\* F-D3-03: the errors route_board reports as introduced are those it did not
\* find before, by identity: as many as stay alone when the errors after and
\* before are paired off, each with one of the same rule in the same place.
Pairings(a, b) ==
  UNION {{p \in [part -> DOMAIN b] :
            /\ \A i \in part : Identity(a[i]) = Identity(b[p[i]])
            /\ \A i, j \in part : p[i] = p[j] => i = j} : part \in SUBSET DOMAIN a}
MostPaired(a, b) == Max({Cardinality(DOMAIN p) : p \in Pairings(a, b)})
IntroducedAreNew ==
  LET pre == Errors(call.pre)
      post == Errors(call.post)
      diff == call.diff
  IN call.reply = "OK" =>
       /\ diff.introduced = Len(post) - MostPaired(post, pre)
       /\ diff.resolved = Len(pre) - MostPaired(post, pre)
       /\ Total(diff.ofRule) = diff.introduced
=============================================================================
