------------------------------ MODULE PolicyText ------------------------------
(***************************************************************************)
(* Scheduling policies as text (scheduling_policy_io.cpp): a file is a     *)
(* sequence of lines, a line a sequence of tokens <<key>> or <<key, value>>*)
(* with the key in lower case and the value an integer; text that is no    *)
(* integer is BadValue.  A stack is a sequence of files and directories; a *)
(* directory is a set of named files, names being numbers in the order of  *)
(* the paths, of which some are no candidates for a policy.                *)
(***************************************************************************)
EXTENDS Integers, Sequences, SequencesExt

CONSTANT BadValue

\* what a text specifies: <<>> where it says nothing.  Defaults are no
\* overdue priority and escalation when overdue.
Unspecified == [ok |-> TRUE, escalations |-> <<>>, overdue |-> <<>>, escalate |-> <<>>]
Thrown == [Unspecified EXCEPT !.ok = FALSE]

WithinKeys == {"within", "within-minutes", "minutes"}
OverdueKeys == {"overdue", "overdue-priority"}
DisableKeys == {"no-overdue-escalation", "disable-overdue-escalation"}

\* a token of a line; within and priority are those of the line so far.  A
\* key that is not known is passed over.
ParseToken(st, token) ==
    LET key == token[1]
        valued == Len(token) = 2
        value == token[2]
        Valued(ok, next) == IF valued /\ value # BadValue /\ ok THEN next
                            ELSE [st EXCEPT !.ok = FALSE]
    IN  CASE ~st.ok -> st
          [] key \in WithinKeys ->
               Valued(value >= 0, [st EXCEPT !.within = <<value>>, !.handled = TRUE])
          [] key = "priority" ->
               Valued(TRUE, [st EXCEPT !.priority = <<value>>, !.handled = TRUE])
          [] key \in OverdueKeys ->
               Valued(TRUE, [st EXCEPT !.policy.overdue = <<value>>, !.handled = TRUE])
          [] key = "escalate-overdue" ->
               Valued(value \in {0, 1},
                      [st EXCEPT !.policy.escalate = <<value = 1>>, !.handled = TRUE])
          [] key \in DisableKeys /\ ~valued ->
               [st EXCEPT !.policy.escalate = <<FALSE>>, !.handled = TRUE]
          [] OTHER -> st

\* comments are gone and blank lines say nothing; a line gives one escalation
\* or none
ParseLine(policy, line) ==
    LET cut == SelectInSeq(line, LAMBDA t : t[1] = "#")
        tokens == IF cut = 0 THEN line ELSE SubSeq(line, 1, cut - 1)
        end == FoldLeft(ParseToken, [ok |-> TRUE, within |-> <<>>, priority |-> <<>>,
                                     handled |-> FALSE, policy |-> policy], tokens)
    IN  CASE ~policy.ok \/ tokens = <<>> -> policy
          [] ~end.ok \/ ~end.handled -> Thrown
          [] (end.within = <<>>) # (end.priority = <<>>) -> Thrown
          [] end.within = <<>> -> end.policy
          [] OTHER -> [end.policy EXCEPT !.escalations =
                         Append(@, [within |-> 60 * end.within[1], priority |-> end.priority[1]])]

ParsePolicyStream(lines) == FoldLeft(ParseLine, Unspecified, lines)

\* mutant: a file that says nothing resets what the ones before it said
CombineResetting(a, b) == [b EXCEPT !.ok = a.ok /\ b.ok, !.escalations = a.escalations \o @]

\* the escalations of all, and the last that says something of the rest
Combine(a, b) ==
    [ok |-> a.ok /\ b.ok,
     escalations |-> a.escalations \o b.escalations,
     overdue |-> IF b.overdue = <<>> THEN a.overdue ELSE b.overdue,
     escalate |-> IF b.escalate = <<>> THEN a.escalate ELSE b.escalate]
CombinePolicies(policies) ==
    LET all == FoldLeft(Combine, Unspecified, policies)
    IN  IF all.ok THEN all ELSE Thrown

\* the candidates of a directory in the order of their names
ExpandDirectory(entries) ==
    SetToSortSeq({ e \in entries : e.candidate }, LAMBDA a, b : a.name < b.name)

\* a source is [directory, entries]; a file is a directory of one entry whose
\* name does not matter
FilesOf(source) ==
    IF source.directory THEN ExpandDirectory(source.entries) ELSE SetToSeq(source.entries)
LoadPolicyStack(sources) ==
    LET files == FoldLeft(LAMBDA all, s : all \o FilesOf(s), <<>>, sources)
    IN  CombinePolicies([i \in DOMAIN files |-> ParsePolicyStream(files[i].lines)])
===============================================================================
