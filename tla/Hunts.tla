------------------------------- MODULE Hunts -------------------------------
(***************************************************************************)
(* Hunting (api/hunts.py, services/hunting.py, packages/sql-hunts): the    *)
(* queries an analyst of one tenant may run over its telemetry, and the    *)
(* record each leaves in the audit log.                                    *)
(*                                                                         *)
(* The table of events is shared by all tenants.  A copy of it is written  *)
(* to ClickHouse on a best-effort basis.  The analyst types a query token  *)
(* by token, or runs one of the other hunts.  What the parser makes of a   *)
(* query and what a predicate says of an event are parameters here; module *)
(* BlueQL gives them.                                                      *)
(***************************************************************************)
EXTENDS Views

CONSTANTS
  Parse(_),      \* a query -> whether it parses, its tree, where the parser stopped
  Eval(_, _),    \* a predicate and an event -> "yes", "no" or "raise"
  DefaultWindow, \* 600 in the code
  Phrases,       \* groups of tokens the analyst types (bound)
  MaxPhrases,    \* bound: phrases of a query
  SequenceHunts, \* queries that are run over stored events (bound)
  TableRows,     \* rows that ingestion writes while no query is typed (bound)
  MaxEvents,     \* bound: events stored
  Limits,        \* values of limit in a structured search
  MaxLimit,      \* 1000 in the code
  LookupLimit,   \* the limit of the lookups (50 and 100 in the code)
  MinRows        \* values of the threshold parameter of an SQL hunt

ASSUME HuntAssumption ==
  /\ {MaxPhrases, MaxEvents, MaxLimit, LookupLimit} \subseteq Nat \ {0}
  /\ MinRows \subseteq Nat /\ DefaultWindow \in Nat
  /\ Limits \subseteq Int
  /\ \A row \in TableRows : /\ row.tenant \in Tenants /\ row.facts \subseteq Facts
                            /\ row.stored \in BOOLEAN /\ row.projected \in BOOLEAN

\* The empty text is no query, and a sequence has two steps or more.
ASSUME LanguageAssumption ==
  /\ ~Parse(<<>>).ok
  /\ \A q \in SequenceHunts :
       LET ast == Parse(q).node
       IN  Parse(q).ok /\ ast.kind = "sequence" =>
             ast.children \in Seq(Range(ast.children)) /\ Len(ast.children) > 1 /\ ast.value \in Nat

VARIABLES
  typed,    \* the query text, as tokens
  table,    \* security_events, in the order of insertion
  columns,  \* rows of the ClickHouse table
  minted,   \* ids the program has made
  answer,   \* the last answer: which hunt, the events it is about
  saved,    \* number of rows in saved_hunts
  audited,  \* the hunts in the audit log, in order
  answered  \* the hunts answered, in order (history)

huntVars == <<typed, table, columns, minted, answer, saved, audited, answered>>

NoSearch == [filter |-> {}, from |-> 0, to |-> 0, limit |-> 0]
NoAnswer == [hunt |-> "none", items |-> <<>>, search |-> NoSearch]

\* Endpoints that write an audit record, and those that do not.
Recorded == {"validate", "blueql", "sql", "structured", "auth history", "entity", "ioc", "save", "export"}
Unrecorded == {"sessions", "process tree", "saved"}

\* An event of the tenant takes its place by time in a window: behind those that
\* are not later, before the later ones.
Insert(window, e) ==
  IF e.tenant # "own" THEN window
  ELSE [i \in 1..(Len(window) + 1) |->
          IF i <= Len(window) /\ window[i].time <= e.time THEN window[i]
          ELSE IF i = 1 \/ window[i - 1].time <= e.time THEN e ELSE window[i - 1]]

\* load_window: the tenant's events by time; of those with one time, which the
\* query leaves open, the first stored comes first.
load_window == FoldLeft(Insert, <<>>, table)

-----------------------------------------------------------------------------
(* packages/blueql: the execution of a query over the events of a window.   *)
Satisfies(node, event) == Eval(node, event) = "yes"

Unmatched(acc) == [acc EXCEPT !.ok = FALSE]
TooLate(acc, j) == acc.events[j].time - acc.events[acc.last].time > acc.window

\* Mutant: the search for a step starts at the event that satisfied the one
\* before.
Stops_Overlap(acc, step) ==
  {j \in acc.last..Len(acc.events) : TooLate(acc, j) \/ Eval(step, acc.events[j]) # "no"}

\* For a further step the search goes on after the last match and stops at an
\* event that is too late, that satisfies the step, or on which the evaluation
\* raises.
Stops(acc, step) ==
  {j \in (acc.last + 1)..Len(acc.events) : TooLate(acc, j) \/ Eval(step, acc.events[j]) # "no"}

Extend(acc, step) ==
  LET stops == Stops(acc, step)
      j == CHOOSE j \in stops : \A k \in stops : j <= k
  IN  IF ~acc.ok \/ stops = {} THEN Unmatched(acc)
      ELSE IF TooLate(acc, j) THEN Unmatched(acc)
      ELSE IF Satisfies(step, acc.events[j]) THEN [acc EXCEPT !.last = j, !.found = Append(@, j)]
      ELSE [Unmatched(acc) EXCEPT !.raised = TRUE]

\* The chain from the event at i.
Chain(steps, events, i, window) ==
  FoldLeft(Extend, [events |-> events, window |-> window, ok |-> TRUE, raised |-> FALSE,
                    last |-> i, found |-> <<i>>], Tail(steps))

Window(ast) == IF ast.value = 0 THEN DefaultWindow ELSE ast.value

\* The positions of the events that satisfy the first predicate of a tree.
Starts(ast, events) ==
  Only([i \in DOMAIN events |-> i], {i \in DOMAIN events : Satisfies(ast.children[1], events[i])})

\* The chains from every event that satisfies the first step.
Chains(ast, events) ==
  LET starts == Starts(ast, events)
  IN  [k \in DOMAIN starts |-> Chain(ast.children, events, starts[k], Window(ast))]

\* _execute_sequence: positions of the events of all complete chains, each once.
AddHit(hits, i) == IF i \in Range(hits) THEN hits ELSE Append(hits, i)
AddHits(hits, c) == IF c.ok THEN FoldLeft(AddHit, hits, c.found) ELSE hits
Hits(ast, events) == FoldLeft(AddHits, <<>>, Chains(ast, events))

\* execute: positions of the matching events, in the order they are listed.
execute(ast, events) == IF ast.kind = "sequence" THEN Hits(ast, events) ELSE Starts(ast, events)

\* An unknown field raises when some event makes the evaluation reach it.
Raises(ast, events) ==
  \/ \E i \in DOMAIN events : Eval(ast.children[1], events[i]) = "raise"
  \/ ast.kind = "sequence" /\ \E c \in Range(Chains(ast, events)) : c.raised

-----------------------------------------------------------------------------
(* services/hunting.py                                                      *)
ClampLimit(n) == IF n > MaxLimit THEN MaxLimit ELSE IF n < 1 THEN 1 ELSE n

\* Every filter that is given must hold.
Passes(e, search) == search.filter \subseteq e.facts /\ search.from <= e.time /\ e.time <= search.to

\* Mutant: the limit is tested after one match too many.
Collect_OneMore(acc, e) ==
  IF Len(acc.found) > ClampLimit(acc.search.limit) \/ ~Passes(e, acc.search) THEN acc
  ELSE [acc EXCEPT !.found = Append(@, e)]

\* structured_search: the events that pass, until the limit is reached.
Collect(acc, e) ==
  IF Len(acc.found) >= ClampLimit(acc.search.limit) \/ ~Passes(e, acc.search) THEN acc
  ELSE [acc EXCEPT !.found = Append(@, e)]

structured_search(search) == FoldLeft(Collect, [search |-> search, found |-> <<>>], load_window).found

-----------------------------------------------------------------------------
(* packages/sql-hunts: one registered hunt, which counts the events that    *)
(* have some fact and reports the group when there are at least as many as  *)
(* its parameter says.  The answer is the group itself.                     *)
Hunt == [parameters |-> {"min"}, default |-> 1]

\* Mutant: parameters that the hunt does not declare are bound as well, after
\* the tenant.
Bound_ParamsWin(params) ==
  [ok |-> TRUE,
   min |-> IF "min" \in DOMAIN params THEN params["min"] ELSE Hunt.default,
   tenant |-> IF "tenant_id" \in DOMAIN params THEN params["tenant_id"] ELSE "own"]

\* _bound_params, and the tenant of the actor on top.
Bound(params) ==
  [ok |-> DOMAIN params \subseteq Hunt.parameters,
   min |-> IF "min" \in DOMAIN params THEN params["min"] ELSE Hunt.default,
   tenant |-> "own"]

Selected(rows, bound) ==
  LET hits == Only(rows, {e \in ToSet(rows) : e.facts # {}})
  IN  IF Len(hits) >= bound.min THEN hits ELSE <<>>

\* execute_hunt: ClickHouse when it is configured and answers, otherwise
\* SQLite over the tenant's window.
SqlRows(bound, backend) ==
  IF backend = "clickhouse" THEN Selected(Only(columns, {e \in ToSet(columns) : e.tenant = bound.tenant}), bound)
  ELSE Selected(load_window, bound)

-----------------------------------------------------------------------------
(* The endpoints.  A request that raises leaves nothing behind.             *)
HuntInit ==
  /\ typed = <<>>
  /\ table = <<>> /\ columns = <<>> /\ minted = 0
  /\ answer = NoAnswer
  /\ saved = 0
  /\ audited = <<>> /\ answered = <<>>

Query == FlattenSeq(typed)

\* The analyst types on, as long as the query can still be completed.
Type(phrase) ==
  /\ table = <<>> /\ columns = <<>> /\ answer = NoAnswer
  /\ Len(typed) < MaxPhrases
  /\ Parse(Query).ok \/ Parse(Query).pos > Len(Query)
  /\ typed' = Append(typed, phrase)
  /\ UNCHANGED <<table, columns, minted, answer, saved, audited, answered>>

\* Ingestion stores an event and projects it, or only one of the two: the
\* projection may fail, and it is not undone when the request fails.  A query
\* in BlueQL reads the window alone, so only rows of the window are written
\* for it.
WindowRows == [tenant : {"own"}, facts : SUBSET Facts, stored : {TRUE}, projected : {FALSE}]

Store(row, time) ==
  LET e == [id |-> minted + 1, tenant |-> row.tenant, time |-> time, facts |-> row.facts, body |-> NoBody,
            row |-> NoRow]
  IN
  /\ answer = NoAnswer
  /\ minted < MaxEvents
  /\ row \in (IF typed = <<>> THEN TableRows ELSE IF Query \in SequenceHunts THEN WindowRows ELSE {})
  /\ table' = IF row.stored THEN Append(table, e) ELSE table
  /\ columns' = IF row.projected THEN Append(columns, e) ELSE columns
  /\ minted' = minted + 1
  /\ UNCHANGED <<typed, answer, saved, audited, answered>>

Answers(hunt, items, search) ==
  /\ answer = NoAnswer
  /\ answer' = [hunt |-> hunt, items |-> items, search |-> search]
  /\ answered' = Append(answered, hunt)
  /\ saved' = IF hunt = "save" THEN saved + 1 ELSE saved
  /\ UNCHANGED <<typed, table, columns, minted>>

Audit(hunt) ==
  audited' = IF hunt \in Recorded THEN Append(audited, hunt) ELSE audited

\* POST /blueql: a dry run only parses.
RunBlueql(dry_run) ==
  /\ Parse(Query).ok
  /\ IF dry_run THEN Answers("validate", <<>>, NoSearch) /\ Audit("validate")
     ELSE LET ast == Parse(Query).node
              events == load_window
              hits == execute(ast, events)
          IN  /\ ~Raises(ast, events)
              /\ Answers("blueql", [k \in DOMAIN hits |-> events[hits[k]]], NoSearch)
              /\ Audit("blueql")

\* POST /sql
RunSql(params, backend) ==
  /\ typed = <<>>
  /\ Bound(params).ok
  /\ Answers("sql", SqlRows(Bound(params), backend), NoSearch)
  /\ Audit("sql")

\* POST /structured
RunStructured(search) ==
  /\ typed = <<>>
  /\ Answers("structured", structured_search(search), search)
  /\ Audit("structured")

\* A structured search over all times with a fixed limit.
Lookup(filter) == [filter |-> filter, from |-> 0, to |-> Max(Times), limit |-> LookupLimit]

\* GET /auth-history: by category and, when it is given, user.
AuthHistory(filter) ==
  /\ typed = <<>>
  /\ Answers("auth history", structured_search(Lookup(filter)), Lookup(filter))
  /\ Audit("auth history")

\* GET /ioc: by the text of the indicator, beside the indicators that contain
\* it, living or not.
LookUpIoc(filter) ==
  /\ typed = <<>>
  /\ Answers("ioc", structured_search(Lookup(filter)), Lookup(filter))
  /\ Audit("ioc")

\* GET /network-sessions, without a record.  With an address the filter reads
\* columns that a session does not have, and nothing is left.
NetworkSessions(filtered) ==
  /\ typed = <<>>
  /\ Answers("sessions", IF filtered THEN <<>> ELSE Only(load_window, {e \in ToSet(load_window) : HasSession(e)}), NoSearch)
  /\ Audit("sessions")

\* GET /process-tree, without a record.
ProcessTree ==
  /\ typed = <<>>
  /\ Answers("process tree", Only(load_window, {e \in ToSet(load_window) : HasProcess(e)}), NoSearch)
  /\ Audit("process tree")

\* GET /entity: rows of the entity table, which holds no events.  An empty
\* text is refused.
LookUpEntity ==
  /\ typed = <<>>
  /\ Answers("entity", <<>>, NoSearch)
  /\ Audit("entity")

\* POST /saved; a wrong type or an empty name is refused.
SaveHunt ==
  /\ typed = <<>>
  /\ Answers("save", <<>>, NoSearch)
  /\ Audit("save")

\* GET /saved, without a record.
ListSaved ==
  /\ typed = <<>>
  /\ Answers("saved", <<>>, NoSearch)
  /\ Audit("saved")

\* POST /export: rows that the client sends come back as JSON or CSV; another
\* format is refused.
Export ==
  /\ typed = <<>>
  /\ Answers("export", <<>>, NoSearch)
  /\ Audit("export")

\* Parameters a client may send with an SQL hunt.
Params == {<<>>} \cup {"min" :> n : n \in MinRows} \cup {"tenant_id" :> "other"}

Filters == {{}} \cup {{f} : f \in Facts}
Searches == [filter : Filters, from : Times, to : Times, limit : Limits]

HuntNext ==
  \/ \E phrase \in Phrases : Type(phrase)
  \/ \E row \in TableRows \cup WindowRows, time \in Times : Store(row, time)
  \/ \E dry_run \in BOOLEAN : RunBlueql(dry_run)
  \/ \E params \in Params, backend \in {"clickhouse", "sqlite"} : RunSql(params, backend)
  \/ \E search \in Searches : RunStructured(search)
  \/ \E filter \in Filters : AuthHistory(filter)
  \/ \E filter \in Filters : LookUpIoc(filter)
  \/ \E filtered \in BOOLEAN : NetworkSessions(filtered)
  \/ ProcessTree
  \/ LookUpEntity
  \/ SaveHunt
  \/ ListSaved
  \/ Export

-----------------------------------------------------------------------------
(* Types: what is stored, projected and answered are events.                *)
HuntTypeOK ==
  /\ Range(typed) \subseteq Phrases /\ minted \in Nat
  /\ Range(table) \cup Range(columns) \cup Range(answer.items) \subseteq Event
  /\ answer.hunt \in Recorded \cup Unrecorded \cup {"none"}
  /\ ToSet(audited) \subseteq Recorded /\ saved \in Nat

-----------------------------------------------------------------------------
IsChain(ast, c) ==
  /\ \A k \in DOMAIN ast.children : Satisfies(ast.children[k], c[k])
  /\ \A k \in 1..(Len(c) - 1) : c[k + 1].time - c[k].time <= Window(ast)

\* The chains of stored events in the order of the window.
ChainsOf(ast) ==
  LET events == load_window
      n == Len(ast.children)
  IN  {c \in [1..n -> Range(events)] :
         /\ IsChain(ast, c)
         /\ \A k \in 1..(n - 1) : \E i, j \in DOMAIN events : i < j /\ events[i] = c[k] /\ events[j] = c[k + 1]}

RanSequence == answer.hunt = "blueql" /\ Parse(Query).node.kind = "sequence"

(* A sequence hunt answers with events that really follow each other: each  *)
(* belongs to a chain, one event per step, in time order, each within the   *)
(* window of the one before; and none is listed twice (_execute_sequence).  *)
SequencesAreReal ==
  RanSequence =>
    /\ \A e \in Range(answer.items) : \E c \in ChainsOf(Parse(Query).node) : e \in Range(c)
    /\ IsInjective(answer.items)

(* For two steps nothing is missed: every event that starts a chain is in   *)
(* the answer, although only the first candidate for the second step is     *)
(* tried.  (With three steps a chain can be missed.)                        *)
TwoStepsComplete ==
  RanSequence /\ Len(Parse(Query).node.children) = 2 =>
    \A c \in ChainsOf(Parse(Query).node) : c[1] \in Range(answer.items)

(* A sequence hunt finds real chains and, with two steps, each of them      *)
(* (_execute_sequence).                                                     *)
SequencesExact == SequencesAreReal /\ TwoStepsComplete

(* A structured search answers with the earliest events that pass all       *)
(* filters, as many as the limit allows and no fewer (the loop with its     *)
(* break in structured_search, the clamp of the limit at 1 and the maximum). *)
SearchesAreExact ==
  answer.hunt \in {"structured", "ioc", "auth history"} =>
    LET all == Only(load_window, {e \in ToSet(load_window) : Passes(e, answer.search)})
        n == Min({ClampLimit(answer.search.limit), Len(all)})
    IN  answer.items = SubSeq(all, 1, n)

(* Whatever the hunt, its parameters and the backend that answers, an       *)
(* analyst sees events of the own tenant only, although the ClickHouse      *)
(* table is shared (load_window, _bound_params and execute_hunt).           *)
OwnTenantOnly == \A e \in Range(answer.items) : e.tenant = "own"

(* "query history is auditable" (BLUE_TEAM_OS_BUILD_SPEC.md:382): each      *)
(* answered request of the recorded hunts has its record, whether or not it *)
(* found anything, there is no record of a request that was refused, and     *)
(* no saved hunt without one (write_audit in the endpoints).                *)
QueriesRecorded ==
  /\ audited = Only(answered, Recorded)
  /\ saved = Len(Only(audited, {"save"}))

(* A hunt answers with what its filters select and leaves its record        *)
(* (structured_search, the endpoints of hunts.py).                          *)
HuntsAnswered == HuntTypeOK /\ SearchesAreExact /\ QueriesRecorded
=============================================================================
