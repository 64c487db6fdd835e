---------------------------- MODULE RegistryText ----------------------------
(* The edits of registry.yaml as text (collectors/scheduler.py, decisions.py, *)
(* loops.py, discover.py): the file is changed line by line so that its       *)
(* comments survive, and read back by a YAML parser. A line is its column, its *)
(* key and its value; a scalar is a sequence of one. A list is written inline, *)
(* and a project's item begins with its slug, as register_project writes it.   *)
EXTENDS Integers, Sequences, FiniteSets
LOCAL INSTANCE SequencesExt
LOCAL INSTANCE FiniteSetsExt

CONSTANT None                    \* the value of a line that opens a map

Line(col, key, val) == [col |-> col, key |-> key, val |-> val]
Header(col, key) == Line(col, key, None)
Blank == Header(0, "")
Comment(col) == Header(col, "#")
Slug(s) == Line(2, "slug", <<s>>)

IsBlank(l) == l.key = ""
IsSlug(l, p) == l.key = "slug" /\ l.val = <<p>>

Insert(lines, i, new) == SubSeq(lines, 1, i - 1) \o new \o SubSeq(lines, i, Len(lines))
Delete(lines, from, to) == SubSeq(lines, 1, from - 1) \o SubSeq(lines, to + 1, Len(lines))

\* The first line after i, before `end`, that satisfies Test; `end` if none does.
FirstAfter(lines, i, end, Test(_)) == Min({j \in (i + 1)..(end - 1) : Test(lines[j])} \union {end})
Past(lines) == Len(lines) + 1

\* ------------------------------------------------------------------- the edits
\* The project's properties are at column 4; its block ends at the next slug,
\* whatever lies between.
_project_span(lines, p) ==
  LET start == FirstAfter(lines, 0, Past(lines), LAMBDA l : IsSlug(l, p))
  IN  [start |-> start, end |-> FirstAfter(lines, start, Past(lines), LAMBDA l : l.key = "slug")]

\* A map ends at the first line, blank ones aside, not deeper than its header.
BlockEnd(lines, header, end) ==
  FirstAfter(lines, header, end, LAMBDA l : ~IsBlank(l) /\ l.col <= 4)

_set_project_map_entry(lines, p, block, key, value, remove) ==
  LET span == _project_span(lines, p)
      header == FirstAfter(lines, span.start, span.end, LAMBDA l : l.col = 4 /\ l.key = block)
      end == BlockEnd(lines, header, span.end)
      entries == {i \in (header + 1)..(end - 1) : ~IsBlank(lines[i]) /\ lines[i].col = 6}
      found == {i \in entries : lines[i].key = key}
      entry == Line(6, key, <<value>>)
  IN  IF header = span.end
      THEN IF remove THEN lines
           ELSE Insert(lines, span.start + 1, <<Header(4, block), entry>>)
      ELSE IF found # {}
      THEN IF ~remove THEN [lines EXCEPT ![Max(found)] = entry]
           ELSE LET rest == Delete(lines, Max(found), Max(found))
                IN  IF Cardinality(entries) <= 1 THEN Delete(rest, header, header) ELSE rest
      ELSE IF remove THEN lines ELSE Insert(lines, end, <<entry>>)

\* Any line of the block whose key is autorun, at any depth.
set_project_autorun(lines, p, value) ==
  LET span == _project_span(lines, p)
      at == FirstAfter(lines, span.start, span.end, LAMBDA l : l.key = "autorun")
  IN  IF at < span.end THEN [lines EXCEPT ![at].val = <<value>>]
      ELSE Insert(lines, span.start + 1, <<Line(4, "autorun", <<value>>)>>)

\* p is None for the fleet's defaults.
set_autorun_window(lines, p, hour, span_hours, minute) ==
  LET top == FirstAfter(lines, 0, Past(lines), LAMBDA l : l.col = 0 /\ l.key = "defaults")
      scope == IF p # None THEN _project_span(lines, p)
               ELSE [start |-> top,
                     end |-> FirstAfter(lines, top, Past(lines), LAMBDA l : ~IsBlank(l) /\ l.col = 0)]
      col == IF p = None THEN 2 ELSE 4
      old == FirstAfter(lines, scope.start, scope.end,
                        LAMBDA l : l.col = col /\ l.key = "autorun_window")
      oldEnd == FirstAfter(lines, old, scope.end, LAMBDA l : ~IsBlank(l) /\ l.col <= col)
      block == <<Header(col, "autorun_window"), Line(col + 2, "start_hour", <<hour>>),
                 Line(col + 2, "span_hours", <<span_hours>>)>>
               \o (IF minute = None THEN <<>> ELSE <<Line(col + 2, "start_minute", <<minute>>)>>)
  IN  IF old < scope.end THEN Insert(Delete(lines, old, oldEnd - 1), old, block)
      ELSE Insert(lines, scope.start + 1, block)

_edit_registry_pin(lines, scope, pin) ==
  LET start == IF scope = "defaults"
               THEN FirstAfter(lines, 0, Past(lines), LAMBDA l : l.col = 0 /\ l.key = "defaults")
               ELSE _project_span(lines, scope).start
      end == FirstAfter(lines, start, Past(lines),
                        LAMBDA l : ~IsBlank(l) /\ IF scope = "defaults" THEN l.col = 0
                                                  ELSE l.col < 2 \/ l.key = "slug")
      at == FirstAfter(lines, start, end, LAMBDA l : l.key = "marketplace_pin")
  IN  IF at < end THEN [lines EXCEPT ![at].val = <<pin>>]
      ELSE IF scope = "defaults" THEN lines          \* the code raises, nothing is written
      ELSE Insert(lines, start + 1, <<Line(4, "marketplace_pin", <<pin>>)>>)

\* loops._add_to_project_cadences and _remove_from_project_cadences.
EditCadences(lines, p, Change(_)) ==
  LET span == _project_span(lines, p)
      at == FirstAfter(lines, span.start, span.end, LAMBDA l : l.key = "cadences")
  IN  IF at < span.end THEN [lines EXCEPT ![at].val = Change(@)] ELSE lines

_add_to_project_cadences(lines, p, loop) ==
  EditCadences(lines, p, LAMBDA items : IF Contains(items, loop) THEN items ELSE Append(items, loop))

_remove_from_project_cadences(lines, p, loop) ==
  EditCadences(lines, p, LAMBDA items : SelectSeq(items, LAMBDA x : x # loop))

project_stanza(slug, cadences) ==
  <<Slug(slug), Line(4, "tier_default", <<"local">>), Line(4, "cadences", cadences)>>

\* After the last line of the projects block, or in a block of its own.
_append_project(lines, stanza) ==
  LET top == FirstAfter(lines, 0, Past(lines), LAMBDA l : l.col = 0 /\ l.key = "projects")
      end == FirstAfter(lines, top, Past(lines), LAMBDA l : ~IsBlank(l) /\ l.col = 0)
  IN  IF top = Past(lines) THEN lines \o <<Blank, Header(0, "projects")>> \o stanza
      ELSE Insert(lines, end, <<Blank>> \o stanza)

\* ------------------------------------------------ what a YAML parser reads
IsReal(l) == l.key \notin {"", "#"}
Label(l) == IF l.key = "slug" THEN l.val[1] ELSE l.key

\* The document as a set of paths and their values; a map without entries is a
\* null.
Facts(lines) ==
  LET real == {i \in DOMAIN lines : IsReal(lines[i])}
      Above(i) == {j \in real : j < i /\ lines[j].col < lines[i].col}
      path[i \in real] ==
        IF Above(i) = {} THEN <<Label(lines[i])>>
        ELSE Append(path[Max(Above(i))], Label(lines[i]))
      Opens(i) == \E j \in real : j > i /\ Above(j) # {} /\ Max(Above(j)) = i
  IN  {<<path[i], lines[i].val>> : i \in {j \in real : ~Opens(j)}}

Comments(lines) == SelectSeq(lines, LAMBDA l : l.key = "#")

\* An edit as it is meant: facts under `prefix` replaced by the new ones.
Replaced(facts, prefix, new) ==
  {f \in facts : ~(Len(f[1]) >= Len(prefix) /\ SubSeq(f[1], 1, Len(prefix)) = prefix)}
    \union {<<prefix \o n[1], n[2]>> : n \in new}

\* ---------------------------------------------------------------- properties
\* An edit changes the one setting it is about and nothing else a YAML parser
\* reads: no other project's value, no second copy of the key, no map left empty;
\* and every comment is still there, in its order.
EditIsExact(lines, e) ==
  LET facts == Facts(lines)
      Under(prefix, new) == Replaced(facts, prefix, new)
      Entries(block) == {f \in facts : f[1] \in {<<"projects", e.p, block, k>> : k \in {"a", "b"}}}
      after ==
        CASE e.op = "autorun" -> set_project_autorun(lines, e.p, e.value)
          [] e.op = "entry"   -> _set_project_map_entry(lines, e.p, "schedules", e.key, e.value, FALSE)
          [] e.op = "drop"    -> _set_project_map_entry(lines, e.p, "schedules", e.key, e.value, TRUE)
          [] e.op = "window"  -> set_autorun_window(lines, e.p, e.value, "1", None)
          [] e.op = "fleet"   -> set_autorun_window(lines, None, e.value, "1", None)
          [] e.op = "pin"     -> _edit_registry_pin(lines, e.p, e.value)
          [] e.op = "enable"  -> _add_to_project_cadences(lines, e.p, e.key)
          [] e.op = "disable" -> _remove_from_project_cadences(lines, e.p, e.key)
          [] e.op = "append"  -> _append_project(lines, project_stanza("new", <<"a">>))
      Cadences == (CHOOSE f \in facts : f[1] = <<"projects", e.p, "cadences">>)[2]
      window == {<<<<"start_hour">>, <<e.value>>>>, <<<<"span_hours">>, <<"1">>>>}
      expected ==
        CASE e.op = "autorun" -> Under(<<"projects", e.p, "autorun">>, {<<<<>>, <<e.value>>>>})
          [] e.op = "entry"   -> Under(<<"projects", e.p, "schedules", e.key>>, {<<<<>>, <<e.value>>>>})
          [] e.op = "drop"    -> Under(<<"projects", e.p, "schedules", e.key>>, {})
          [] e.op = "window"  -> Under(<<"projects", e.p, "autorun_window">>, window)
          [] e.op = "fleet"   -> Under(<<"defaults", "autorun_window">>, window)
          [] e.op = "pin"     -> Under(IF e.p = "defaults" THEN <<"defaults", "marketplace_pin">>
                                       ELSE <<"projects", e.p, "marketplace_pin">>,
                                       {<<<<>>, <<e.value>>>>})
          [] e.op = "enable"  -> Under(<<"projects", e.p, "cadences">>,
                                       {<<<<>>, IF Contains(Cadences, e.key) THEN Cadences
                                                ELSE Append(Cadences, e.key)>>})
          [] e.op = "disable" -> Under(<<"projects", e.p, "cadences">>,
                                       {<<<<>>, SelectSeq(Cadences, LAMBDA x : x # e.key)>>})
          [] e.op = "append"  -> Under(<<"projects", "new">>, {<<<<"tier_default">>, <<"local">>>>,
                                                               <<<<"cadences">>, <<"a">>>>})
  IN  Facts(after) = expected /\ Comments(after) = Comments(lines)
=============================================================================
