---------------------------- MODULE ConfigResolve ----------------------------
(* The config resolver (collectors/config_resolve.py): five settings layers   *)
(* merged key by key, the model overlay of the environment, the gates of MCP   *)
(* servers and skills, memory files and their imports, the live probe as the   *)
(* measurement, and the snapshots from which explain, the fleet diff and the   *)
(* brief's DRIFT section are read. A value is a list or a scalar.              *)
EXTENDS Integers, Sequences, FiniteSets
LOCAL INSTANCE SequencesExt
LOCAL INSTANCE FiniteSetsExt

CONSTANT None                    \* unset, not reported, not applicable

LAYER_ORDER == <<"managed", "cli", "local", "project", "user">>

List(items) == [list |-> TRUE, items |-> items]
Scalar(v) == [list |-> FALSE, items |-> <<v>>]

\* -------------------------------------------------------------- layer merge
\* `layers` maps each layer to its flattened settings.
Candidates(layers, key) == SelectSeq(LAYER_ORDER, LAMBDA n : key \in DOMAIN layers[n])

Appended(eff, item) == IF Contains(eff, item) THEN eff ELSE Append(eff, item)

Resolved(effective, winning, shadowed) ==
  [effective |-> effective, winning_layer |-> winning, shadowed |-> shadowed,
   disagrees_with_probe |-> FALSE]

\* (mutant) Lists are taken like scalars, from the highest layer only.
HighestOnly(layers, key) ==
  LET cands == Candidates(layers, key)
  IN  Resolved(layers[Head(cands)][key], Head(cands), Tail(cands))

MergeKey(layers, key) ==
  LET cands == Candidates(layers, key)
      lists == FlattenSeq([i \in DOMAIN cands |-> layers[cands[i]][key].items])
  IN  IF \A i \in DOMAIN cands : layers[cands[i]][key].list
      THEN Resolved(List(FoldLeft(Appended, <<>>, lists)), "merged", Tail(cands))
      ELSE Resolved(layers[Head(cands)][key], Head(cands), Tail(cands))

merge_layers(layers) ==
  [key \in UNION {DOMAIN layers[n] : n \in ToSet(LAYER_ORDER)} |-> MergeKey(layers, key)]

With(resolved, key, v) == [k \in DOMAIN resolved \union {key} |-> IF k = key THEN v ELSE resolved[k]]

\* The environment: a hard model beats every file, a soft one fills a gap.
apply_env_overlay(resolved, hard, soft) ==
  IF hard # None
  THEN With(resolved, "model",
            Resolved(Scalar(hard), "env:hard",
                     IF "model" \in DOMAIN resolved
                     THEN <<resolved["model"].winning_layer>> \o resolved["model"].shadowed
                     ELSE <<>>))
  ELSE IF soft # None /\ "model" \notin DOMAIN resolved
  THEN With(resolved, "model", Resolved(Scalar(soft), "env:soft", <<>>))
  ELSE resolved

\* ---------------------------------------------------------------- components
\* The four gates of an MCP server; a name in both files is the project's.
resolve_mcp(user, mcpjson, off, all, on_json, off_json) ==
  [n \in user \union mcpjson |->
     IF n \in mcpjson
     THEN (all \/ n \in on_json) /\ n \notin off_json /\ n \notin off
     ELSE n \notin off]

\* A skill, identified by its name and scope, is invocable unless its frontmatter opts out, a permissions.deny rule
\* names it, or an override turns it off.
Invocable(skill, deny, overrides_off) ==
  ~skill.opts_out /\ skill.name \notin deny /\ skill.name \notin overrides_off

Component(kind, name, invocable) ==
  [kind |-> kind, name |-> name, invocable |-> invocable, disagrees_with_probe |-> FALSE]

resolve_skills(skills, deny, overrides_off) ==
  {Component("skill", s.name, Invocable(s, deny, overrides_off)) : s \in skills}

\* Memory files and their transitive imports, each file once, in the order the
\* walk meets them, with the depth it meets them at. `imports` gives the files
\* each existing file names; a missing file is left out.
RECURSIVE Rec(_, _, _, _)

Rec(imports, path, depth, out) ==
  IF path \notin DOMAIN imports \/ (\E i \in DOMAIN out : out[i].name = path) THEN out
  ELSE FoldLeft(LAMBDA acc, imp : Rec(imports, imp, depth + 1, acc),
                Append(out, [name |-> path, depth |-> depth]), imports[path])

walk_memory(imports, entries) ==
  FoldLeft(LAMBDA acc, f : Rec(imports, f, 0, acc), <<>>, entries)

\* ------------------------------------------------------------------- the probe
\* A probe is None or what the live session reported: model and permission_mode
\* (None when not reported), and for skills, mcp and plugins either None (the
\* kind was not enumerated) or what was: skills as name -> may be invoked.
Disagrees(resolved, key, observed) ==
  observed # None /\ key \in DOMAIN resolved /\ resolved[key].effective # Scalar(observed)

Overridden(resolved, probe, key) ==
  IF probe = None \/ ~Disagrees(resolved, key, probe[key]) THEN resolved
  ELSE [resolved EXCEPT ![key] = [effective |-> Scalar(probe[key]), winning_layer |-> "probe",
                                  shadowed |-> resolved[key].shadowed,
                                  disagrees_with_probe |-> TRUE]]

reconcile_probe(resolved, probe) ==
  Overridden(Overridden(resolved, probe, "model"), probe, "permission_mode")

\* The component the probe contradicts.
Contradicted(c, probe) ==
  CASE c.kind = "skill" ->
         /\ c.invocable = TRUE /\ probe.skills # None
         /\ c.name \in DOMAIN probe.skills /\ ~probe.skills[c.name]
    [] c.kind = "mcp" -> c.invocable = TRUE /\ probe.mcp # None /\ c.name \notin probe.mcp
    [] c.kind = "plugin" -> probe.plugins # None /\ c.name \notin probe.plugins
    [] OTHER -> FALSE

reconcile_components(components, probe) ==
  {[c EXCEPT !.disagrees_with_probe = probe # None /\ Contradicted(c, probe)] : c \in components}

\* --------------------------------------------------------- one resolution
\* resolve_project: `files` holds what the loaders read. The deny rules that
\* reach the skills are the merged ones.
resolve_project(files, env, probe) ==
  LET merged == apply_env_overlay(merge_layers(files.layers), env.hard, env.soft)
      deny == IF "permissions.deny" \in DOMAIN merged
              THEN ToSet(merged["permissions.deny"].effective.items) ELSE {}
      mcp == resolve_mcp(files.mcp.user, files.mcp.json, files.mcp.off,
                         files.mcp.all, files.mcp.on_json, files.mcp.off_json)
      components == resolve_skills(files.skills, deny, files.overrides_off)
                      \union {Component("plugin", p, None) : p \in files.plugins}
                      \union {Component("mcp", n, mcp[n]) : n \in DOMAIN mcp}
                      \union {Component("memory", m.name, None) :
                                m \in ToSet(walk_memory(files.imports, files.memory))}
  IN  [keys |-> reconcile_probe(merged, probe),
       components |-> reconcile_components(components, probe)]

\* ------------------------------------------------------------- the snapshots
\* write_snapshot appends; a snapshot is a resolution with its project and host.
\* The newest one answers, of one host or of any.
latest_snapshot(snaps, project, host) ==
  LET mine == SelectSeq(snaps, LAMBDA s : s.project = project /\ (host = None \/ s.host = host))
  IN  IF mine = <<>> THEN None ELSE mine[Len(mine)]

explain(snaps, key, project, host) ==
  LET s == latest_snapshot(snaps, project, host)
  IN  IF s = None THEN None ELSE IF key \in DOMAIN s.keys THEN s.keys[key] ELSE None

State(components, id) ==
  LET here == {c \in components : c.kind = id[1] /\ c.name = id[2]}
  IN  IF here = {} THEN "absent"
      ELSE LET c == CHOOSE x \in here : TRUE
           IN  IF c.invocable = None THEN "installed"
               ELSE IF c.invocable = TRUE THEN "invocable" ELSE "inert"

\* fleet_diff: the components whose state differs between the newest snapshots of
\* the hosts; keys are compared the same way.
fleet_diff(snaps, project) ==
  LET hosts == {s.host : s \in {x \in ToSet(snaps) : x.project = project}}
      At(h) == latest_snapshot(snaps, project, h)
      ids == UNION {{<<c.kind, c.name>> : c \in At(h).components} : h \in hosts}
      Values(id) == {State(At(h).components, id) : h \in hosts}
  IN  {id \in ids : Cardinality(Values(id)) > 1}

shadow_conflicts(keys) ==
  LET Items(key) == IF key \in DOMAIN keys THEN ToSet(keys[key].effective.items) ELSE {}
  IN  Items("permissions.allow") \cap Items("permissions.deny")

\* drift_lines: the brief's DRIFT rows for one project, from its newest snapshot of
\* any host. (The pin and budget rows compare numbers and are left out.)
drift_lines(snaps, project) ==
  LET s == latest_snapshot(snaps, project, None)
  IN  IF s = None THEN {}
      ELSE {<<"key", k>> : k \in {x \in DOMAIN s.keys : s.keys[x].disagrees_with_probe}}
             \union {<<c.kind, c.name>> : c \in {x \in s.components : x.disagrees_with_probe}}
             \union {<<"deny", p>> : p \in shadow_conflicts(s.keys)}

\* ---------------------------------------------------------------- properties
\* A deny rule of any layer survives the merge: it is in the effective list, every
\* skill it names is inert, and a pattern some layer allows as well is reported as
\* drift. For the permission lists when every layer writes them as lists.
DenySurvives(files, env, probe) ==
  LET r == resolve_project(files, env, probe)
      Rules(key) == UNION {ToSet(files.layers[n][key].items) :
                             n \in {m \in ToSet(LAYER_ORDER) : key \in DOMAIN files.layers[m]}}
      snaps == <<[project |-> "p", host |-> "h", keys |-> r.keys, components |-> r.components]>>
  IN  \A rule \in Rules("permissions.deny") :
        /\ rule \in ToSet(r.keys["permissions.deny"].effective.items)
        /\ \A c \in r.components : c.kind = "skill" /\ c.name = rule => c.invocable = FALSE
        /\ rule \in Rules("permissions.allow") => <<"deny", rule>> \in drift_lines(snaps, "p")

\* The probe has the last word: where it reports a value for a key the files
\* predict, that value is the effective one, and exactly the keys it changed are
\* drift.
MeasurementWins(files, env, probe) ==
  LET before == apply_env_overlay(merge_layers(files.layers), env.hard, env.soft)
      keys == resolve_project(files, env, probe).keys
  IN  probe # None =>
        \A key \in {"model", "permission_mode"} \cap DOMAIN before :
          /\ probe[key] # None => keys[key].effective = Scalar(probe[key])
          /\ keys[key].disagrees_with_probe <=> keys[key].effective # before[key].effective

\* Drift is never cried on silence: a component is drift only if the probe
\* enumerated its kind; and no silent no-op is missed: a skill the files call
\* invocable and the probe calls not, and a server the gates open and the probe
\* does not list, are drift.
NoFalseDrift(files, env, probe) ==
  \A c \in resolve_project(files, env, probe).components :
    /\ c.disagrees_with_probe =>
         /\ probe # None
         /\ c.kind = "skill" => probe.skills # None
         /\ c.kind = "mcp" => probe.mcp # None
         /\ c.kind = "plugin" => probe.plugins # None
    /\ probe # None /\ c.invocable = TRUE =>
         /\ (c.kind = "skill" /\ probe.skills # None /\ c.name \in DOMAIN probe.skills)
              => (c.disagrees_with_probe <=> ~probe.skills[c.name])
         /\ (c.kind = "mcp" /\ probe.mcp # None)
              => (c.disagrees_with_probe <=> c.name \notin probe.mcp)

\* A file is walked once however many files import it, cycles included, and
\* exactly the existing files some entry reaches are in the inventory, each at a
\* depth one more than a file that imports it.
MemoryOnce(imports, entries) ==
  LET out == walk_memory(imports, entries)
      names == {out[i].name : i \in DOMAIN out}
  IN  /\ Cardinality(names) = Len(out)
      /\ ToSet(entries) \cap DOMAIN imports \subseteq names
      /\ \A n \in names : ToSet(imports[n]) \cap DOMAIN imports \subseteq names
      /\ \A i \in DOMAIN out :
           \/ out[i].depth = 0 /\ out[i].name \in ToSet(entries)
           \/ \E j \in 1..(i - 1) : /\ out[j].depth + 1 = out[i].depth
                                    /\ out[i].name \in ToSet(imports[out[j].name])

\* Two hosts show no difference in a component exactly when their newest
\* resolutions agree on whether it exists and may be invoked; older snapshots
\* play no part.
DiffExact(snaps, project) ==
  LET hosts == {s.host : s \in {x \in ToSet(snaps) : x.project = project}}
      Newest(h) == snaps[Max({i \in DOMAIN snaps : snaps[i].project = project /\ snaps[i].host = h})]
      Has(h, id) == {c.invocable : c \in {x \in Newest(h).components : <<x.kind, x.name>> = id}}
  IN  \A h, g \in hosts : \A c \in Newest(h).components :
        Has(h, <<c.kind, c.name>>) # Has(g, <<c.kind, c.name>>)
          => <<c.kind, c.name>> \in fleet_diff(snaps, project)
=============================================================================
