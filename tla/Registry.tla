------------------------------- MODULE Registry -------------------------------
(***************************************************************************)
(* The files the dashboard edits: registry.yaml (cadences, overrides,      *)
(* autorun), cadences/, prompts/ and the loop library.  collectors/loops.py*)
(* wires and unwires loops in several writes, scheduler.py and discover.py *)
(* edit the registry, web.apply_action calls them.  One editor works at a  *)
(* time here and may die between two writes; a form may come from a page   *)
(* that is no longer true.  Lists are the inline ones the tools write.     *)
(***************************************************************************)
EXTENDS Integers, Sequences, FiniteSets

CONSTANTS
    Project, Loop,
    Catalog,     \* loops with a built-in template
    Starter,     \* the loop a registered project starts with (docs-sync)
    Founders,    \* projects of the registry at the beginning
    Tuned,       \* bound: projects whose overrides and autorun are edited
    MaxDeaths    \* bound: editors that die half way

VARIABLES
    reg,        \* registry.yaml: project -> its cadences, overrides, autorun (or not listed)
    applies,    \* cadences/<loop>.yaml: applies_to
    cadence,    \* the loops with a cadences/<loop>.yaml
    prompt,     \* the loops with a prompts/<loop>.md
    library,    \* the loops with a loops/<loop>.yaml
    todo,       \* the writes the present edit has left
    editing,    \* the project and loop it is about
    deaths,
    torn,       \* pairs whose edit died and no later enable finished, or that a stale form
                \* gave an override (history)
    halfMade    \* loops whose prompt a dying edit left unwritten (history)

files == <<reg, applies, cadence, prompt, library>>
vars == <<files, todo, editing, deaths, torn, halfMade>>

Unlisted == [listed |-> FALSE, cadences |-> {}, schedules |-> {}, tiers |-> {},
             autorun |-> FALSE]
Listed == {p \in Project : reg[p].listed}
Nothing == <<>>
Quiet == todo = Nothing

TypeOK ==
    /\ reg \in [Project -> [listed : BOOLEAN, cadences : SUBSET Loop,
                            schedules : SUBSET Loop, tiers : SUBSET Loop, autorun : BOOLEAN]]
    /\ \A p \in Project \ Listed : reg[p] = Unlisted
    /\ applies \in [Loop -> SUBSET Listed]
    /\ cadence \subseteq Loop /\ prompt \subseteq Loop /\ library \subseteq Loop
    /\ \A l \in Loop \ cadence : applies[l] = {}
    /\ torn \subseteq Project \X Loop /\ halfMade \subseteq Loop

Init ==
    /\ reg = [p \in Project |-> IF p \in Founders
                THEN [Unlisted EXCEPT !.listed = TRUE, !.cadences = {Starter}] ELSE Unlisted]
    /\ applies = [l \in Loop |-> IF l = Starter THEN Founders ELSE {}]
    /\ cadence = {Starter} /\ prompt = {Starter}
    /\ library = {}
    /\ todo = Nothing /\ editing = Nothing
    /\ deaths = 0 /\ torn = {} /\ halfMade = {}

-----------------------------------------------------------------------------
(* The edits: what is asked first, and the writes that follow *)

\* _spec_for: the loops there is a library file or a catalog template of.
Specified == library \cup Catalog

Begin(p, l, writes) ==
    /\ Quiet
    /\ todo' = writes /\ editing' = <<p, l>>
    /\ UNCHANGED <<files, deaths, torn, halfMade>>

\* The optional settings of the add-loop form follow the wiring.
Options(withTier, withPreset) ==
    (IF withTier THEN <<"tier">> ELSE <<>>) \o (IF withPreset THEN <<"try-schedule">> ELSE <<>>)

Enable(p, l, options) ==
    /\ p \in Listed
    /\ \/ l \in cadence /\ Begin(p, l, <<"apply", "wire">> \o options)
       \/ l \in Specified \ cadence
          /\ Begin(p, l, <<"create", "prompt", "wire">> \o options)

\* (mutant: the overrides stay)
DisableKeepsOverrides(p, l) ==
    /\ p \in Listed /\ l \in reg[p].cadences
    /\ Begin(p, l, <<"unwire", "unapply">>)

\* Nothing is done where the project does not list the loop.
Disable(p, l) ==
    /\ p \in Listed /\ l \in reg[p].cadences
    /\ Begin(p, l, <<"unwire", "unapply", "unschedule", "untier">>)

\* A preset needs autorun; the loop itself is not looked up: the page may be stale.
SetLoopSchedule(p, l) ==
    /\ Quiet /\ p \in Listed
    /\ \/ /\ reg[p].autorun
          /\ reg' = [reg EXCEPT ![p].schedules = @ \cup {l}]
          /\ torn' = IF l \in reg[p].cadences THEN torn ELSE torn \cup {<<p, l>>}
       \/ reg' = [reg EXCEPT ![p].schedules = @ \ {l}] /\ UNCHANGED torn
    /\ UNCHANGED <<applies, cadence, prompt, library, todo, editing, deaths, halfMade>>

SetLoopTier(p, l) ==
    /\ Quiet /\ p \in Listed
    /\ \/ /\ reg' = [reg EXCEPT ![p].tiers = @ \cup {l}]
          /\ torn' = IF l \in reg[p].cadences THEN torn ELSE torn \cup {<<p, l>>}
       \/ reg' = [reg EXCEPT ![p].tiers = @ \ {l}] /\ UNCHANGED torn
    /\ UNCHANGED <<applies, cadence, prompt, library, todo, editing, deaths, halfMade>>

SetProjectAutorun(p, value) ==
    /\ Quiet /\ p \in Listed
    /\ reg' = [reg EXCEPT ![p].autorun = value]
    /\ UNCHANGED <<applies, cadence, prompt, library, todo, editing, deaths, torn, halfMade>>

\* The stanza names the starter loop; the loop's own file is not touched.
RegisterProject(p) ==
    /\ Quiet /\ p \notin Listed
    /\ reg' = [reg EXCEPT ![p].listed = TRUE, ![p].cadences = {Starter}]
    /\ UNCHANGED <<applies, cadence, prompt, library, todo, editing, deaths, torn, halfMade>>

\* The form writes the library and the prompt; a committed cadence keeps its metrics.
Author(p, l) == Begin(p, l, <<"author-spec", "author-prompt">>)

\* customize copies a template into the library once; new adds one that exists nowhere.
AddToLibrary(l) ==
    /\ Quiet /\ l \notin library
    /\ library' = library \cup {l}
    /\ UNCHANGED <<reg, applies, cadence, prompt, todo, editing, deaths, torn, halfMade>>

-----------------------------------------------------------------------------
(* The writes, in their order *)

WriteRegistry(w, p, l) ==
    /\ reg' = CASE w = "wire"       -> [reg EXCEPT ![p].cadences = @ \cup {l}]
                [] w = "unwire"     -> [reg EXCEPT ![p].cadences = @ \ {l}]
                [] w = "tier"       -> [reg EXCEPT ![p].tiers = @ \cup {l}]
                [] w = "untier"     -> [reg EXCEPT ![p].tiers = @ \ {l}]
                [] w = "unschedule" -> [reg EXCEPT ![p].schedules = @ \ {l}]
                [] w = "try-schedule" -> IF reg[p].autorun   \* quietly ignored in queue mode
                                           THEN [reg EXCEPT ![p].schedules = @ \cup {l}] ELSE reg
    /\ UNCHANGED <<applies, cadence, prompt, library>>

WriteCadence(w, p, l) ==
    /\ applies' = [applies EXCEPT ![l] = IF w = "unapply" THEN @ \ {p} ELSE @ \cup {p}]
    /\ cadence' = cadence \cup {l}
    /\ UNCHANGED <<reg, prompt, library>>

WriteSpec(l) ==
    /\ library' = library \cup {l}
    /\ UNCHANGED <<reg, applies, cadence, prompt>>

WritePrompt(l) ==
    /\ prompt' = prompt \cup {l}
    /\ UNCHANGED <<reg, applies, cadence, library>>

Write ==
    /\ ~Quiet
    /\ LET w == Head(todo)  p == editing[1]  l == editing[2] IN
       /\ \/ w \in {"wire", "unwire", "tier", "untier", "unschedule", "try-schedule"}
             /\ WriteRegistry(w, p, l)
          \/ w \in {"create", "apply"} /\ WriteCadence(w, p, l)
          \/ w = "unapply" /\ l \in cadence /\ WriteCadence(w, p, l)
          \/ w = "unapply" /\ l \notin cadence /\ UNCHANGED files
          \/ w = "author-spec" /\ WriteSpec(l)
          \/ w \in {"prompt", "author-prompt"} /\ WritePrompt(l)
       /\ todo' = Tail(todo)
       /\ editing' = IF Tail(todo) = Nothing THEN Nothing ELSE editing
       /\ torn' = IF w = "wire" THEN torn \ {<<p, l>>} ELSE torn
       /\ halfMade' = IF w \in {"prompt", "author-prompt"} THEN halfMade \ {l} ELSE halfMade
    /\ UNCHANGED deaths

\* The process or the thread ends between two writes.
Die ==
    /\ ~Quiet /\ deaths < MaxDeaths
    /\ deaths' = deaths + 1
    /\ todo' = Nothing /\ editing' = Nothing
    /\ torn' = torn \cup {editing}
    /\ halfMade' = IF "prompt" \in {todo[i] : i \in DOMAIN todo} /\ editing[2] \in cadence
                     THEN halfMade \cup {editing[2]} ELSE halfMade
    /\ UNCHANGED files

Next ==
    \/ \E p \in Project, l \in Loop : Enable(p, l, <<>>) \/ Disable(p, l) \/ Author(p, l)
    \/ \E p \in Tuned, l \in Loop :
         \/ \E t, s \in BOOLEAN : Enable(p, l, Options(t, s))
         \/ SetLoopSchedule(p, l) \/ SetLoopTier(p, l)
    \/ \E p \in Tuned, v \in BOOLEAN : SetProjectAutorun(p, v)
    \/ \E p \in Project : RegisterProject(p)
    \/ \E l \in Loop : AddToLibrary(l)
    \/ Write \/ Die

Spec == Init /\ [][Next]_vars

\* What validate finds: overrides of loops the project does not run, cadence files that name
\* unknown projects, and cadence files whose prompt is missing.
validate ==
    {<<"override", x[1], x[2]>> : x \in {y \in Listed \X Loop :
                                            y[2] \in reg[y[1]].schedules \ reg[y[1]].cadences}}
      \cup {<<"unknown project", l>> : l \in {m \in cadence : ~(applies[m] \subseteq Listed)}}
      \cup {<<"no prompt", l>> : l \in cadence \ prompt}

-----------------------------------------------------------------------------
(* Properties *)

\* validate.py passes between edits, and no tier override is for a loop its project does not
\* run, which validate does not ask: no editor looks that up.  Excepted are the pairs a dead
\* edit or a stale form left behind, until an enable of the pair goes through, and the loops
\* whose prompt a dead edit did not write.
ValidBetweenEdits ==
    Quiet => /\ validate \subseteq {<<"override", x[1], x[2]>> : x \in torn}
                                    \cup {<<"no prompt", l>> : l \in halfMade}
             /\ \A p \in Listed : \A l \in reg[p].tiers \ reg[p].cadences : <<p, l>> \in torn

\* A loop some project lists has its cadence file and its prompt at every moment, also in the
\* middle of an edit: the scheduler may read between two writes.
WiredIsRunnable ==
    \A p \in Listed : \A l \in reg[p].cadences :
        l \in cadence /\ (l \in prompt \/ l \in halfMade)

\* Between edits, the cadence files name the projects that list them, but for the starter
\* loop of a registered project.
AppliesAgree ==
    Quiet => \A p \in Listed, l \in Loop : <<p, l>> \notin torn =>
        /\ p \in applies[l] => l \in reg[p].cadences
        /\ l \in reg[p].cadences => p \in applies[l] \/ l = Starter

==============================================================================
