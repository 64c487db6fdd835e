-------------------------------- MODULE Secrets --------------------------------
(***************************************************************************)
(* The secrets resolver (collectors/secrets.py): one store holds a default *)
(* of each key and overrides for a host or a project; push writes the keys *)
(* a project declares into the .env of its worktree on this host, rotate   *)
(* stores a value and pushes to the projects it is about.  A value is the  *)
(* place it was stored at and its version.                                 *)
(***************************************************************************)
EXTENDS Integers, Sequences, FiniteSets, FiniteSetsExt

CONSTANTS
    Key,           \* names of keys
    Host,
    Projects,      \* registry.yaml's projects, in order: [keys, hosts]
    MaxRotations,  \* bound: rotations
    MaxFaults      \* bound: commands that die, decryptions that fail

VARIABLES
    store,   \* store[place][key]: the version, 0 where there is none
    env,     \* env[h][p]: the .env of p's worktree on h, key -> value
    todo,    \* the pushes the command in progress has left: [host, left]
    faults,
    stale    \* worktrees whose .env nobody has written since a rotation elsewhere, or was
             \* written wrongly or not at all when a command failed (history)

vars == <<store, env, todo, faults, stale>>

Project == DOMAIN Projects
Place == {<<"default", 0>>} \cup {<<"host", h>> : h \in Host} \cup {<<"project", p>> : p \in Project}
Worktrees == {w \in Host \X Project : w[1] \in Projects[w[2]].hosts}
Missing == <<>>
Resting == [host |-> 0, left |-> {}]

TypeOK ==
    /\ store \in [Place -> [Key -> 0 .. MaxRotations]]
    /\ \A h \in Host, p \in Project : DOMAIN env[h][p] \subseteq Projects[p].keys
    /\ todo.left \subseteq Project /\ faults \in 0 .. MaxFaults
    /\ stale \subseteq Worktrees

Init ==
    /\ store = [x \in Place |-> [k \in Key |-> 0]]
    /\ env = [h \in Host |-> [p \in Project |-> <<>>]]
    /\ todo = Resting
    /\ faults = 0 /\ stale = {}

-----------------------------------------------------------------------------

\* scoped_name: with both given, the project is meant.
scoped_name(project, host) ==
    IF project # 0 THEN <<"project", project>>
    ELSE IF host # 0 THEN <<"host", host>> ELSE <<"default", 0>>

\* The first of some places that holds the key; a place that cannot be decrypted reads as one
\* that does not.
FirstOf(order, k, unread) ==
    LET found == {i \in DOMAIN order : store[order[i]][k] > 0 /\ order[i] \notin unread}
    IN  IF found = {} THEN Missing ELSE <<order[Min(found)], store[order[Min(found)]][k]>>

\* (mutant: the host's override wins over the project's)
ResolveHostFirst(k, p, h, unread) ==
    FirstOf(<<scoped_name(0, h), scoped_name(p, 0), scoped_name(0, 0)>>, k, unread)

\* The most specific place that holds the key.
resolve_key(k, p, h, unread) ==
    FirstOf(<<scoped_name(p, 0), scoped_name(0, h), scoped_name(0, 0)>>, k, unread)

\* The whole .env, of the keys that were found, replaces the old one at once.
WriteEnv(h, p, unread) ==
    LET Value(k) == resolve_key(k, p, h, unread) IN
    env' = [env EXCEPT ![h][p] =
              [k \in {x \in Projects[p].keys : Value(x) # Missing} |-> Value(k)]]

\* Projects are pushed in the order the registry lists them.
PushOne ==
    /\ todo.left # {}
    /\ LET p == Min(todo.left)
       IN  /\ WriteEnv(todo.host, p, {})
           /\ stale' = stale \ {<<todo.host, p>>}
           /\ todo' = [todo EXCEPT !.left = @ \ {p}]
    /\ UNCHANGED <<store, faults>>

\* sops fails for a place: the push goes on without it.
PushUnread ==
    /\ todo.left # {} /\ faults < MaxFaults
    /\ faults' = faults + 1
    /\ LET p == Min(todo.left)
       IN  /\ \E x \in Place : WriteEnv(todo.host, p, {x})
           /\ stale' = stale \cup {<<todo.host, p>>}
           /\ todo' = [todo EXCEPT !.left = @ \ {p}]
    /\ UNCHANGED store

\* The projects with keys and a worktree on this host.
Here(h, targets) == {p \in targets : Projects[p].keys # {} /\ <<h, p>> \in Worktrees}

push_all(h) ==
    /\ todo.left = {}
    /\ todo' = [host |-> h, left |-> Here(h, Project)]
    /\ UNCHANGED <<store, env, faults, stale>>

Rotations == MapThenSumSet(LAMBDA e : store[e[1]][e[2]], Place \X Key)

Declaring(k) == {p \in Project : k \in Projects[p].keys}

\* The value is stored, then the projects it is about are pushed one by one, on this host.
rotate(h, k, project, host) ==
    LET x == scoped_name(project, host)
        targets == IF project # 0 THEN {project} ELSE Declaring(k)
    IN  /\ todo.left = {} /\ Rotations < MaxRotations
        /\ store' = [store EXCEPT ![x][k] = @ + 1]
        /\ todo' = [host |-> h, left |-> Here(h, targets \cap Declaring(k))]
        /\ stale' = stale \cup {w \in Worktrees : w[1] # h /\ w[2] \in Declaring(k)}
        /\ UNCHANGED <<env, faults>>

\* write_env raises (no worktree any more, no disk) or the command is interrupted.
Die ==
    /\ todo.left # {} /\ faults < MaxFaults
    /\ faults' = faults + 1
    /\ stale' = stale \cup {<<todo.host, p>> : p \in todo.left}
    /\ todo' = Resting
    /\ UNCHANGED <<store, env>>

Next ==
    \/ PushOne \/ PushUnread \/ Die
    \/ \E h \in Host : \/ push_all(h)
                       \/ \E k \in Key, p \in Project \cup {0}, g \in Host \cup {0} : rotate(h, k, p, g)

-----------------------------------------------------------------------------
(* Properties *)

\* "Most specific wins: project > host > default", in the files themselves: between commands
\* every declared key of a worktree has the value of the most specific place of the store,
\* after any sequence of rotations, but where a rotation ran on another host or a command
\* failed and the worktree has not been pushed since.
EnvCurrent ==
    todo.left = {} =>
        \A w \in Worktrees \ stale : \A k \in Projects[w[2]].keys :
            LET Holds(x) == store[x][k] > 0
                own == <<"project", w[2]>>
                host == <<"host", w[1]>>
                all == <<"default", 0>>
                Reads(x) == k \in DOMAIN env[w[1]][w[2]] /\ env[w[1]][w[2]][k] = <<x, store[x][k]>>
            IN  /\ Holds(own) => Reads(own)
                /\ ~Holds(own) /\ Holds(host) => Reads(host)
                /\ ~Holds(own) /\ ~Holds(host) /\ Holds(all) => Reads(all)

==============================================================================
