------------------------------ MODULE Promotion ------------------------------
(***************************************************************************)
(* Moving a user's skill into the marketplace plugin (collectors/          *)
(* promote.py): the directory first, then three files that name a version, *)
(* one write each, and the process may die between any two of them.        *)
(***************************************************************************)
EXTENDS Naturals

CONSTANTS
    Skill,
    MaxVersion,   \* bound: bumps of the version
    MaxDeaths     \* bound: promotes that die half way

VARIABLES
    home,      \* the skills in the user's own directory
    shipped,   \* the skills in the plugin's directory
    version,   \* what plugin.json, marketplace.json and the registry's default pin say
    promoting, \* the skill in hand, what is done of it, and the version it bumps to
    deaths

vars == <<home, shipped, version, promoting, deaths>>

Files == {"plugin", "marketplace", "pin"}
Idle == [at |-> "idle"]
At(step, skill, to) == [at |-> step, skill |-> skill, to |-> to]

TypeOK ==
    /\ home \subseteq Skill /\ shipped \subseteq Skill
    /\ version \in [Files -> 0 .. MaxVersion]
    /\ promoting \in {Idle} \union [at : {"cleared", "moved", "plugin", "marketplace"},
                                    skill : Skill, to : 0 .. MaxVersion]
    /\ deaths \in 0 .. MaxDeaths

Init ==
    /\ home = Skill /\ shipped = {}
    /\ version = [f \in Files |-> 0]
    /\ promoting = Idle /\ deaths = 0

\* A skill that is not there raises; an older copy in the plugin is removed first.
Begin(s) ==
    /\ promoting = Idle /\ s \in home
    /\ shipped' = shipped \ {s}
    /\ promoting' = At("cleared", s, 0)
    /\ UNCHANGED <<home, version, deaths>>

Move ==
    /\ promoting.at = "cleared"
    /\ home' = home \ {promoting.skill}
    /\ shipped' = shipped \union {promoting.skill}
    /\ promoting' = [promoting EXCEPT !.at = "moved"]
    /\ UNCHANGED <<version, deaths>>

\* The new version is one more than what plugin.json says.
BumpPlugin ==
    /\ promoting.at = "moved" /\ version["plugin"] < MaxVersion
    /\ LET to == version["plugin"] + 1
       IN  /\ version' = [version EXCEPT !["plugin"] = to]
           /\ promoting' = [promoting EXCEPT !.at = "plugin", !.to = to]
    /\ UNCHANGED <<home, shipped, deaths>>

BumpMarketplace ==
    /\ promoting.at = "plugin"
    /\ version' = [version EXCEPT !["marketplace"] = promoting.to]
    /\ promoting' = [promoting EXCEPT !.at = "marketplace"]
    /\ UNCHANGED <<home, shipped, deaths>>

BumpPin ==
    /\ promoting.at = "marketplace"
    /\ version' = [version EXCEPT !["pin"] = promoting.to]
    /\ promoting' = Idle
    /\ UNCHANGED <<home, shipped, deaths>>

\* The user goes on working on a skill that was promoted, in a copy of their own.
Rewrite(s) ==
    /\ s \notin home /\ promoting = Idle
    /\ home' = home \union {s}
    /\ UNCHANGED <<shipped, version, promoting, deaths>>

Die ==
    /\ promoting # Idle /\ deaths < MaxDeaths
    /\ promoting' = Idle /\ deaths' = deaths + 1
    /\ UNCHANGED <<home, shipped, version>>

Next == \/ \E s \in Skill : Begin(s) \/ Rewrite(s)
        \/ Move \/ BumpPlugin \/ BumpMarketplace \/ BumpPin \/ Die

-----------------------------------------------------------------------------
(* Properties *)

\* However often a promote dies: the registry never pins a version that the marketplace does
\* not offer, nor the marketplace one that the plugin has not reached, and one promote that
\* comes through makes the three agree again.
PinNeverAhead ==
    /\ version["pin"] <= version["marketplace"]
    /\ version["marketplace"] <= version["plugin"]
    /\ promoting.at = "marketplace" => version["marketplace"] = version["plugin"]
    /\ promoting = Idle /\ deaths = 0 => version["pin"] = version["plugin"]

\* A skill is in the user's directory or in the plugin at every moment.
SkillNeverLost == home \union shipped = Skill
==============================================================================
