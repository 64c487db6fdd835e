--------------------------- MODULE MCDecisionQueue ---------------------------
(* Instances of DecisionQueue for TLC: decisions 1 and 2, in ULID order. *)
EXTENDS DecisionQueue

CONSTANTS app, other, s1, s2

\* A setting, then a message that expires on day 1.
SettingThenMessage == <<"apply_setting", "dispatch_cadence">>
\* A push to approve, then a setting.
PushThenSetting    == <<"approve_push", "apply_setting">>
\* A message and a pin: one for each drain.
MessageThenPin     == <<"dispatch_cadence", "set_pin">>
SecondExpires      == <<NoDay, 1>>
NoneExpires        == <<NoDay, NoDay>>
SameProject        == <<app, app>>
TwoProjects        == <<app, other>>
Sessions           == [s \in Session |-> app]
=============================================================================
