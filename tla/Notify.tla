-------------------------------- MODULE Notify --------------------------------
(***************************************************************************)
(* Outbound notifications (collectors/notify.py): a scan sends every event *)
(* on the board that the watermark file does not hold, and writes the file *)
(* back after the last delivery.  Scans are not serialised.                *)
(***************************************************************************)
EXTENDS Integers, FiniteSets, Functions

CONSTANTS
    Pair,        \* (project, cadence) pairs with receipts
    Scanner,     \* the processes that may be scanning at once
    KeepDays,    \* the watermark forgets entries older than this
    MaxRuns,     \* bound: runs of one pair
    MaxDay,      \* bound: days
    MaxSpoiled   \* bound: overlapping scans and deaths

VARIABLES
    tip,        \* tip[q]: the pair's latest receipt: which run, red or not, overdue or not
    approval,   \* the approve_push decision: "none", "pending" or "decided"
    now,        \* the day
    watermark,  \* notify-state.json: id -> the day it was sent
    scan,       \* scan[s]: the process's copy of the watermark and what it has left to send
    sent,       \* sent[e]: how often the operator received e (history)
    spoiled     \* scans that overlapped another or died, entries pruned early (history)

board_vars == <<tip, approval, now>>
vars == <<tip, approval, now, watermark, scan, sent, spoiled>>

Approval == "approve_push"
Event == {<<q, n>> : q \in Pair, n \in 1 .. MaxRuns} \cup {<<Approval, 1>>}

\* (mutant: only a red verdict counts, a pair that has gone stale does not)
BoardRedOnly ==
    {<<q, tip[q].run>> : q \in {p \in Pair : tip[p].red}}
        \cup (IF approval = "pending" THEN {<<Approval, 1>>} ELSE {})

\* build_events: the tip run of every pair whose severity is R (red, stale, or amber past its
\* limit), and the approvals that are pending.
board ==
    {<<q, tip[q].run>> : q \in {p \in Pair : tip[p].red \/ tip[p].overdue}}
        \cup (IF approval = "pending" THEN {<<Approval, 1>>} ELSE {})

Idle == [on |-> FALSE, wm |-> <<>>, left |-> {}, any |-> FALSE]

TypeOK ==
    /\ tip \in [Pair -> [run : 0 .. MaxRuns, red : BOOLEAN, overdue : BOOLEAN]]
    /\ approval \in {"none", "pending", "decided"}
    /\ now \in 0 .. MaxDay /\ spoiled \in Nat
    /\ DOMAIN watermark \subseteq Event
    /\ \A s \in Scanner : scan[s].left \subseteq Event /\ DOMAIN scan[s].wm \subseteq Event
    /\ sent \in [Event -> Nat]

Init ==
    /\ tip = [q \in Pair |-> [run |-> 0, red |-> FALSE, overdue |-> FALSE]]
    /\ approval = "none"
    /\ now = 0
    /\ watermark = <<>>
    /\ scan = [s \in Scanner |-> Idle]
    /\ sent = [e \in Event |-> 0]
    /\ spoiled = 0

-----------------------------------------------------------------------------
(* The board changes: a run ends, a pair grows overdue, an approval comes and goes *)

RunEnds(q, red) ==
    /\ tip[q].run < MaxRuns
    /\ tip' = [tip EXCEPT ![q] = [run |-> @.run + 1, red |-> red, overdue |-> FALSE]]
    /\ UNCHANGED <<approval, now, watermark, scan, sent, spoiled>>

GrowsOverdue(q) ==
    /\ tip[q].run > 0 /\ ~tip[q].overdue
    /\ tip' = [tip EXCEPT ![q].overdue = TRUE]
    /\ UNCHANGED <<approval, now, watermark, scan, sent, spoiled>>

ApprovalChanges ==
    /\ \/ approval = "none" /\ approval' = "pending"
       \/ approval = "pending" /\ approval' = "decided"
    /\ UNCHANGED <<tip, now, watermark, scan, sent, spoiled>>

NextDay ==
    /\ now < MaxDay
    /\ now' = now + 1
    /\ UNCHANGED <<tip, approval, watermark, scan, sent, spoiled>>

BoardStep == \/ ApprovalChanges \/ NextDay
             \/ \E q \in Pair : GrowsOverdue(q) \/ \E red \in BOOLEAN : RunEnds(q, red)

-----------------------------------------------------------------------------
(* A scan *)

Stamp(wm, e) == [x \in DOMAIN wm \cup {e} |-> IF x = e THEN now ELSE wm[x]]

\* Entries older than KeepDays go, whether or not their event is still on the board.
Prune(wm) == Restrict(wm, {e \in DOMAIN wm : now - wm[e] <= KeepDays})

Overlaps(s) == \E t \in Scanner \ {s} : scan[t].on

\* build_events, then load_watermark.
Begin(s) ==
    /\ ~scan[s].on
    /\ board \ DOMAIN watermark # {}
    /\ Overlaps(s) => spoiled < MaxSpoiled
    /\ spoiled' = IF Overlaps(s) THEN spoiled + 1 ELSE spoiled
    /\ scan' = [scan EXCEPT ![s] =
          [on |-> TRUE, wm |-> watermark, left |-> board \ DOMAIN watermark, any |-> FALSE]]
    /\ UNCHANGED <<board_vars, watermark, sent>>

Deliver(s, e) ==
    /\ e \in scan[s].left
    /\ sent' = [sent EXCEPT ![e] = @ + 1]
    /\ scan' = [scan EXCEPT ![s].left = @ \ {e}, ![s].wm = Stamp(@, e), ![s].any = TRUE]
    /\ UNCHANGED <<board_vars, watermark, spoiled>>

\* A transport failure: the event stays out of the watermark.
Fail(s, e) ==
    /\ e \in scan[s].left
    /\ scan' = [scan EXCEPT ![s].left = @ \ {e}]
    /\ UNCHANGED <<board_vars, watermark, sent, spoiled>>

\* (mutant: the watermark is not written back)
FinishUnsaved(s) ==
    /\ scan[s].on /\ scan[s].left = {}
    /\ scan' = [scan EXCEPT ![s] = Idle]
    /\ UNCHANGED <<board_vars, watermark, sent, spoiled>>

\* The whole file is written back, over whatever another scan saved meanwhile.
Finish(s) ==
    /\ scan[s].on /\ scan[s].left = {}
    /\ watermark' = IF scan[s].any THEN Prune(scan[s].wm) ELSE watermark
    /\ spoiled' = IF scan[s].any
                    THEN spoiled + Cardinality(board \cap (DOMAIN scan[s].wm \ DOMAIN Prune(scan[s].wm)))
                    ELSE spoiled
    /\ scan' = [scan EXCEPT ![s] = Idle]
    /\ UNCHANGED <<board_vars, sent>>

\* The process dies; in the middle of write_text it leaves a file that reads as empty.
Die(s) ==
    /\ scan[s].on
    /\ spoiled < MaxSpoiled
    /\ spoiled' = spoiled + 1
    /\ scan' = [scan EXCEPT ![s] = Idle]
    /\ watermark' \in IF scan[s].left = {} /\ scan[s].any THEN {watermark, <<>>} ELSE {watermark}
    /\ UNCHANGED <<board_vars, sent>>

ScanStep == \E s \in Scanner : \/ Begin(s) \/ Finish(s) \/ Die(s)
                               \/ \E e \in Event : Deliver(s, e) \/ Fail(s, e)

Next == BoardStep \/ ScanStep

\* Collections keep coming, a scan that runs goes on, and the channel works now and then.
Fairness ==
    /\ WF_vars(\E s \in Scanner : Begin(s))
    /\ WF_vars(\E s \in Scanner : Finish(s))
    /\ \A e \in Event : SF_vars(\E s \in Scanner : Deliver(s, e))

Spec == Init /\ [][Next]_vars /\ Fairness

-----------------------------------------------------------------------------
(* Properties *)

\* What the watermark claims to have sent was sent: no failure, overlap or torn file makes
\* the scan skip an event the operator never received.
WatermarkHonest ==
    \A e \in Event : e \in DOMAIN watermark => sent[e] > 0

\* "Idempotent via the spool watermark": an event is received once, and once more at most for
\* every scan that overlapped another or died and every entry pruned while still on the board.
ResentOnlyAfterSpoil == \A e \in Event : sent[e] <= 1 + spoiled

Wanted(e) == \/ e = <<Approval, 1>> /\ approval = "pending"
             \/ \E p \in Pair : e = <<p, tip[p].run>> /\ (tip[p].red \/ tip[p].overdue)

\* A pair that stays red or overdue, and an approval that stays pending, reach the operator,
\* whatever the scans that overlap or die and the files they leave.
EventsReachOperator == \A e \in Event : Wanted(e) ~> (sent[e] > 0 \/ ~Wanted(e))
==============================================================================
