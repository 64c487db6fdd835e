------------------------------ MODULE NotifyProofs ------------------------------
(***************************************************************************)
(* Proofs about Notify, for any pairs and any number of scans that overlap *)
(* and die: what the watermark claims was sent, and how often an event is  *)
(* sent again.                                                             *)
(***************************************************************************)
EXTENDS Notify, FiniteSetTheorems, TLAPS

\* What is asked of the constants; no loop is called like the approval.
Countable ==
    /\ IsFiniteSet(Pair) /\ Approval \notin Pair
    /\ IsFiniteSet(Scanner)
    /\ MaxRuns \in Nat /\ MaxDay \in Nat

-----------------------------------------------------------------------------
(* Sets of scans, and how many there are *)

\* A subset is no larger.
LEMMA CardSub ==
    ASSUME NEW S, NEW T, IsFiniteSet(T), S \subseteq T
    PROVE  /\ IsFiniteSet(S) /\ Cardinality(S) <= Cardinality(T)
           /\ Cardinality(S) \in Nat /\ Cardinality(T) \in Nat
  BY FS_Subset, FS_CardinalityType

\* One more member, one more at most.
LEMMA CardAdd ==
    ASSUME NEW S, NEW T, NEW x, IsFiniteSet(T), S \subseteq T \cup {x}
    PROVE  Cardinality(S) <= Cardinality(T) + 1
  <1>0. Cardinality(T) \in Nat
    BY FS_CardinalityType
  <1>1. IsFiniteSet(T \cup {x}) /\ Cardinality(T \cup {x}) <= Cardinality(T) + 1
    BY <1>0, FS_AddElement
  <1>2. Cardinality(S) <= Cardinality(T \cup {x})
        /\ Cardinality(S) \in Nat /\ Cardinality(T \cup {x}) \in Nat
    BY <1>1, CardSub
  <1>3. QED
    BY <1>0, <1>1, <1>2

\* One member less.
LEMMA CardDrop ==
    ASSUME NEW S, NEW T, NEW x \in T, IsFiniteSet(T), S \subseteq T \ {x}
    PROVE  Cardinality(S) + 1 <= Cardinality(T) /\ Cardinality(S) \in Nat
  <1>1. IsFiniteSet(T \ {x}) /\ Cardinality(T \ {x}) = Cardinality(T) - 1
    BY FS_RemoveElement
  <1>2. Cardinality(S) <= Cardinality(T \ {x})
        /\ Cardinality(S) \in Nat /\ Cardinality(T \ {x}) \in Nat
    BY <1>1, CardSub
  <1>3. Cardinality(T) \in Nat
    BY FS_CardinalityType
  <1>4. QED
    BY <1>1, <1>2, <1>3

-----------------------------------------------------------------------------
(* What is typed, and what is on the board *)

WM == UNION {[D -> 0 .. MaxDay] : D \in SUBSET Event}

Scan == [on : BOOLEAN, wm : WM, left : SUBSET Event, any : BOOLEAN]

\* An event that has been on the board and will not be again.
Gone(e) ==
    \/ e = <<Approval, 1>> /\ approval = "decided"
    \/ \E q \in Pair, n \in 1 .. MaxRuns : e = <<q, n>> /\ n < tip[q].run

Seen(e) == e \in board \/ Gone(e)

Boards ==
    /\ tip \in [Pair -> [run : 0 .. MaxRuns, red : BOOLEAN, overdue : BOOLEAN]]
    /\ approval \in {"none", "pending", "decided"}
    /\ now \in 0 .. MaxDay
    /\ \A p \in Pair : tip[p].red \/ tip[p].overdue => tip[p].run >= 1

Files ==
    /\ watermark \in WM
    /\ scan \in [Scanner -> Scan]
    /\ spoiled \in Nat /\ sent \in [Event -> Nat]

\* What a scan knows to be sent was, and what it has left it does not know to be sent.
Honest ==
    /\ \A e \in Event : e \in DOMAIN watermark => sent[e] > 0
    /\ \A s \in Scanner : \A e \in Event : e \in DOMAIN scan[s].wm => sent[e] > 0
    /\ \A s \in Scanner : scan[s].left \cap DOMAIN scan[s].wm = {}
    /\ \A s \in Scanner : ~scan[s].on => scan[s].left = {}

\* What was sent, or is about to be, is or was on the board.
Shown ==
    /\ \A e \in Event : sent[e] > 0 => Seen(e)
    /\ \A s \in Scanner : \A e \in scan[s].left : Seen(e)

\* A watermark maps events to days.
LEMMA WMFunction ==
    ASSUME NEW w \in WM
    PROVE  DOMAIN w \subseteq Event /\ w = [x \in DOMAIN w |-> w[x]]
           /\ \A x \in DOMAIN w : w[x] \in 0 .. MaxDay
  BY DEF WM

\* The empty file is one.
LEMMA EmptyWM == <<>> \in WM /\ DOMAIN <<>> = {}
  BY DEF WM

\* Stamping an event adds it.
LEMMA StampWM ==
    ASSUME Boards, NEW w \in WM, NEW e \in Event
    PROVE  Stamp(w, e) \in WM /\ DOMAIN Stamp(w, e) = DOMAIN w \cup {e}
  <1>1. DOMAIN Stamp(w, e) = DOMAIN w \cup {e}
    BY DEF Stamp
  <1>2. Stamp(w, e) \in [DOMAIN w \cup {e} -> 0 .. MaxDay]
    BY WMFunction DEF Stamp, Boards
  <1>3. DOMAIN w \cup {e} \in SUBSET Event
    BY WMFunction
  <1>4. QED
    BY <1>1, <1>2, <1>3 DEF WM

\* Pruning only takes events out.
LEMMA PruneWM ==
    ASSUME NEW w \in WM
    PROVE  Prune(w) \in WM /\ DOMAIN Prune(w) \subseteq DOMAIN w
  <1> DEFINE D == {e \in DOMAIN w : now - w[e] <= KeepDays}
  <1>1. Prune(w) = [x \in D |-> w[x]]
    BY DEF Prune, Restrict
  <1>2. D \subseteq DOMAIN w /\ D \in SUBSET Event
    BY WMFunction
  <1>3. Prune(w) \in [D -> 0 .. MaxDay]
    BY <1>1, <1>2, WMFunction
  <1>4. QED
    BY <1>1, <1>2, <1>3 DEF WM

\* There are finitely many events.
LEMMA EventsFinite == Countable => IsFiniteSet(Event)
  <1> SUFFICES ASSUME Countable PROVE IsFiniteSet(Event)
    OBVIOUS
  <1>1. IsFiniteSet(1 .. MaxRuns)
    BY FS_Interval DEF Countable
  <1>2. IsFiniteSet(Pair \X (1 .. MaxRuns))
    BY <1>1, FS_Product DEF Countable
  <1>3. {<<p, n>> : p \in Pair, n \in 1 .. MaxRuns} = Pair \X (1 .. MaxRuns)
    OBVIOUS
  <1>4. IsFiniteSet((Pair \X (1 .. MaxRuns)) \cup {<<Approval, 1>>})
    BY <1>2, FS_AddElement
  <1>5. QED
    BY <1>3, <1>4 DEF Event

\* The board shows events.
LEMMA BoardEvents == Boards => board \subseteq Event
  BY DEF Boards, board, Event

\* And finitely many.
LEMMA BoardFinite == Countable /\ Boards => IsFiniteSet(board)
  BY EventsFinite, BoardEvents, FS_Subset

-----------------------------------------------------------------------------
(* The invariant.  Every scan that runs without e in its copy of the watermark may send  *)
(* e once more, or write a file without it: both are paid for, by the overlap under      *)
(* which all but one of them began.                                                      *)

\* The scans that have e to send, and those that will not write it back.
Owing(e) == {s \in Scanner : e \in scan[s].left}
Lag(e)   == {s \in Scanner : scan[s].on /\ e \notin DOMAIN scan[s].wm}

\* The file holds e, or a scan will write it.
Covered(e) ==
    \/ e \in DOMAIN watermark
    \/ \E s \in Scanner : scan[s].on /\ scan[s].any /\ e \in DOMAIN scan[s].wm

Due(e) ==
    /\ sent[e] + Cardinality(Owing(e)) <= 1 + spoiled
    /\ ~Gone(e) => /\ sent[e] + Cardinality(Lag(e)) <= 1 + spoiled
                   /\ ~Covered(e) => sent[e] <= spoiled

Inv == Boards /\ Files /\ Honest /\ Shown /\ \A e \in Event : Due(e)

\* What the invariant counts are numbers.
LEMMA Counts ==
    ASSUME Countable, Inv, NEW e \in Event
    PROVE  /\ IsFiniteSet(Owing(e)) /\ Cardinality(Owing(e)) \in Nat
           /\ IsFiniteSet(Lag(e)) /\ Cardinality(Lag(e)) \in Nat
           /\ Owing(e) \subseteq Lag(e) /\ Cardinality(Owing(e)) <= Cardinality(Lag(e))
           /\ sent[e] \in Nat /\ spoiled \in Nat
  <1>1. Owing(e) \subseteq Lag(e) /\ Lag(e) \subseteq Scanner
    BY DEF Owing, Lag, Inv, Honest
  <1>2. IsFiniteSet(Lag(e)) /\ Cardinality(Lag(e)) \in Nat
    BY <1>1, CardSub DEF Countable
  <1>3. IsFiniteSet(Owing(e)) /\ Cardinality(Owing(e)) \in Nat
        /\ Cardinality(Owing(e)) <= Cardinality(Lag(e))
    BY <1>1, <1>2, CardSub
  <1>4. sent[e] \in Nat /\ spoiled \in Nat
    BY DEF Inv, Files
  <1>5. QED
    BY <1>1, <1>2, <1>3, <1>4

-----------------------------------------------------------------------------
(* The board changes *)

\* The board changes: scans are not concerned.
LEMMA BoardInv ==
    ASSUME Countable, Inv, BoardStep
    PROVE  Inv'
  <1>0. /\ tip \in [Pair -> [run : 0 .. MaxRuns, red : BOOLEAN, overdue : BOOLEAN]]
        /\ approval \in {"none", "pending", "decided"} /\ now \in 0 .. MaxDay
        /\ \A p \in Pair : tip[p].red \/ tip[p].overdue => tip[p].run >= 1
        /\ MaxRuns \in Nat /\ MaxDay \in Nat /\ Approval \notin Pair
    BY DEF Inv, Boards, Countable
  <1> DEFINE Moves ==
        /\ UNCHANGED <<watermark, scan, sent, spoiled>>
        /\ Boards'
        /\ \A p \in Pair : \/ tip'[p].run = tip[p].run
                              /\ (tip[p].red \/ tip[p].overdue => tip'[p].red \/ tip'[p].overdue)
                           \/ tip'[p].run = tip[p].run + 1
        /\ approval = "decided" => approval' = "decided"
        /\ approval = "pending" => approval' \in {"pending", "decided"}
  <1>1. ASSUME NEW q \in Pair, NEW red \in BOOLEAN, RunEnds(q, red) PROVE Moves
    <2>1. [run |-> tip[q].run + 1, red |-> red, overdue |-> FALSE]
             \in [run : 0 .. MaxRuns, red : BOOLEAN, overdue : BOOLEAN]
      BY <1>0, <1>1 DEF RunEnds
    <2>2. /\ tip' = [tip EXCEPT ![q] = [run |-> tip[q].run + 1, red |-> red, overdue |-> FALSE]]
          /\ UNCHANGED <<approval, now, watermark, scan, sent, spoiled>>
      BY <1>1 DEF RunEnds
    <2>3. /\ tip'[q].run = tip[q].run + 1
          /\ \A p \in Pair \ {q} : tip'[p] = tip[p]
          /\ tip' \in [Pair -> [run : 0 .. MaxRuns, red : BOOLEAN, overdue : BOOLEAN]]
      BY <1>0, <2>1, <2>2
    <2>4. \A p \in Pair : tip'[p].red \/ tip'[p].overdue => tip'[p].run >= 1
      BY <1>0, <2>3
    <2>5. QED
      BY <1>0, <2>2, <2>3, <2>4 DEF Boards
  <1>2. ASSUME NEW q \in Pair, GrowsOverdue(q) PROVE Moves
    <2>1. /\ \A p \in Pair \ {q} : tip'[p] = tip[p]
          /\ tip'[q].run = tip[q].run /\ tip'[q].red = tip[q].red /\ tip'[q].overdue
          /\ tip[q].run > 0
          /\ tip' \in [Pair -> [run : 0 .. MaxRuns, red : BOOLEAN, overdue : BOOLEAN]]
          /\ UNCHANGED <<approval, now, watermark, scan, sent, spoiled>>
      BY <1>0, <1>2 DEF GrowsOverdue
    <2>2. \A p \in Pair : tip'[p].red \/ tip'[p].overdue => tip'[p].run >= 1
      BY <1>0, <2>1
    <2>3. QED
      BY <1>0, <2>1, <2>2 DEF Boards
  <1>3. ASSUME ApprovalChanges PROVE Moves
    BY <1>0, <1>3 DEF ApprovalChanges, Boards
  <1>4. ASSUME NextDay PROVE Moves
    BY <1>0, <1>4 DEF NextDay, Boards
  <1>5. Moves
    BY <1>1, <1>2, <1>3, <1>4 DEF BoardStep
  <1>6. ASSUME NEW e \in Event
        PROVE  (Gone(e) => Gone(e)') /\ (Seen(e) => Seen(e)')
    <2>1. Gone(e) => Gone(e)'
      BY <1>0, <1>5 DEF Gone, Boards
    <2>2. ASSUME e \in board, e \notin board' PROVE Gone(e)'
      <3>1. CASE e = <<Approval, 1>> /\ approval = "pending"
        BY <1>5, <2>2, <3>1 DEF board, Gone
      <3>2. ASSUME NEW p \in Pair, e = <<p, tip[p].run>>, tip[p].red \/ tip[p].overdue
            PROVE  Gone(e)'
        <4>1. tip'[p].run = tip[p].run + 1 /\ tip[p].run \in 1 .. MaxRuns
          BY <1>0, <1>5, <2>2, <3>2 DEF board
        <4>2. QED
          BY <3>2, <4>1 DEF Gone
      <3>3. QED
        BY <2>2, <3>1, <3>2 DEF board
    <2>3. QED
      BY <2>1, <2>2 DEF Seen
  <1>7. Files' /\ Honest'
    BY <1>5 DEF Inv, Files, Honest, Scan
  <1>8. Shown'
    BY <1>5, <1>6 DEF Inv, Shown, Files, Scan
  <1>9. \A e \in Event : Due(e)'
    BY <1>5, <1>6 DEF Inv, Due, Owing, Lag, Covered
  <1>10. QED
    BY <1>5, <1>7, <1>8, <1>9 DEF Inv

-----------------------------------------------------------------------------
(* A scan *)

\* Deliver and Fail: an event less to do.
LEMMA DeliverInv ==
    ASSUME Countable, Inv, NEW s \in Scanner, NEW e \in Event, Deliver(s, e)
    PROVE  Inv'
  <1>0. /\ scan \in [Scanner -> Scan] /\ scan[s] \in Scan /\ sent \in [Event -> Nat]
        /\ e \in scan[s].left /\ scan[s].on /\ e \notin DOMAIN scan[s].wm
        /\ Boards /\ spoiled \in Nat
    BY DEF Deliver, Inv, Files, Honest
  <1>1. /\ sent' = [sent EXCEPT ![e] = @ + 1]
        /\ UNCHANGED <<tip, approval, now, watermark, spoiled>>
    BY DEF Deliver, board_vars
  <1>2. /\ scan'[s] \in Scan
        /\ scan'[s].on = scan[s].on /\ scan'[s].any
        /\ scan'[s].left = scan[s].left \ {e}
        /\ DOMAIN scan'[s].wm = DOMAIN scan[s].wm \cup {e}
        /\ \A t \in Scanner \ {s} : scan'[t] = scan[t]
        /\ scan' \in [Scanner -> Scan]
    <2>1. /\ scan[s].wm \in WM
          /\ Stamp(scan[s].wm, e) \in WM
          /\ DOMAIN Stamp(scan[s].wm, e) = DOMAIN scan[s].wm \cup {e}
      BY <1>0, StampWM DEF Scan
    <2> DEFINE w == Stamp(scan[s].wm, e)
               k == [scan[s] EXCEPT !.left = @ \ {e}, !.wm = w, !.any = TRUE]
    <2> HIDE DEF w
    <2>2. /\ k \in Scan /\ k.on = scan[s].on /\ k.any
          /\ k.left = scan[s].left \ {e} /\ k.wm = w
      BY <1>0, <2>1 DEF Scan, w
    <2>3. scan' = [scan EXCEPT ![s] = k]
      BY DEF Deliver, w
    <2> HIDE DEF k
    <2>4. QED
      BY <1>0, <2>1, <2>2, <2>3 DEF w
  <1>3. /\ sent'[e] = sent[e] + 1 /\ sent[e] \in Nat
        /\ \A x \in Event \ {e} : sent'[x] = sent[x]
        /\ sent' \in [Event -> Nat]
    BY <1>0, <1>1
  <1>4. Boards' /\ Files'
    BY <1>1, <1>2, <1>3 DEF Inv, Boards, Files
  <1>5. Honest'
    <2>1. \A x \in Event : sent[x] > 0 \/ x = e => sent'[x] > 0
      BY <1>3
    <2>2. QED
      BY <1>1, <1>2, <2>1 DEF Inv, Honest
  <1>6. \A x \in Event : (Seen(x) <=> Seen(x)') /\ (Gone(x) <=> Gone(x)')
    BY <1>1 DEF Seen, Gone, board
  <1>7. Shown'
    <2>1. \A x \in Event : sent'[x] > 0 => Seen(x)
      BY <1>0, <1>3 DEF Inv, Shown
    <2>2. \A t \in Scanner : scan'[t].left \subseteq scan[t].left
      BY <1>2
    <2>3. \A t \in Scanner : scan'[t].left \subseteq Event
      BY <1>2 DEF Scan
    <2>4. QED
      BY <1>6, <2>1, <2>2, <2>3 DEF Inv, Shown
  <1>8. ASSUME NEW x \in Event PROVE Due(x)'
    <2>1. /\ IsFiniteSet(Owing(x)) /\ Cardinality(Owing(x)) \in Nat
          /\ IsFiniteSet(Lag(x)) /\ Cardinality(Lag(x)) \in Nat
          /\ Cardinality(Owing(x)) <= Cardinality(Lag(x))
          /\ sent[x] \in Nat /\ Due(x)
      BY Counts DEF Inv
    <2>2. Owing(x)' \subseteq Owing(x) /\ Lag(x)' \subseteq Lag(x)
          /\ (x = e => Owing(x)' \subseteq Owing(x) \ {s} /\ Lag(x)' \subseteq Lag(x) \ {s})
      BY <1>2 DEF Owing, Lag
    <2>3. Covered(x) \/ x = e => Covered(x)'
      <3>1. \A t \in Scanner : scan[t].on /\ scan[t].any => scan'[t].on /\ scan'[t].any
                                    /\ DOMAIN scan[t].wm \subseteq DOMAIN scan'[t].wm
        BY <1>2
      <3>2. CASE x = e
        BY <1>0, <1>2, <3>2 DEF Covered
      <3>3. CASE Covered(x)
        BY <1>1, <3>1, <3>3 DEF Covered
      <3>4. QED
        BY <3>2, <3>3
    <2>4. CASE x = e
      <3>1. s \in Owing(x) /\ s \in Lag(x)
        BY <1>0, <2>4 DEF Owing, Lag
      <3>2. /\ Cardinality(Owing(x)') + 1 <= Cardinality(Owing(x)) /\ Cardinality(Owing(x)') \in Nat
            /\ Cardinality(Lag(x)') + 1 <= Cardinality(Lag(x)) /\ Cardinality(Lag(x)') \in Nat
        BY <2>1, <2>2, <2>4, <3>1, CardDrop
      <3>3. QED
        BY <1>0, <1>1, <1>3, <1>6, <2>1, <2>3, <2>4, <3>2 DEF Due
    <2>5. CASE x # e
      <3>1. /\ Cardinality(Owing(x)') <= Cardinality(Owing(x)) /\ Cardinality(Owing(x)') \in Nat
            /\ Cardinality(Lag(x)') <= Cardinality(Lag(x)) /\ Cardinality(Lag(x)') \in Nat
        BY <2>1, <2>2, CardSub
      <3>2. QED
        BY <1>0, <1>1, <1>3, <1>6, <2>1, <2>3, <2>5, <3>1 DEF Due
    <2>6. QED
      BY <2>4, <2>5
  <1>9. QED
    BY <1>4, <1>5, <1>7, <1>8 DEF Inv

\* A delivery fails: this scan will not send the event any more.
LEMMA FailInv ==
    ASSUME Countable, Inv, NEW s \in Scanner, NEW e \in Event, Fail(s, e)
    PROVE  Inv'
  <1>0. /\ scan \in [Scanner -> Scan] /\ scan[s] \in Scan
        /\ Boards /\ spoiled \in Nat /\ sent \in [Event -> Nat]
    BY DEF Inv, Files
  <1>1. UNCHANGED <<tip, approval, now, watermark, sent, spoiled>>
    BY DEF Fail, board_vars
  <1>2. /\ scan'[s] \in Scan
        /\ scan'[s].on = scan[s].on /\ scan'[s].any = scan[s].any
        /\ scan'[s].left = scan[s].left \ {e} /\ scan'[s].wm = scan[s].wm
        /\ \A t \in Scanner \ {s} : scan'[t] = scan[t]
        /\ scan' \in [Scanner -> Scan]
    <2> DEFINE k == [scan[s] EXCEPT !.left = @ \ {e}]
    <2>1. /\ k \in Scan /\ k.on = scan[s].on /\ k.any = scan[s].any
          /\ k.left = scan[s].left \ {e} /\ k.wm = scan[s].wm
      BY <1>0 DEF Scan
    <2>2. scan' = [scan EXCEPT ![s] = k]
      BY DEF Fail
    <2> HIDE DEF k
    <2>3. QED
      BY <1>0, <2>1, <2>2
  <1>3. Boards' /\ Files'
    BY <1>0, <1>1, <1>2 DEF Inv, Boards, Files
  <1>4. \A t \in Scanner : /\ scan'[t].left \subseteq scan[t].left
                           /\ scan'[t].wm = scan[t].wm
                           /\ scan'[t].on = scan[t].on /\ scan'[t].any = scan[t].any
    BY <1>2
  <1>5. Honest'
    BY <1>1, <1>4 DEF Inv, Honest
  <1>6. \A x \in Event : (Seen(x) <=> Seen(x)') /\ (Gone(x) <=> Gone(x)')
    BY <1>1 DEF Seen, Gone, board
  <1>7. Shown'
    <2>1. \A t \in Scanner : scan[t].left \subseteq Event
      BY <1>0 DEF Scan
    <2>2. QED
      BY <1>1, <1>4, <1>6, <2>1 DEF Inv, Shown
  <1>8. ASSUME NEW x \in Event PROVE Due(x)'
    <2>1. /\ IsFiniteSet(Owing(x)) /\ Cardinality(Owing(x)) \in Nat
          /\ IsFiniteSet(Lag(x)) /\ Cardinality(Lag(x)) \in Nat
          /\ sent[x] \in Nat /\ Due(x)
      BY Counts DEF Inv
    <2>2. Owing(x)' \subseteq Owing(x) /\ Lag(x)' \subseteq Lag(x)
      BY <1>4 DEF Owing, Lag
    <2>3. Covered(x) => Covered(x)'
      BY <1>1, <1>4 DEF Covered
    <2>4. /\ Cardinality(Owing(x)') <= Cardinality(Owing(x)) /\ Cardinality(Owing(x)') \in Nat
          /\ Cardinality(Lag(x)') <= Cardinality(Lag(x)) /\ Cardinality(Lag(x)') \in Nat
      BY <2>1, <2>2, CardSub
    <2>5. QED
      BY <1>0, <1>1, <1>6, <2>1, <2>3, <2>4 DEF Due
  <1>9. QED
    BY <1>3, <1>5, <1>7, <1>8 DEF Inv

\* An event on the board is not gone.
LEMMA BoardHere ==
    ASSUME Countable, Boards, NEW e \in Event, e \in board
    PROVE  ~Gone(e)
  <1>1. CASE e = <<Approval, 1>> /\ approval = "pending"
    BY <1>1 DEF Gone, Countable
  <1>2. ASSUME NEW p \in Pair, e = <<p, tip[p].run>>
        PROVE  ~Gone(e)
    BY <1>2 DEF Gone, Countable, Boards
  <1>3. QED
    BY <1>1, <1>2 DEF board

\* A scan begins: what it may send again was paid for by an overlap, a death or a pruning.
LEMMA BeginInv ==
    ASSUME Countable, Inv, NEW s \in Scanner, Begin(s)
    PROVE  Inv'
  <1>0. /\ scan \in [Scanner -> Scan] /\ watermark \in WM
        /\ Boards /\ spoiled \in Nat /\ sent \in [Event -> Nat] /\ ~scan[s].on
        /\ Boards /\ DOMAIN watermark \subseteq Event /\ board \subseteq Event
    BY BoardEvents, WMFunction DEF Inv, Files, Begin
  <1>1. UNCHANGED <<tip, approval, now, watermark, sent>>
    BY DEF Begin, board_vars
  <1>2. /\ scan'[s] \in Scan
        /\ scan'[s].on /\ scan'[s].any = FALSE
        /\ scan'[s].left = board \ DOMAIN watermark /\ scan'[s].wm = watermark
        /\ \A t \in Scanner \ {s} : scan'[t] = scan[t]
        /\ scan' \in [Scanner -> Scan]
    <2> DEFINE k == [on |-> TRUE, wm |-> watermark, left |-> board \ DOMAIN watermark, any |-> FALSE]
    <2>1. /\ k \in Scan /\ k.on /\ k.any = FALSE
          /\ k.left = board \ DOMAIN watermark /\ k.wm = watermark
      BY <1>0 DEF Scan
    <2>2. scan' = [scan EXCEPT ![s] = k]
      BY DEF Begin
    <2> HIDE DEF k
    <2>3. QED
      BY <1>0, <2>1, <2>2
  <1>3. spoiled' \in Nat /\ spoiled' >= spoiled /\ (Overlaps(s) => spoiled' = spoiled + 1)
    BY <1>0 DEF Begin
  <1>4. Boards' /\ Files'
    BY <1>0, <1>1, <1>2, <1>3 DEF Inv, Boards, Files
  <1>5. Honest'
    <2>1. \A x \in Event : x \in DOMAIN watermark => sent[x] > 0
      BY DEF Inv, Honest
    <2>2. \A t \in Scanner : \A x \in Event : x \in DOMAIN scan'[t].wm => sent[x] > 0
      BY <1>2, <2>1 DEF Inv, Honest
    <2>3. \A t \in Scanner : /\ scan'[t].left \cap DOMAIN scan'[t].wm = {}
                             /\ ~scan'[t].on => scan'[t].left = {}
      BY <1>2 DEF Inv, Honest
    <2>4. QED
      BY <1>1, <2>1, <2>2, <2>3 DEF Honest
  <1>6. \A x \in Event : (Seen(x) <=> Seen(x)') /\ (Gone(x) <=> Gone(x)')
    BY <1>1 DEF Seen, Gone, board
  <1>7. Shown'
    <2>1. \A t \in Scanner : \A x \in scan'[t].left : Seen(x) /\ x \in Event
      <3>1. \A x \in board \ DOMAIN watermark : Seen(x) /\ x \in Event
        BY <1>0 DEF Seen
      <3>2. \A t \in Scanner : scan[t].left \subseteq Event
        BY <1>0 DEF Scan
      <3>3. QED
        BY <1>2, <3>1, <3>2 DEF Inv, Shown
    <2>2. QED
      BY <1>1, <1>6, <2>1 DEF Inv, Shown
  <1>8. ASSUME NEW x \in Event PROVE Due(x)'
    <2>1. /\ IsFiniteSet(Owing(x)) /\ Cardinality(Owing(x)) \in Nat
          /\ IsFiniteSet(Lag(x)) /\ Cardinality(Lag(x)) \in Nat
          /\ sent[x] \in Nat /\ Due(x)
      BY Counts DEF Inv
    <2>2. Owing(x)' \subseteq Owing(x) \cup {s} /\ Lag(x)' \subseteq Lag(x) \cup {s}
      BY <1>2 DEF Owing, Lag
    <2>3. IsFiniteSet(Scanner) /\ Owing(x)' \subseteq Scanner /\ Lag(x)' \subseteq Scanner
      BY DEF Owing, Lag, Countable
    <2>4. /\ Cardinality(Owing(x)') <= Cardinality(Owing(x)) + 1 /\ Cardinality(Owing(x)') \in Nat
          /\ Cardinality(Lag(x)') <= Cardinality(Lag(x)) + 1 /\ Cardinality(Lag(x)') \in Nat
      BY <2>1, <2>2, <2>3, CardSub, CardAdd
    <2>5. Covered(x) => Covered(x)'
      BY <1>0, <1>1, <1>2 DEF Covered
    <2>6. CASE Overlaps(s)
      BY <1>0, <1>1, <1>3, <1>6, <2>1, <2>4, <2>5, <2>6 DEF Due
    <2>7. CASE ~Overlaps(s)
      <3>1. \A t \in Scanner : ~scan[t].on /\ scan[t].left = {}
        BY <1>0, <2>7 DEF Overlaps, Inv, Honest
      <3>2. Owing(x) = {} /\ Lag(x) = {} /\ (Covered(x) <=> x \in DOMAIN watermark)
        BY <3>1 DEF Owing, Lag, Covered
      <3>3. Cardinality({}) = 0
        BY FS_EmptySet
      <3>4. sent[x] <= 1 + spoiled /\ (~Gone(x) /\ x \notin DOMAIN watermark => sent[x] <= spoiled)
        BY <2>1, <3>2, <3>3, <1>0 DEF Due
      <3>5. x \in DOMAIN watermark => Owing(x)' = {} /\ Lag(x)' = {}
        BY <1>2, <3>1 DEF Owing, Lag
      <3>6. Gone(x) => Owing(x)' = {}
        BY <1>0, <1>2, <3>1, BoardHere DEF Owing
      <3>7. sent[x] + Cardinality(Owing(x)') <= 1 + spoiled
        BY <1>0, <2>1, <2>4, <3>2, <3>3, <3>4, <3>5, <3>6
      <3>8. ~Gone(x) => sent[x] + Cardinality(Lag(x)') <= 1 + spoiled
        BY <1>0, <2>1, <2>4, <3>2, <3>3, <3>4, <3>5
      <3>9. ~Gone(x) /\ ~Covered(x) => sent[x] <= spoiled
        BY <3>2, <3>4
      <3>10. QED
        BY <1>0, <1>1, <1>3, <1>6, <2>1, <2>4, <2>5, <3>7, <3>8, <3>9 DEF Due
    <2>8. QED
      BY <2>6, <2>7
  <1>9. QED
    BY <1>4, <1>5, <1>7, <1>8 DEF Inv

\* What Finish and Die have in common: the scan ends, and nothing is sent.
Ends(s) ==
    /\ UNCHANGED <<tip, approval, now, sent>>
    /\ scan[s].on /\ scan' = [scan EXCEPT ![s] = Idle]

\* A scan that ends leaves nothing to send.
LEMMA EndsScan ==
    ASSUME Countable, Inv, NEW s \in Scanner, Ends(s)
    PROVE  /\ scan' \in [Scanner -> Scan]
           /\ ~scan'[s].on /\ scan'[s].left = {} /\ DOMAIN scan'[s].wm = {}
           /\ \A t \in Scanner \ {s} : scan'[t] = scan[t]
  <1>1. Idle \in Scan /\ ~Idle.on /\ Idle.left = {} /\ DOMAIN Idle.wm = {}
    BY EmptyWM DEF Idle, Scan
  <1>2. scan \in [Scanner -> Scan] /\ scan' = [scan EXCEPT ![s] = Idle]
    BY DEF Ends, Inv, Files
  <1>3. QED
    BY <1>1, <1>2

\* A scan ends: what the file then lacks has been paid for.
LEMMA EndsInv ==
    ASSUME Countable, Inv, NEW s \in Scanner, Ends(s),
           watermark' \in WM, spoiled' \in Nat, spoiled' >= spoiled,
           \A x \in Event : x \in DOMAIN watermark' => sent[x] > 0,
           \A x \in Event : ~Gone(x) =>
               \/ spoiled' > spoiled
               \/ x \in DOMAIN watermark'
               \/ s \in Lag(x)
               \/ Covered(x) => Covered(x)'
               \/ sent[x] = 0
    PROVE  Inv'
  <1>0. /\ scan \in [Scanner -> Scan] /\ sent \in [Event -> Nat] /\ spoiled \in Nat
        /\ UNCHANGED <<tip, approval, now, sent>> /\ scan[s].on
    BY DEF Inv, Files, Ends
  <1>1. Boards' /\ Files'
    BY <1>0, EndsScan DEF Inv, Boards, Files
  <1>2. Honest'
    <2>1. \A t \in Scanner : \A x \in Event : x \in DOMAIN scan'[t].wm => sent[x] > 0
      BY EndsScan DEF Inv, Honest
    <2>2. \A t \in Scanner : /\ scan'[t].left \cap DOMAIN scan'[t].wm = {}
                             /\ ~scan'[t].on => scan'[t].left = {}
      BY EndsScan DEF Inv, Honest
    <2>3. QED
      BY <1>0, <2>1, <2>2 DEF Honest
  <1>3. \A x \in Event : (Seen(x) <=> Seen(x)') /\ (Gone(x) <=> Gone(x)')
    BY <1>0 DEF Seen, Gone, board
  <1>4. Shown'
    <2>1. \A t \in Scanner : \A x \in scan'[t].left : Seen(x) /\ x \in Event
      BY <1>0, EndsScan DEF Inv, Shown, Scan
    <2>2. QED
      BY <1>0, <1>3, <2>1 DEF Inv, Shown
  <1>5. ASSUME NEW x \in Event PROVE Due(x)'
    <2>1. /\ IsFiniteSet(Owing(x)) /\ Cardinality(Owing(x)) \in Nat
          /\ IsFiniteSet(Lag(x)) /\ Cardinality(Lag(x)) \in Nat
          /\ sent[x] \in Nat /\ Due(x)
      BY Counts DEF Inv
    <2>2. Owing(x)' \subseteq Owing(x) /\ Lag(x)' \subseteq Lag(x) \ {s}
      BY EndsScan DEF Owing, Lag
    <2>3. /\ Cardinality(Owing(x)') <= Cardinality(Owing(x)) /\ Cardinality(Owing(x)') \in Nat
          /\ Cardinality(Lag(x)') <= Cardinality(Lag(x)) /\ Cardinality(Lag(x)') \in Nat
      BY <2>1, <2>2, CardSub
    <2>4. s \in Lag(x) => Cardinality(Lag(x)') + 1 <= Cardinality(Lag(x))
      BY <2>1, <2>2, CardDrop
    <2>5. ASSUME ~Gone(x), ~Covered(x)' PROVE sent[x] <= spoiled'
      <3>1. sent[x] + Cardinality(Lag(x)) <= 1 + spoiled /\ (~Covered(x) => sent[x] <= spoiled)
        BY <2>1, <2>5 DEF Due
      <3>2. CASE spoiled' > spoiled
        BY <1>0, <2>1, <3>1, <3>2
      <3>3. CASE x \in DOMAIN watermark'
        BY <2>5, <3>3 DEF Covered
      <3>4. CASE s \in Lag(x)
        BY <1>0, <2>1, <2>3, <2>4, <3>1, <3>4
      <3>5. CASE Covered(x) => Covered(x)'
        BY <1>0, <2>1, <2>5, <3>1, <3>5
      <3>6. CASE sent[x] = 0
        BY <1>0, <3>6
      <3>7. QED
        BY <2>5, <3>2, <3>3, <3>4, <3>5, <3>6
    <2>6. QED
      BY <1>0, <1>3, <2>1, <2>3, <2>5 DEF Due
  <1>6. QED
    BY <1>1, <1>2, <1>4, <1>5 DEF Inv

\* A scan saves its watermark.
LEMMA FinishInv ==
    ASSUME Countable, Inv, NEW s \in Scanner, Finish(s)
    PROVE  Inv'
  <1>0. /\ scan \in [Scanner -> Scan] /\ scan[s] \in Scan /\ scan[s].wm \in WM
        /\ watermark \in WM /\ sent \in [Event -> Nat] /\ spoiled \in Nat /\ Boards
    BY DEF Inv, Files, Scan
  <1>1. Ends(s)
    BY DEF Finish, Ends, board_vars
  <1> DEFINE Lost == board \cap (DOMAIN scan[s].wm \ DOMAIN Prune(scan[s].wm))
  <1>2. IsFiniteSet(Lost) /\ Cardinality(Lost) \in Nat /\ (Lost # {} => Cardinality(Lost) >= 1)
    <2>1. IsFiniteSet(Lost) /\ Cardinality(Lost) \in Nat
      BY <1>0, BoardFinite, CardSub
    <2>2. ASSUME NEW x \in Lost PROVE Cardinality(Lost) >= 1
      <3>1. Cardinality({}) + 1 <= Cardinality(Lost) /\ Cardinality({}) \in Nat
        BY <2>1, CardDrop
      <3>2. QED
        BY <2>1, <3>1
    <2>3. QED
      BY <2>1, <2>2
  <1>3. CASE scan[s].any
    <2>1. watermark' = Prune(scan[s].wm) /\ spoiled' = spoiled + Cardinality(Lost)
      BY <1>3 DEF Finish
    <2> HIDE DEF Lost
    <2>2. spoiled' \in Nat /\ spoiled' >= spoiled /\ (Lost # {} => spoiled' > spoiled)
      BY <1>0, <1>2, <2>1
    <2>3. watermark' \in WM /\ DOMAIN watermark' \subseteq DOMAIN scan[s].wm
      BY <1>0, <2>1, PruneWM
    <2>4. \A x \in Event : x \in DOMAIN watermark' => sent[x] > 0
      BY <2>3 DEF Inv, Honest
    <2>5. ASSUME NEW x \in Event, ~Gone(x)
          PROVE  spoiled' > spoiled \/ x \in DOMAIN watermark' \/ s \in Lag(x) \/ sent[x] = 0
      <3>1. CASE x \notin DOMAIN scan[s].wm
        BY <1>1, <3>1 DEF Lag, Ends
      <3>2. CASE x \in board /\ x \in DOMAIN scan[s].wm /\ x \notin DOMAIN watermark'
        BY <2>1, <2>2, <3>2 DEF Lost
      <3>3. CASE x \notin board
        <4>1. sent[x] \in Nat /\ ~Seen(x)
          BY <1>0, <2>5, <3>3 DEF Seen
        <4>2. QED
          BY <4>1 DEF Inv, Shown
      <3>4. QED
        BY <3>1, <3>2, <3>3
    <2>6. QED
      BY <1>1, <2>2, <2>3, <2>4, <2>5, EndsInv
  <1>4. CASE ~scan[s].any
    <2>1. watermark' = watermark /\ spoiled' = spoiled
      BY <1>4 DEF Finish
    <2>2. \A x \in Event : Covered(x) => Covered(x)'
      BY <1>1, <1>4, <2>1, EndsScan DEF Covered
    <2>3. \A x \in Event : x \in DOMAIN watermark' => sent[x] > 0
      BY <2>1 DEF Inv, Honest
    <2>4. spoiled' \in Nat /\ spoiled' >= spoiled /\ watermark' \in WM
      BY <1>0, <2>1
    <2>5. QED
      BY <1>1, <2>2, <2>3, <2>4, EndsInv
  <1>5. QED
    BY <1>3, <1>4

\* A scan dies with its copy.
LEMMA DieInv ==
    ASSUME Countable, Inv, NEW s \in Scanner, Die(s)
    PROVE  Inv'
  <1>0. watermark \in WM /\ spoiled \in Nat
    BY DEF Inv, Files
  <1>1. Ends(s)
    BY DEF Die, Ends, board_vars
  <1>2. spoiled' \in Nat /\ spoiled' > spoiled /\ spoiled' >= spoiled
    BY <1>0 DEF Die
  <1>3. watermark' = watermark \/ watermark' = <<>>
    BY DEF Die
  <1>4. watermark' \in WM /\ DOMAIN watermark' \subseteq DOMAIN watermark
    BY <1>0, <1>3, EmptyWM
  <1>5. \A x \in Event : x \in DOMAIN watermark' => sent[x] > 0
    BY <1>4 DEF Inv, Honest
  <1>6. QED
    BY <1>1, <1>2, <1>4, <1>5, EndsInv

-----------------------------------------------------------------------------
(* The specification *)

\* The invariant holds at first.
LEMMA InitInv ==
    ASSUME Countable, Init
    PROVE  Inv
  <1>0. MaxRuns \in Nat /\ MaxDay \in Nat /\ Approval \notin Pair
    BY DEF Countable
  <1>1. Boards
    BY <1>0 DEF Init, Boards
  <1>2. Idle \in Scan /\ ~Idle.on /\ Idle.left = {} /\ DOMAIN Idle.wm = {}
    BY EmptyWM DEF Idle, Scan
  <1>3. \A s \in Scanner : scan[s] = Idle
    BY DEF Init
  <1>4. Files
    BY <1>2, EmptyWM DEF Init, Files
  <1>5. DOMAIN watermark = {} /\ spoiled = 0 /\ \A e \in Event : sent[e] = 0
    BY EmptyWM DEF Init
  <1>6. Honest /\ Shown
    BY <1>2, <1>3, <1>5 DEF Honest, Shown
  <1>7. ASSUME NEW e \in Event PROVE Due(e)
    <2>1. Owing(e) = {} /\ Lag(e) = {}
      BY <1>2, <1>3 DEF Owing, Lag
    <2>2. Cardinality({}) = 0
      BY FS_EmptySet
    <2>3. QED
      BY <1>5, <2>1, <2>2 DEF Due
  <1>8. QED
    BY <1>1, <1>4, <1>6, <1>7 DEF Inv

\* Every step keeps it.
LEMMA StepInv ==
    ASSUME Countable, Inv, [Next]_vars
    PROVE  Inv'
  <1>1. CASE BoardStep
    BY <1>1, BoardInv
  <1>2. CASE ScanStep
    <2>1. ASSUME NEW s \in Scanner, Begin(s) PROVE Inv'
      BY <2>1, BeginInv
    <2>2. ASSUME NEW s \in Scanner, Finish(s) PROVE Inv'
      BY <2>2, FinishInv
    <2>3. ASSUME NEW s \in Scanner, Die(s) PROVE Inv'
      BY <2>3, DieInv
    <2>4. ASSUME NEW s \in Scanner, NEW e \in Event, Deliver(s, e) PROVE Inv'
      BY <2>4, DeliverInv
    <2>5. ASSUME NEW s \in Scanner, NEW e \in Event, Fail(s, e) PROVE Inv'
      BY <2>5, FailInv
    <2>6. QED
      BY <1>2, <2>1, <2>2, <2>3, <2>4, <2>5 DEF ScanStep
  <1>3. CASE UNCHANGED vars
    <2>1. UNCHANGED <<tip, approval, now, watermark, scan, sent, spoiled>>
      BY <1>3 DEF vars
    <2>2. Boards' /\ Files' /\ Honest'
      BY <2>1 DEF Inv, Boards, Files, Honest
    <2>3. \A e \in Event : (Seen(e) <=> Seen(e)') /\ (Gone(e) <=> Gone(e)')
      BY <2>1 DEF Seen, Gone, board
    <2>4. \A s \in Scanner : scan[s].left \subseteq Event
      BY DEF Inv, Files, Scan
    <2>5. Shown'
      BY <2>1, <2>3, <2>4 DEF Inv, Shown
    <2>6. \A e \in Event : Due(e)'
      BY <2>1, <2>3 DEF Inv, Due, Owing, Lag, Covered
    <2>7. QED
      BY <2>2, <2>5, <2>6 DEF Inv
  <1>4. QED
    BY <1>1, <1>2, <1>3 DEF Next

\* The invariant says what the runs check.
LEMMA InvSays ==
    ASSUME Countable, Inv
    PROVE  TypeOK /\ WatermarkHonest /\ ResentOnlyAfterSpoil
  <1>1. \A w \in WM : DOMAIN w \subseteq Event
    BY WMFunction
  <1>2. TypeOK
    BY <1>1 DEF TypeOK, Inv, Boards, Files, Scan
  <1>3. WatermarkHonest
    BY DEF Inv, Honest, WatermarkHonest
  <1>4. ASSUME NEW e \in Event PROVE sent[e] <= 1 + spoiled
    <2>1. Cardinality(Owing(e)) \in Nat /\ sent[e] \in Nat /\ spoiled \in Nat
      BY Counts
    <2>2. QED
      BY <2>1 DEF Inv, Due
  <1>5. QED
    BY <1>2, <1>3, <1>4 DEF ResentOnlyAfterSpoil

\* The three facts of the inductive invariant, in the form a composition cites.
THEOREM Inductive ==
    ASSUME Countable
    PROVE  /\ Init => Inv
           /\ Inv /\ [Next]_vars => Inv'
           /\ Inv => TypeOK /\ WatermarkHonest /\ ResentOnlyAfterSpoil
  BY InitInv, StepInv, InvSays

\* However many scans overlap, fail or die, and whatever they leave of the file: the watermark
\* names only events the operator received, and an event is received at most once more for every
\* overlap, death or early pruning (notify.py, scan_and_notify).
THEOREM SentOnce ==
    ASSUME Countable
    PROVE  Spec => [](TypeOK /\ WatermarkHonest /\ ResentOnlyAfterSpoil)
  <1>1. Init => Inv
    BY InitInv
  <1>2. Inv /\ [Next]_vars => Inv'
    BY StepInv
  <1>3. Inv => TypeOK /\ WatermarkHonest /\ ResentOnlyAfterSpoil
    BY InvSays
  <1>4. QED
    BY <1>1, <1>2, <1>3, PTL DEF Spec
==============================================================================
