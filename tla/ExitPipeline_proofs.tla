-------------------------- MODULE ExitPipeline_proofs --------------------------
(***************************************************************************)
(* Proofs about ExitPipeline, for every split of an entry order into       *)
(* fills, every position size, and any number of positions and attempts.   *)
(***************************************************************************)
EXTENDS ExitPipeline, SequenceTheorems, TLAPS

AllExits(s) == \A i \in 1 .. Len(s) : s[i].kind = "exit"

\* No entry fill follows an exit fill: a position is opened on an empty stream.
Ordered ==
    \A i, j \in 1 .. Len(stream) :
        i < j /\ stream[i].kind = "exit" => stream[j].kind = "exit"

\* Before the first position there is nothing to sell and nothing to record.
Opened == life = 0 => held = 0 /\ stream = <<>>

\* A tracker is that of the newest position.
Current == tracker.life \in {0, life}

\* A tracker made on the spot for an exit fill has its sides reversed; nothing that
\* is still to come can close it.
Mirrored ==
    tracker # NoTracker /\ tracker.side = "SHORT" /\ tracker.entered > 0 => AllExits(stream)

\* Exit fills never complete such a tracker.
Spent(t) == t.side = "LONG" => t.entered = 0

\* A position recorded once its entry was known in full has no tracker, or one that
\* will not complete, and no fill is to come that would make another.
Closed(l) ==
    /\ recorded[l] = 1
    /\ l <= life
    /\ l = life => AllExits(stream) /\ (tracker # NoTracker => Spent(tracker))

Once == \A l \in Lives : recorded[l] = 0 \/ Closed(l) \/ <<l, "early">> \in gaps

IInv == TypeOK /\ Ordered /\ Opened /\ Current /\ Mirrored /\ Once

\* Typing and order of the fills of one order.
LEMMA FillsType ==
    ASSUME NEW kind \in {"entry", "exit"}, NEW sizes \in Seq(Quantities)
    PROVE  /\ Fills(kind, sizes) \in Seq(Fill)
           /\ Len(Fills(kind, sizes)) = Len(sizes)
           /\ \A i \in 1 .. Len(sizes) : Fills(kind, sizes)[i].kind = kind
<1>1. DOMAIN sizes = 1 .. Len(sizes) /\ Len(sizes) \in Nat /\ \A i \in 1 .. Len(sizes) : sizes[i] \in Quantities
  BY LenProperties, ElementOfSeq
<1>2. Fills(kind, sizes) \in [1 .. Len(sizes) -> Fill]
  BY <1>1 DEF Fills, Fill
<1> QED
  BY <1>1, <1>2 DEF Fills

\* What a sale does to the holding and to the stream.
LEMMA SellEffect ==
    ASSUME TypeOK, Ordered, NEW qty \in 1 .. held, Sell(qty)
    PROVE  /\ held' \in Nat
           /\ stream' \in Seq(Fill)
           /\ Ordered'
           /\ AllExits(stream) => AllExits(stream')
<1>1. held' \in Nat /\ held \in Nat /\ qty \in Quantities
  BY DEF TypeOK, Sell, Quantities
<1>2. PICK sold \in {<<qty>>, [i \in 1 .. qty |-> 1]} : stream' = stream \o Fills("exit", sold)
  BY DEF Sell
<1>3. sold \in Seq(Quantities)
  <2>1. <<qty>> \in Seq(Quantities)
    BY <1>1
  <2>2. [i \in 1 .. qty |-> 1] \in Seq(Quantities)
    BY <1>1 DEF Quantities
  <2> QED
    BY <2>1, <2>2
<1> DEFINE exits == Fills("exit", sold)
<1>4. exits \in Seq(Fill) /\ \A i \in 1 .. Len(exits) : exits[i].kind = "exit"
  BY <1>3, FillsType
<1>5. stream \in Seq(Fill)
  BY DEF TypeOK
<1>6. /\ stream' \in Seq(Fill)
      /\ Len(stream') = Len(stream) + Len(exits)
      /\ \A i \in 1 .. Len(stream) + Len(exits) :
           stream'[i] = IF i <= Len(stream) THEN stream[i] ELSE exits[i - Len(stream)]
  BY <1>2, <1>4, <1>5, ConcatProperties
<1>7. Len(stream) \in Nat /\ Len(exits) \in Nat
  BY <1>4, <1>5, LenProperties
<1> HIDE DEF exits
<1>8. Ordered'
  <2> SUFFICES ASSUME NEW i \in 1 .. Len(stream'), NEW j \in 1 .. Len(stream'),
                      i < j, stream'[i].kind = "exit"
               PROVE  stream'[j].kind = "exit"
    BY DEF Ordered
  <2>1. CASE j <= Len(stream)
    <3>1. stream'[i] = stream[i] /\ stream'[j] = stream[j]
      BY <1>6, <1>7, <2>1
    <3> QED
      BY <1>7, <2>1, <3>1 DEF Ordered
  <2>2. CASE j > Len(stream)
    <3>1. stream'[j] = exits[j - Len(stream)] /\ j - Len(stream) \in 1 .. Len(exits)
      BY <1>6, <1>7, <2>2
    <3> QED
      BY <1>4, <3>1
  <2> QED
    BY <1>6, <1>7, <2>1, <2>2
<1>9. AllExits(stream) => AllExits(stream')
  <2> SUFFICES ASSUME AllExits(stream), NEW i \in 1 .. Len(stream') PROVE stream'[i].kind = "exit"
    BY DEF AllExits
  <2>1. CASE i <= Len(stream)
    BY <1>6, <1>7, <2>1 DEF AllExits
  <2>2. CASE i > Len(stream)
    <3>1. stream'[i] = exits[i - Len(stream)] /\ i - Len(stream) \in 1 .. Len(exits)
      BY <1>6, <1>7, <2>2
    <3> QED
      BY <1>4, <3>1
  <2> QED
    BY <1>6, <1>7, <2>1, <2>2
<1> QED
  BY <1>1, <1>6, <1>8, <1>9

\* A sale preserves the facts about the stream and the records.
LEMMA SellKeeps ==
    ASSUME IInv, NEW qty \in 1 .. held, Sell(qty), UNCHANGED <<life, tracker, recorded, gaps>>
    PROVE  Ordered' /\ Opened' /\ Current' /\ Mirrored' /\ Once'
<1>1. Ordered' /\ (AllExits(stream) => AllExits(stream'))
  BY SellEffect DEF IInv
<1>2. Opened'
  BY DEF IInv, TypeOK, Opened
<1>3. Current' /\ Mirrored'
  BY <1>1 DEF IInv, Current, Mirrored
<1>4. Once'
  BY <1>1 DEF IInv, Once, Closed
<1> QED
  BY <1>1, <1>2, <1>3, <1>4

\* Steps that touch neither stream nor records preserve the facts about them.
LEMMA OthersKeep ==
    ASSUME IInv, UNCHANGED <<held, stream, life, tracker, recorded, gaps>>
    PROVE  Ordered' /\ Opened' /\ Current' /\ Mirrored' /\ Once'
  BY DEF IInv, Ordered, Opened, Current, Mirrored, Once, Closed, AllExits

\* What recording a fill does to a tracker.
LEMMA EntryRecorded ==
    ASSUME NEW t \in Tracker(Lives, Quantities), NEW qty \in Quantities
    PROVE  /\ AddEntryFill(t, qty) \in Tracker(Lives, Quantities)
           /\ AddEntryFill(t, qty).life = t.life
           /\ AddEntryFill(t, qty).side = t.side
<1>1. t.entered + qty \in Nat
  BY DEF Tracker, Quantities
<1>2. t.sizes \union {qty} \in SUBSET Quantities
  BY DEF Tracker
<1> QED
  BY <1>1, <1>2 DEF AddEntryFill, Tracker

LEMMA ExitRecorded ==
    ASSUME NEW t \in Tracker(Lives, Quantities), NEW qty \in Quantities
    PROVE  /\ AddExitFill(t, qty) \in Tracker(Lives, Quantities)
           /\ AddExitFill(t, qty).life = t.life
           /\ AddExitFill(t, qty).side = t.side
           /\ AddExitFill(t, qty).entered = t.entered
<1>1. t.exited + qty \in Nat
  BY DEF Tracker, Quantities
<1> QED
  BY <1>1 DEF AddExitFill, Tracker

LEMMA GapNoted ==
    ASSUME gaps \subseteq Gap, NEW l \in Lives, NEW how \in {"equal", "added", "early"}
    PROVE  gaps \subseteq gaps \union {<<l, how>>} /\ gaps \union {<<l, how>>} \subseteq Gap
<1>1. <<l, how>> \in Gap
  BY Zenon DEF Gap
<1> HIDE DEF Gap
<1> QED
  BY <1>1, Zenon

LEMMA InitInv == Init => IInv
<1> SUFFICES ASSUME Init PROVE IInv
  OBVIOUS
<1>1. TypeOK
  <2>1. held \in Nat /\ active \in Nat /\ life \in 0 .. MaxLives /\ gaps \subseteq Gap
    BY MaxLivesAssumption DEF Init
  <2>2. recorded \in [Lives -> Nat]
    BY DEF Init
  <2>3. stream \in Seq(Fill)
    BY EmptySeq DEF Init
  <2>4. snapshot \subseteq Nat
    BY DEF Init
  <2> QED
    BY <2>1, <2>2, <2>3, <2>4 DEF Init, TypeOK
<1>2. Ordered /\ Opened /\ Current /\ Mirrored /\ Once
  BY DEF Init, Ordered, Opened, Current, Mirrored, Once, NoTracker
<1> QED
  BY <1>1, <1>2 DEF IInv

LEMMA EnterInv == IInv /\ Enter => IInv'
<1> SUFFICES ASSUME IInv, Enter PROVE IInv'
  OBVIOUS
<1>0. life' \in Lives /\ life' = life + 1 /\ life \in Nat
  BY MaxLivesAssumption DEF IInv, TypeOK, Enter, Lives
<1>1. stream' \in Seq(Fill) /\ \A i \in 1 .. Len(stream') : stream'[i].kind = "entry"
  <2>1. EntryFills \in Seq(Quantities)
    BY EntryFillsAssumption, SizeAssumption DEF Quantities
  <2> QED
    BY <2>1, FillsType DEF Enter
<1>2. TypeOK'
  <2>1. tracker' \in Tracker(Lives, Quantities)
    BY <1>0 DEF Enter, EntryTracker, Tracker, NewTracker, Side
  <2>2. gaps' \subseteq Gap
    BY <1>0, GapNoted DEF Enter, IInv, TypeOK
  <2>3. held' \in Nat
    BY SizeAssumption DEF Enter, IInv, TypeOK
  <2> QED
    BY <1>0, <1>1, <2>1, <2>2, <2>3 DEF IInv, TypeOK, Enter, Lives, syncVars
<1>3. Ordered'
  BY <1>1 DEF Ordered
<1>4. Opened' /\ Current' /\ Mirrored'
  BY <1>0 DEF Enter, EntryTracker, Opened, Current, Mirrored, NewTracker
<1>5. Once'
  <2>1. gaps \subseteq gaps'
    BY DEF Enter
  <2>2. \A l \in Lives : recorded[l] = 0 \/ <<l, "early">> \in gaps \/ (recorded[l] = 1 /\ l <= life)
    BY DEF IInv, Once, Closed
  <2>3. \A l \in Lives : l <= life => l <= life' /\ l # life'
    BY <1>0 DEF Lives
  <2> QED
    BY <2>1, <2>2, <2>3 DEF Once, Closed, Enter
<1> QED
  BY <1>2, <1>3, <1>4, <1>5 DEF IInv

LEMMA RecordInv == IInv /\ RecordFill => IInv'
<1> SUFFICES ASSUME IInv, RecordFill PROVE IInv'
  OBVIOUS
<1> DEFINE fill == Head(stream)
<1>1. /\ fill \in Fill /\ stream' \in Seq(Fill) /\ fill = stream[1]
      /\ Len(stream) \in Nat \ {0}
      /\ Len(stream') = Len(stream) - 1
      /\ \A i \in 1 .. Len(stream') : stream'[i] = stream[i + 1]
  BY HeadTailProperties, EmptySeq DEF IInv, TypeOK, RecordFill
<1>2. life \in Lives
  BY DEF IInv, Opened, RecordFill, TypeOK, Lives
<1>3. Ordered' /\ (AllExits(stream) => AllExits(stream')) /\ (fill.kind = "exit" => AllExits(stream'))
  <2> HIDE DEF fill
  <2>1. Ordered
    BY DEF IInv
  <2>2. Ordered'
    <3> SUFFICES ASSUME NEW i \in 1 .. Len(stream'), NEW j \in 1 .. Len(stream'),
                        i < j, stream'[i].kind = "exit"
                 PROVE  stream'[j].kind = "exit"
      BY DEF Ordered
    <3>1. i + 1 \in 1 .. Len(stream) /\ j + 1 \in 1 .. Len(stream) /\ i + 1 < j + 1
      BY <1>1
    <3>2. stream'[i] = stream[i + 1] /\ stream'[j] = stream[j + 1]
      BY <1>1
    <3> QED
      BY <2>1, <3>1, <3>2 DEF Ordered
  <2>3. AllExits(stream) => AllExits(stream')
    BY <1>1 DEF AllExits
  <2>4. fill.kind = "exit" => AllExits(stream')
    BY <1>1, <2>1 DEF Ordered, AllExits
  <2> QED
    BY <2>2, <2>3, <2>4
<1>4. Opened'
  BY <1>2 DEF RecordFill, Opened, Lives
<1>5. /\ UNCHANGED <<held, backup, resting, life, request, worker, snapshot, sweeps, audit>>
      /\ recorded \in [Lives -> Nat]
      /\ discards \in Nat
      /\ tracker \in Tracker(Lives, Quantities) \union {NoTracker}
  BY DEF RecordFill, orderVars, syncVars, IInv, TypeOK
<1>51. gaps \subseteq gaps' /\ gaps' \subseteq Gap
  <2>1. LooksRecorded(fill) => tracker.life \in Lives
    BY <1>5 DEF LooksRecorded, Tracker
  <2>2. gaps' = IF LooksRecorded(fill) THEN gaps \union {<<tracker.life, "equal">>} ELSE gaps
    BY DEF RecordFill
  <2> QED
    BY <2>1, <2>2, GapNoted DEF IInv, TypeOK
<1> HIDE DEF fill
<1>6. CASE Ignored(fill)
  <2>1. UNCHANGED <<tracker, bookVars>>
    BY <1>6 DEF RecordFill, fill
  <2>2. TypeOK'
    BY <1>1, <1>5, <1>51, <2>1 DEF bookVars, IInv, TypeOK
  <2>3. Current' /\ Mirrored' /\ Once'
    BY <1>3, <1>5, <1>51, <2>1 DEF bookVars, IInv, Current, Mirrored, Once, Closed
  <2> QED
    BY <1>3, <1>4, <2>2, <2>3 DEF IInv
<1>7. CASE ~Ignored(fill)
  <2>1. PICK t \in Receiver : Book(t, fill)
    BY <1>7 DEF RecordFill, fill
  <2>2. t \in Tracker(Lives, Quantities) /\ t.life = life
    <3>1. CASE tracker = NoTracker
      BY <1>2, <2>1, <3>1 DEF Receiver, NewTracker, Tracker
    <3>2. CASE tracker # NoTracker
      BY <1>5, <2>1, <3>2 DEF Receiver, IInv, Current, Tracker, Lives
    <3> QED
      BY <3>1, <3>2
  <2>3. tracker = NoTracker => t.entered = 0 /\ t.exited = 0
    BY <2>1 DEF Receiver, NewTracker
  <2>4. tracker # NoTracker => t = tracker
    BY <2>1 DEF Receiver
  <2>5. recorded[life] # 0 => <<life, "early">> \in gaps \/ (AllExits(stream) /\ Spent(t))
    BY <1>2, <2>3, <2>4 DEF IInv, Once, Closed, Spent
  <2>6. t.side = "SHORT" /\ t.entered > 0 => AllExits(stream)
    BY <2>3, <2>4 DEF IInv, Mirrored
  <2>7. AllExits(stream) => fill.kind = "exit"
    BY <1>1 DEF AllExits
  <2>8. t.entered \in Nat /\ t.exited \in Nat /\ t.side \in Side /\ fill.qty \in Quantities
    BY <1>1, <2>2 DEF Tracker, Fill
  <2>9. CASE Completes(t, fill) /\ Complete
    <3>1. t.entered > 0
      BY <2>8, <2>9 DEF Completes, Quantity
    <3>2. tracker # NoTracker /\ t = tracker
      BY <2>3, <2>4, <3>1
    <3>3. fill.kind = "exit" /\ t.side = "LONG"
      BY <2>6, <2>7, <2>8, <2>9, <3>1 DEF Completes, Exits, Side
    <3>4. recorded[life] = 0 \/ <<life, "early">> \in gaps
      BY <2>5, <3>1, <3>3 DEF Spent
    <3>5. recorded' = [recorded EXCEPT ![life] = recorded[life] + 1]
      <4>1. recorded' = [recorded EXCEPT ![tracker.life] = @ + 1]
        BY <2>9 DEF Complete
      <4>2. tracker.life = life
        BY <2>2, <3>2
      <4> QED
        BY <4>1, <4>2
    <3>6. TypeOK'
      <4>1. active' \in Nat
        BY <2>9 DEF Complete
      <4>2. recorded' \in [Lives -> Nat]
        BY <1>2, <1>5, <3>5
      <4>3. discards' \in Nat /\ mutex' \in {"free", "fresh", "stale"}
        BY <1>5, <2>9 DEF Complete, IInv, TypeOK
      <4> QED
        BY <1>1, <1>5, <1>51, <2>9, <4>1, <4>2, <4>3 DEF Complete, IInv, TypeOK
    <3>7. Current' /\ Mirrored'
      BY <2>9 DEF Complete, Current, Mirrored, NoTracker
    <3>8. Once'
      <4>1. tracker' = NoTracker /\ AllExits(stream')
        BY <1>3, <2>9, <3>3 DEF Complete
      <4>2. recorded'[life] = recorded[life] + 1 /\ \A l \in Lives \ {life} : recorded'[l] = recorded[l]
        BY <1>2, <1>5, <3>5
      <4>3. recorded'[life] = 1 \/ <<life, "early">> \in gaps'
        BY <1>51, <3>4, <4>2
      <4>4. ASSUME NEW l \in Lives, l # life, recorded'[l] # 0, <<l, "early">> \notin gaps'
            PROVE  Closed(l)'
        BY <1>5, <1>51, <4>2, <4>4 DEF IInv, Once, Closed
      <4>5. recorded'[life] = 1 => Closed(life)'
        BY <1>2, <1>5, <4>1 DEF Closed, Lives
      <4>6. ASSUME NEW l \in Lives
            PROVE  recorded'[l] = 0 \/ Closed(l)' \/ <<l, "early">> \in gaps'
        <5>1. CASE l = life
          BY <1>5, <4>3, <4>5, <5>1 DEF Closed
        <5> QED
          BY <4>4, <5>1
      <4> QED
        BY <4>6, Zenon DEF Once
    <3> QED
      BY <1>3, <1>4, <3>6, <3>7, <3>8 DEF IInv
  <2>10. CASE Note(t, fill) /\ UNCHANGED bookVars
    <3>1. tracker' \in Tracker(Lives, Quantities) /\ tracker'.life = life /\ tracker'.side = t.side
      BY <2>2, <2>8, <2>10, EntryRecorded, ExitRecorded DEF Note
    <3>2. Exits(t, fill) => tracker'.entered = t.entered
      BY <2>2, <2>8, <2>10, ExitRecorded DEF Note
    <3>3. TypeOK'
      BY <1>1, <1>5, <1>51, <2>10, <3>1 DEF bookVars, IInv, TypeOK
    <3>4. Current'
      BY <1>5, <3>1 DEF Current
    <3>5. Mirrored'
      <4>1. t.side = "SHORT" /\ ~Exits(t, fill) => fill.kind = "exit"
        BY <1>1 DEF Exits, Fill
      <4> QED
        BY <1>3, <2>6, <3>1, <3>2, <4>1 DEF Mirrored
    <3>6. recorded[life] # 0 => <<life, "early">> \in gaps \/ (AllExits(stream') /\ Spent(tracker'))
      BY <1>3, <2>5, <2>7, <3>1, <3>2 DEF Spent, Exits
    <3>7. Once'
      BY <1>5, <1>51, <2>10, <3>6 DEF bookVars, IInv, Once, Closed
    <3> QED
      BY <1>3, <1>4, <3>3, <3>4, <3>5, <3>7 DEF IInv
  <2> QED
    BY <2>1, <2>9, <2>10 DEF Book
<1> QED
  BY <1>6, <1>7

LEMMA ExchangeInv == IInv /\ (BackupFires \/ RestingFills \/ OrderArrives) => IInv'
<1> USE DEF recordVars
<1>1. ASSUME IInv, BackupFires PROVE IInv'
  <2>1. Sell(held) /\ held \in 1 .. held /\ UNCHANGED <<life, tracker, recorded, gaps>>
    BY <1>1 DEF BackupFires, IInv, TypeOK
  <2>2. held' \in Nat /\ stream' \in Seq(Fill)
    BY <1>1, <2>1, SellEffect DEF IInv
  <2>3. TypeOK'
    <3>1. sweeps' \in Nat
      BY <1>1 DEF BackupFires, IInv, TypeOK
    <3>2. backup' \in BOOLEAN
      BY <1>1, Zenon DEF BackupFires
    <3>3. UNCHANGED <<resting, life, monitored, request, worker, tracker, active, mutex, discards, snapshot, audit, recorded, gaps>>
      BY <1>1 DEF BackupFires, monitorVars
    <3> QED
      BY <1>1, <2>2, <3>1, <3>2, <3>3 DEF IInv, TypeOK
  <2> QED
    BY <1>1, <2>1, <2>3, SellKeeps DEF IInv
<1>2. ASSUME IInv, RestingFills PROVE IInv'
  <2>1. PICK sold \in 1 .. held : Sell(sold)
    BY <1>2 DEF RestingFills
  <2>2. UNCHANGED <<life, tracker, recorded, gaps>>
    BY <1>2 DEF RestingFills
  <2>3. held' \in Nat /\ stream' \in Seq(Fill)
    BY <1>2, <2>1, SellEffect DEF IInv
  <2>4. TypeOK'
    BY <1>2, <2>3 DEF RestingFills, IInv, TypeOK, monitorVars, syncVars
  <2> QED
    BY <1>2, <2>1, <2>2, <2>4, SellKeeps DEF IInv
<1>3. ASSUME IInv, OrderArrives PROVE IInv'
  <2>1. worker \in BusyWorker
    BY <1>3 DEF OrderArrives, IInv, TypeOK, IdleWorker
  <2>2. worker' \in BusyWorker
    BY <1>3, <2>1 DEF OrderArrives, BusyWorker
  <2>3. CASE held > 0 /\ Sell(Reduced(worker.qty))
    <3>1. Reduced(worker.qty) \in 1 .. held
      BY <1>3, <2>1, <2>3 DEF BusyWorker, IInv, TypeOK, Reduced, Quantities
    <3>2. UNCHANGED <<life, tracker, recorded, gaps>>
      BY <1>3 DEF OrderArrives
    <3>3. held' \in Nat /\ stream' \in Seq(Fill)
      BY <1>3, <2>3, <3>1, SellEffect DEF IInv
    <3>4. TypeOK'
      BY <1>3, <2>2, <3>3 DEF OrderArrives, IInv, TypeOK, orderVars, monitorVars, syncVars
    <3> QED
      BY <1>3, <2>3, <3>1, <3>2, <3>4, SellKeeps DEF IInv
  <2>4. CASE held = 0
    <3>1. UNCHANGED <<held, stream, life, tracker, recorded, gaps>>
      BY <1>3, <2>4 DEF OrderArrives
    <3>2. TypeOK'
      BY <1>3, <2>2, <3>1 DEF OrderArrives, IInv, TypeOK, orderVars, monitorVars, syncVars
    <3> QED
      BY <1>3, <3>1, <3>2, OthersKeep DEF IInv
  <2> QED
    BY <1>3, <2>3, <2>4 DEF OrderArrives
<1> QED
  BY <1>1, <1>2, <1>3

LEMMA MonitorInv == IInv /\ (ExitTriggered \/ GraceExitTriggered \/ PartialTriggered) => IInv'
<1> SUFFICES ASSUME IInv, ExitTriggered \/ GraceExitTriggered \/ PartialTriggered PROVE IInv'
  OBVIOUS
<1> USE DEF ExitTriggered, GraceExitTriggered, PartialTriggered, Queue, exchangeVars, orderVars, recordVars
<1>1. UNCHANGED <<held, stream, life, tracker, recorded, gaps>>
  OBVIOUS
<1>2. TypeOK'
  BY DEF IInv, TypeOK, syncVars
<1> QED
  BY <1>1, <1>2, OthersKeep DEF IInv

\* A tracker that is not spent is that of a position not yet recorded, or recorded
\* from the reply of an order before its entry was known.
LEMMA LimitFilledInv ==
    ASSUME IInv, AutoClose, held > 0, tracker.side = "LONG", tracker.entered > 0, LimitFilled
    PROVE  IInv'
<1>1. tracker \in Tracker(Lives, Quantities) /\ tracker.life = life /\ life \in Lives
  BY DEF AutoClose, IInv, TypeOK, Current, Tracker, Lives
<1>2. Reduced(tracker.entered) \in 1 .. held
  BY <1>1 DEF Reduced, Tracker, IInv, TypeOK
<1>3. /\ Sell(Reduced(tracker.entered))
      /\ recorded' = [recorded EXCEPT ![life] = recorded[life] + 1]
      /\ gaps' = IF EntryDue THEN gaps \union {<<life, "early">>} ELSE gaps
      /\ tracker' = NoTracker /\ life' = life
  BY <1>1 DEF LimitFilled, AutoClose
<1>4. held' \in Nat /\ stream' \in Seq(Fill) /\ Ordered' /\ (AllExits(stream) => AllExits(stream'))
  BY <1>2, <1>3, SellEffect DEF IInv
<1>5. gaps \subseteq gaps' /\ gaps' \subseteq Gap
  BY <1>1, <1>3, GapNoted DEF IInv, TypeOK
<1>6. recorded \in [Lives -> Nat] /\ recorded' \in [Lives -> Nat]
  BY <1>1, <1>3 DEF IInv, TypeOK
<1>7. TypeOK'
  <2>1. backup' \in BOOLEAN /\ resting' \in BOOLEAN
    BY DEF LimitFilled, CancelOrders, IInv, TypeOK
  <2>2. active' \in Nat /\ mutex' \in {"free", "fresh", "stale"} /\ monitored' \in {"off", "entry", "trailing"}
    BY DEF LimitFilled, AutoClose
  <2>3. UNCHANGED <<request, worker, discards, snapshot, sweeps, audit>>
    BY DEF AutoClose, syncVars
  <2> QED
    BY <1>3, <1>4, <1>5, <1>6, <2>1, <2>2, <2>3 DEF IInv, TypeOK
<1>8. Opened' /\ Current' /\ Mirrored'
  BY <1>1, <1>3 DEF Opened, Current, Mirrored, NoTracker, Lives
<1>9. Once'
  <2>1. recorded[life] = 0 \/ <<life, "early">> \in gaps
    BY <1>1 DEF AutoClose, IInv, Once, Closed, Spent
  <2>2. <<life, "early">> \in gaps' \/ AllExits(stream)
    <3>1. CASE EntryDue
      BY <1>3, <3>1
    <3>2. CASE ~EntryDue
      <4>1. \A i \in 1 .. Len(stream) : stream[i] \in Fill
        BY ElementOfSeq DEF IInv, TypeOK
      <4> QED
        BY <3>2, <4>1 DEF EntryDue, AllExits, Fill
    <3> QED
      BY <3>1, <3>2
  <2>3. recorded'[life] = recorded[life] + 1 /\ \A l \in Lives \ {life} : recorded'[l] = recorded[l]
    BY <1>1, <1>3, <1>6
  <2>4. <<life, "early">> \in gaps' \/ Closed(life)'
    BY <1>1, <1>3, <1>4, <1>5, <2>1, <2>2, <2>3 DEF Closed, Lives
  <2>5. ASSUME NEW l \in Lives, l # life, recorded'[l] # 0, <<l, "early">> \notin gaps'
        PROVE  Closed(l)'
    BY <1>3, <1>5, <2>3, <2>5 DEF IInv, Once, Closed
  <2>6. ASSUME NEW l \in Lives
        PROVE  recorded'[l] = 0 \/ Closed(l)' \/ <<l, "early">> \in gaps'
    <3>1. CASE l = life
      BY <1>3, <2>4, <3>1 DEF Closed
    <3> QED
      BY <2>5, <3>1
  <2> QED
    BY <2>6, Zenon DEF Once
<1> QED
  BY <1>4, <1>7, <1>8, <1>9 DEF IInv

LEMMA AutoCloseInv == IInv /\ AutoClose => IInv'
<1> SUFFICES ASSUME IInv, AutoClose PROVE IInv'
  OBVIOUS
<1>1. CASE held > 0 /\ tracker.side = "LONG" /\ tracker.entered > 0 /\ LimitFilled
  BY <1>1, LimitFilledInv
<1>2. CASE held > 0 /\ tracker.side = "LONG" /\ tracker.entered > 0 /\ MarketFollows
  <2>1. UNCHANGED <<life, tracker, recorded, gaps>>
    BY <1>2 DEF AutoClose, MarketFollows, recordVars
  <2>2. tracker.entered \in Nat /\ tracker.entered > 0 /\ held \in Nat /\ held > 0
    BY <1>2 DEF AutoClose, Tracker, IInv, TypeOK
  <2>3. /\ Reduced(tracker.entered) .. Reduced(2 * tracker.entered) \subseteq 1 .. held
        /\ 1 .. Reduced(2 * tracker.entered) \subseteq 1 .. held
    BY <2>2 DEF Reduced
  <2>4. (\E sold \in 1 .. held : Sell(sold)) \/ UNCHANGED <<held, stream>>
    BY <1>2, <2>3 DEF MarketFollows
  <2>5. /\ mutex' \in {"free", "fresh", "stale"} /\ backup' \in BOOLEAN /\ resting' \in BOOLEAN
        /\ monitored' \in {"off", "entry", "trailing"}
    BY <1>2 DEF MarketFollows, AutoClose, IInv, TypeOK
  <2>6. UNCHANGED <<active, request, worker, discards, snapshot, sweeps, audit>>
    BY <1>2 DEF MarketFollows, AutoClose, syncVars
  <2>7. CASE \E sold \in 1 .. held : Sell(sold)
    <3>1. PICK sold \in 1 .. held : Sell(sold)
      BY <2>7
    <3>2. held' \in Nat /\ stream' \in Seq(Fill)
      BY <3>1, SellEffect DEF IInv
    <3>3. TypeOK'
      BY <2>1, <2>5, <2>6, <3>2 DEF IInv, TypeOK
    <3> QED
      BY <2>1, <3>1, <3>3, SellKeeps DEF IInv
  <2>8. CASE UNCHANGED <<held, stream>>
    <3>1. TypeOK'
      BY <2>1, <2>5, <2>6, <2>8 DEF IInv, TypeOK
    <3> QED
      BY <2>1, <2>8, <3>1, OthersKeep DEF IInv
  <2> QED
    BY <2>4, <2>7, <2>8
<1>3. CASE mutex' = "free" /\ UNCHANGED <<exchangeVars, tracker, active, recordVars>>
  <2>1. UNCHANGED <<held, stream, life, tracker, recorded, gaps>>
    BY <1>3 DEF AutoClose, exchangeVars, recordVars
  <2>2. TypeOK'
    BY <1>3, <2>1 DEF AutoClose, exchangeVars, orderVars, IInv, TypeOK, syncVars
  <2> QED
    BY <2>1, <2>2, OthersKeep DEF IInv
<1> QED
  BY <1>1, <1>2, <1>3 DEF AutoClose

\* What a call of the worker leaves behind, whatever comes of it.
LEMMA AttemptType ==
    ASSUME TypeOK, NEW kind \in {"full", "partial"}, NEW n \in 1 .. MaxCalls,
           NEW m \in {"free", "fresh", "stale"}, Attempt(kind, n, m)
    PROVE  /\ worker' \in BusyWorker \union {IdleWorker}
           /\ mutex' \in {"free", "fresh", "stale"}
           /\ backup' \in BOOLEAN /\ resting' \in BOOLEAN
<1>1. active \in Nat /\ backup \in BOOLEAN /\ resting \in BOOLEAN
      /\ mutex \in {"free", "fresh", "stale"}
  BY DEF TypeOK
<1>2. ASSUME NEW l \in {"free", "fresh", "stale"}, CallFullClose(n, l)
      PROVE  /\ worker' \in BusyWorker \union {IdleWorker}
             /\ mutex' \in {"free", "fresh", "stale"}
             /\ backup' \in BOOLEAN /\ resting' \in BOOLEAN
  <2>1. active > 0 => active \in Quantities
    BY <1>1 DEF Quantities
  <2>2. backup' \in BOOLEAN /\ resting' \in BOOLEAN
    BY <1>1, <1>2 DEF CallFullClose, CancelOrders, orderVars
  <2>3. mutex' \in {"free", "fresh", "stale"}
    BY <1>2 DEF CallFullClose
  <2>4. worker' \in BusyWorker \union {IdleWorker}
    <3>1. Send("full", active, n) /\ active > 0 => worker' \in BusyWorker
      BY <2>1 DEF Send, BusyWorker
    <3> QED
      BY <1>2, <3>1 DEF CallFullClose
  <2> QED
    BY <2>2, <2>3, <2>4
<1>3. CASE CallFullClose(n, m)
  BY <1>2, <1>3
<1>4. CASE CallPartialClose(n)
  <2>1. CASE active = 0 /\ worker' = IdleWorker /\ UNCHANGED <<mutex, orderVars>>
    BY <1>1, <2>1 DEF orderVars
  <2>2. CASE active > 1 /\ Send("partial", (active * 6) \div 10, n) /\ UNCHANGED <<mutex, orderVars>>
    <3>1. (active * 6) \div 10 \in Quantities
      BY <1>1, <2>2 DEF Quantities
    <3> QED
      BY <1>1, <2>2, <3>1 DEF Send, BusyWorker, orderVars
  <2>3. CASE active = 1 /\ CallFullClose(n, mutex)
    BY <1>1, <1>2, <2>3
  <2> QED
    BY <1>4, <2>1, <2>2, <2>3 DEF CallPartialClose
<1> QED
  BY <1>3, <1>4 DEF Attempt

LEMMA WorkerInv == IInv /\ (WorkerTakes \/ Acknowledged \/ CallFailed) => IInv'
<1> SUFFICES ASSUME IInv, WorkerTakes \/ Acknowledged \/ CallFailed PROVE IInv'
  OBVIOUS
<1>1. UNCHANGED <<held, stream, life, tracker, recorded, gaps>>
  BY DEF WorkerTakes, Acknowledged, CallFailed, exchangeVars, orderVars, recordVars
<1>2. CASE WorkerTakes
  <2>1. request \in {"full", "partial"} /\ 1 \in 1 .. MaxCalls /\ mutex \in {"free", "fresh", "stale"}
    BY <1>2, MaxCallsAssumption DEF WorkerTakes, IInv, TypeOK
  <2>2. /\ worker' \in BusyWorker \union {IdleWorker}
        /\ mutex' \in {"free", "fresh", "stale"}
        /\ backup' \in BOOLEAN /\ resting' \in BOOLEAN
    BY <1>2, <2>1, AttemptType DEF WorkerTakes, IInv
  <2> QED
    BY <1>1, <1>2, <2>2, OthersKeep DEF WorkerTakes, IInv, TypeOK, syncVars
<1>3. CASE Acknowledged
  BY <1>1, <1>3, OthersKeep DEF Acknowledged, exchangeVars, orderVars, monitorVars, IInv, TypeOK, syncVars
<1>4. CASE CallFailed
  <2> DEFINE freed == IF worker.kind = "full" THEN "free" ELSE mutex
  <2>1. worker \in BusyWorker
    BY <1>4 DEF CallFailed, IInv, TypeOK, IdleWorker
  <2>2. freed \in {"free", "fresh", "stale"}
    BY DEF IInv, TypeOK
  <2>3. /\ worker' \in BusyWorker \union {IdleWorker}
        /\ mutex' \in {"free", "fresh", "stale"}
        /\ backup' \in BOOLEAN /\ resting' \in BOOLEAN
    <3>1. CASE worker.calls < MaxCalls /\ Attempt(worker.kind, worker.calls + 1, freed)
      <4>1. worker.kind \in {"full", "partial"} /\ worker.calls + 1 \in 1 .. MaxCalls
        BY <2>1, <3>1, MaxCallsAssumption DEF BusyWorker
      <4> QED
        BY <2>2, <3>1, <4>1, AttemptType DEF IInv
    <3>2. CASE worker' = IdleWorker /\ mutex' = freed /\ UNCHANGED orderVars
      BY <2>2, <3>2 DEF IInv, TypeOK, orderVars
    <3> QED
      BY <1>4, <3>1, <3>2 DEF CallFailed
  <2> QED
    BY <1>1, <1>4, <2>3, OthersKeep DEF CallFailed, IInv, TypeOK, monitorVars, syncVars
<1> QED
  BY <1>2, <1>3, <1>4

LEMMA LoopsInv ==
    IInv /\ (Discard \/ MutexAges \/ SyncRead \/ SyncApply \/ AccountUpdate \/ Sweep
             \/ AuditRead \/ Reconcile) => IInv'
<1> SUFFICES ASSUME IInv,
                    \/ Discard \/ MutexAges \/ SyncRead \/ SyncApply
                    \/ AccountUpdate \/ Sweep \/ AuditRead \/ Reconcile
             PROVE  IInv'
  OBVIOUS
<1>1. UNCHANGED <<held, stream, life, tracker, recorded, gaps>>
  BY DEF Discard, MutexAges, SyncRead, SyncApply, AccountUpdate, Sweep, AuditRead, Reconcile,
         exchangeVars, orderVars, recordVars
<1>2. TypeOK'
  <2> USE DEF IInv, TypeOK, exchangeVars, orderVars, monitorVars, recordVars, syncVars
  <2>1. CASE Discard
    BY <2>1 DEF Discard
  <2>2. CASE MutexAges
    BY <2>2 DEF MutexAges
  <2>3. CASE SyncRead
    BY <2>3 DEF SyncRead
  <2>4. CASE SyncApply
    <3>1. PICK amount \in snapshot :
            /\ active' = amount
            /\ sweeps' = IF active > 0 /\ amount = 0 THEN sweeps + 1 ELSE sweeps
            /\ IF amount > 0 /\ mutex = "free" /\ monitored = "off"
               THEN monitored' \in {"entry", "trailing"}
               ELSE UNCHANGED monitored
      BY <2>4 DEF SyncApply
    <3> QED
      BY <2>4, <3>1 DEF SyncApply
  <2>5. CASE Sweep
    <3>1. backup' \in BOOLEAN /\ resting' \in BOOLEAN
      BY <2>5 DEF Sweep, CancelOrders
    <3>2. sweeps' \in Nat
      BY <2>5 DEF Sweep
    <3> QED
      BY <2>5, <3>1, <3>2 DEF Sweep
  <2>6. CASE AuditRead
    BY <2>6 DEF AuditRead
  <2>7. CASE Reconcile
    <3>1. backup' \in BOOLEAN /\ resting' \in BOOLEAN
      BY <2>7 DEF Reconcile, CancelOrders
    <3>2. active' \in Nat /\ monitored' \in {"off", "entry", "trailing"}
      <4>1. CASE active > 0
        BY <2>7, <4>1 DEF Reconcile
      <4>2. CASE ~(active > 0)
        BY <2>7, <4>2 DEF Reconcile
      <4> QED
        BY <4>1, <4>2
    <3> QED
      BY <2>7, <3>1, <3>2 DEF Reconcile
  <2>8. CASE AccountUpdate
    BY <2>8 DEF AccountUpdate
  <2> QED
    BY <2>1, <2>2, <2>3, <2>4, <2>5, <2>6, <2>7, <2>8
<1> QED
  BY <1>1, <1>2, OthersKeep DEF IInv

LEMMA StepInv == IInv /\ [Next]_vars => IInv'
<1>1. IInv /\ Next => IInv'
  BY EnterInv, RecordInv, ExchangeInv, MonitorInv, AutoCloseInv, WorkerInv, LoopsInv DEF Next
<1>2. IInv /\ UNCHANGED vars => IInv'
  <2> SUFFICES ASSUME IInv, UNCHANGED vars PROVE IInv'
    OBVIOUS
  <2>1. /\ UNCHANGED <<held, stream, life, tracker, recorded, gaps>>
        /\ UNCHANGED <<backup, resting, monitored, request, worker, active, mutex>>
        /\ UNCHANGED <<discards, snapshot, sweeps, audit>>
    BY DEF vars
  <2>2. TypeOK'
    BY <2>1 DEF IInv, TypeOK
  <2> QED
    BY <2>1, <2>2, OthersKeep DEF IInv
<1> QED
  BY <1>1, <1>2

\* The strengthened invariant holds in every state the pipeline reaches.
THEOREM Inductive == Spec => []IInv
<1>1. Init => IInv
  BY InitInv
<1>2. IInv /\ [Next]_vars => IInv'
  BY StepInv
<1> QED
  BY <1>1, <1>2, PTL DEF Spec

\* Type correctness: what monitor, worker, service and exchange keep for the symbol
\* stays in its type, so a close never sells more than is held.
THEOREM TypeCorrect == Spec => []TypeOK
<1>1. IInv => TypeOK
  BY DEF IInv
<1> QED
  BY <1>1, Inductive, PTL

\* No closed position is recorded a second time, however often its close is asked
\* for, retried, or overtaken by the backup stop loss.
THEOREM TradesRecordedOnce == Spec => []RecordedOnce
<1>1. IInv => RecordedOnce
  <2> SUFFICES ASSUME IInv, NEW l \in Lives PROVE recorded[l] <= 1 \/ <<l, "early">> \in gaps
    BY DEF RecordedOnce
  <2>1. recorded[l] = 0 \/ recorded[l] = 1 \/ <<l, "early">> \in gaps
    BY DEF IInv, Once, Closed
  <2> QED
    BY <2>1
<1> QED
  BY <1>1, Inductive, PTL

--------------------------------------------------------------------------------
(* The books of the service against the exchange.                          *)

\* net[i] is what the tracker will hold after the first i fills of the stream; what
\* the exchange holds is what remains in the end, and no more before any sale.
Course(net) ==
    /\ net[Len(stream)] = held
    /\ \A i \in 1 .. Len(stream) :
         net[i] = IF stream[i].kind = "entry" THEN net[i - 1] + stream[i].qty
                                              ELSE net[i - 1] - stream[i].qty
    /\ \A i \in 1 .. Len(stream) : stream[i].kind = "exit" => held <= net[i - 1]

\* The tracker and the fills to come make up what the exchange holds.
Tracked ==
    /\ tracker # NoTracker
    /\ tracker.side = "LONG"
    /\ tracker.exited <= tracker.entered
    /\ \E net \in [0 .. Len(stream) -> Nat] :
         Course(net) /\ net[0] = tracker.entered - tracker.exited

\* So it is with the newest position until it is recorded; then nothing is held.
Booked ==
    life > 0 /\ Accounted(life) => IF recorded[life] > 0 THEN held = 0 ELSE Tracked

LEMMA GapShows ==
    ASSUME NEW l, NEW how, NEW noted, <<l, how>> \in noted
    PROVE  \E gap \in noted : gap[1] = l
<1>1. <<l, how>>[1] = l
  OBVIOUS
<1> QED
  BY <1>1, Zenon

LEMMA BookedInit == Init => Booked
  BY DEF Init, Booked

LEMMA TrackedOthers ==
    ASSUME Tracked, UNCHANGED <<held, stream, tracker>>
    PROVE  Tracked'
  BY DEF Tracked, Course

LEMMA BookedOthers ==
    ASSUME Booked, UNCHANGED <<held, stream, tracker, life, recorded, gaps>>
    PROVE  Booked'
  BY TrackedOthers DEF Booked, Accounted

\* An entry made while nothing is held.
LEMMA TrackedEnter ==
    ASSUME IInv, Enter, held = 0
    PROVE  Tracked'
<1> DEFINE N == Len(EntryFills)
<1>1. /\ stream' = Fills("entry", EntryFills) /\ held' = Size
      /\ tracker' = NewTracker(life', "LONG") /\ life' \in Nat /\ life' > 0
  BY MaxLivesAssumption, SizeAssumption DEF Enter, EntryTracker, IInv, TypeOK
<1>2. /\ N \in Nat /\ DOMAIN EntryFills = 1 .. N /\ EntryFills \in Seq(Quantities)
      /\ \A i \in 1 .. N : EntryFills[i] \in 1 .. Size
  <2>1. EntryFills \in Seq(1 .. Size)
    BY EntryFillsAssumption
  <2>2. 1 .. Size \subseteq Quantities
    BY SizeAssumption DEF Quantities
  <2>3. EntryFills \in Seq(Quantities)
    BY <2>1, <2>2, SeqMonotonic
  <2>4. N \in Nat /\ DOMAIN EntryFills = 1 .. N
    BY <2>1, LenProperties
  <2>5. \A i \in 1 .. N : EntryFills[i] \in 1 .. Size
    BY <2>1, ElementOfSeq
  <2> QED
    BY <2>3, <2>4, <2>5
<1>3. stream' \in Seq(Fill) /\ Len(stream') = N
  BY <1>1, <1>2, FillsType
<1>4. \A i \in 1 .. N : stream'[i].kind = "entry" /\ stream'[i].qty = EntryFills[i]
  BY <1>1, <1>2 DEF Fills
<1>5. /\ tracker' # NoTracker /\ tracker'.side = "LONG"
      /\ tracker'.entered = 0 /\ tracker'.exited = 0
  BY <1>1 DEF NewTracker, NoTracker
<1>6. PICK total \in [0 .. N -> 0 .. Size] :
        /\ total[0] = 0 /\ total[N] = Size
        /\ \A i \in 1 .. N : total[i] = total[i - 1] + EntryFills[i]
  BY SumAssumption
<1> HIDE DEF N
<1>7. total[0] = tracker'.entered - tracker'.exited
  BY <1>5, <1>6
<1>8. /\ total[Len(stream')] = held'
      /\ \A i \in 1 .. Len(stream') :
           total[i] = IF stream'[i].kind = "entry" THEN total[i - 1] + stream'[i].qty
                                                   ELSE total[i - 1] - stream'[i].qty
      /\ \A i \in 1 .. Len(stream') : stream'[i].kind # "exit"
  BY <1>1, <1>3, <1>4, <1>6
<1>9. total \in [0 .. Len(stream') -> Nat]
  BY <1>3, <1>6
<1>10. \E net \in [0 .. Len(stream') -> Nat] :
         Course(net)' /\ net[0] = tracker'.entered - tracker'.exited
  BY <1>7, <1>8, <1>9 DEF Course
<1> QED
  BY <1>5, <1>10 DEF Tracked

\* The exit fills of one sale, added up.
LEMMA SaleCourse ==
    ASSUME NEW qty \in Quantities, NEW sold \in {<<qty>>, [i \in 1 .. qty |-> 1]}
    PROVE  LET exits == Fills("exit", sold) IN
           /\ exits \in Seq(Fill) /\ Len(exits) \in Nat
           /\ \A i \in 1 .. Len(exits) : exits[i].kind = "exit"
           /\ \E done \in [0 .. Len(exits) -> 0 .. qty] :
                /\ done[0] = 0 /\ done[Len(exits)] = qty
                /\ \A i \in 1 .. Len(exits) : done[i] = done[i - 1] + exits[i].qty
<1>0. qty \in Nat /\ qty > 0
  BY DEF Quantities
<1>1. CASE sold = <<qty>>
  <2> DEFINE exits == Fills("exit", sold)
             done == [i \in 0 .. 1 |-> IF i = 0 THEN 0 ELSE qty]
  <2>1. sold \in Seq(Quantities) /\ Len(sold) = 1 /\ sold[1] = qty /\ DOMAIN sold = 1 .. 1
    BY <1>1
  <2>2. exits \in Seq(Fill) /\ Len(exits) = 1 /\ \A i \in 1 .. 1 : exits[i].kind = "exit"
    BY <2>1, FillsType
  <2>3. exits[1].qty = qty
    BY <2>1 DEF Fills
  <2>4. /\ done \in [0 .. 1 -> 0 .. qty] /\ done[0] = 0 /\ done[1] = qty
        /\ \A i \in 1 .. 1 : done[i] = done[i - 1] + exits[i].qty
    BY <1>0, <2>3
  <2> HIDE DEF exits, done
  <2>5. /\ exits \in Seq(Fill) /\ Len(exits) \in Nat
        /\ \A i \in 1 .. Len(exits) : exits[i].kind = "exit"
        /\ done \in [0 .. Len(exits) -> 0 .. qty]
        /\ done[0] = 0 /\ done[Len(exits)] = qty
        /\ \A i \in 1 .. Len(exits) : done[i] = done[i - 1] + exits[i].qty
    BY <2>2, <2>4
  <2> QED
    BY <2>5 DEF exits
<1>2. CASE sold = [i \in 1 .. qty |-> 1]
  <2> DEFINE exits == Fills("exit", sold)
             done == [i \in 0 .. qty |-> i]
  <2>1. sold \in Seq(Quantities) /\ Len(sold) = qty /\ DOMAIN sold = 1 .. qty
    BY <1>0, <1>2 DEF Quantities
  <2>2. exits \in Seq(Fill) /\ Len(exits) = qty /\ \A i \in 1 .. qty : exits[i].kind = "exit"
    BY <2>1, FillsType
  <2>3. \A i \in 1 .. qty : exits[i].qty = 1
    BY <1>2, <2>1 DEF Fills
  <2>4. /\ done \in [0 .. qty -> 0 .. qty] /\ done[0] = 0 /\ done[qty] = qty
        /\ \A i \in 1 .. qty : done[i] = done[i - 1] + exits[i].qty
    BY <1>0, <2>3
  <2> HIDE DEF exits, done
  <2>5. /\ exits \in Seq(Fill) /\ Len(exits) \in Nat
        /\ \A i \in 1 .. Len(exits) : exits[i].kind = "exit"
        /\ done \in [0 .. Len(exits) -> 0 .. qty]
        /\ done[0] = 0 /\ done[Len(exits)] = qty
        /\ \A i \in 1 .. Len(exits) : done[i] = done[i - 1] + exits[i].qty
    BY <1>0, <2>2, <2>4
  <2> QED
    BY <2>5 DEF exits
<1> QED
  BY <1>1, <1>2

LEMMA TrackedSell ==
    ASSUME IInv, Tracked, NEW qty \in 1 .. held, Sell(qty), UNCHANGED tracker
    PROVE  Tracked'
<1>1. held \in Nat /\ qty \in Quantities /\ qty \in Nat /\ qty <= held /\ held' = held - qty
  BY DEF IInv, TypeOK, Sell, Quantities
<1>2. PICK sold \in {<<qty>>, [i \in 1 .. qty |-> 1]} : stream' = stream \o Fills("exit", sold)
  BY DEF Sell
<1> DEFINE exits == Fills("exit", sold)
           L == Len(stream)
           K == Len(exits)
<1>3. PICK done \in [0 .. K -> 0 .. qty] :
        /\ exits \in Seq(Fill) /\ K \in Nat
        /\ \A i \in 1 .. K : exits[i].kind = "exit"
        /\ done[0] = 0 /\ done[K] = qty
        /\ \A i \in 1 .. K : done[i] = done[i - 1] + exits[i].qty
  BY <1>1, SaleCourse
<1>4. stream \in Seq(Fill) /\ L \in Nat
  BY LenProperties DEF IInv, TypeOK
<1> HIDE DEF exits
<1>5. /\ Len(stream') = L + K
      /\ \A i \in 1 .. L + K : stream'[i] = IF i <= L THEN stream[i] ELSE exits[i - L]
  BY <1>2, <1>3, <1>4, ConcatProperties DEF exits
<1>7. PICK net \in [0 .. L -> Nat] : Course(net) /\ net[0] = tracker.entered - tracker.exited
  BY DEF Tracked
<1> HIDE DEF L, K
<1>8. \A i \in 1 .. L + K : i \in 1 .. L \/ \E m \in 1 .. K : i = L + m
  <2> SUFFICES ASSUME NEW i \in 1 .. L + K, i > L PROVE \E m \in 1 .. K : i = L + m
    BY <1>4
  <2>1. i - L \in 1 .. K /\ i = L + (i - L)
    BY <1>3, <1>4
  <2> QED
    BY <2>1
<1>9. /\ \A i \in 1 .. L : stream'[i] = stream[i]
      /\ \A m \in 1 .. K : stream'[L + m] = exits[m]
  <2>1. ASSUME NEW i \in 1 .. L PROVE stream'[i] = stream[i]
    BY <1>3, <1>4, <1>5
  <2>2. ASSUME NEW m \in 1 .. K PROVE stream'[L + m] = exits[m]
    <3>1. L + m \in 1 .. L + K /\ ~(L + m <= L) /\ (L + m) - L = m
      BY <1>3, <1>4
    <3> QED
      BY <1>5, <3>1
  <2> QED
    BY <2>1, <2>2
<1>11. /\ \A i \in 0 .. L : net[i] \in Nat
       /\ net[L] = held
       /\ \A i \in 1 .. L : net[i] = IF stream[i].kind = "entry" THEN net[i - 1] + stream[i].qty
                                                                 ELSE net[i - 1] - stream[i].qty
       /\ \A i \in 1 .. L : stream[i].kind = "exit" => held <= net[i - 1]
  BY <1>7 DEF Course, L
<1>12. \A m \in 1 .. K : done[m] \in 0 .. qty /\ done[m - 1] \in 0 .. qty /\ exits[m].qty \in Nat
  <2>1. \A m \in 1 .. K : exits[m] \in Fill
    BY <1>3, ElementOfSeq DEF K
  <2>2. \A m \in 1 .. K : m \in 0 .. K /\ m - 1 \in 0 .. K
    BY <1>3
  <2>3. \A m \in 0 .. K : done[m] \in 0 .. qty
    BY <1>3
  <2>4. \A m \in 1 .. K : exits[m].qty \in Nat
    BY ONLY <1>1, <2>1 DEF Fill, Quantities
  <2> QED
    BY ONLY <2>2, <2>3, <2>4
<1>13. PICK longer : longer = [i \in 0 .. L + K |-> IF i <= L THEN net[i] ELSE held - done[i - L]]
  OBVIOUS
<1>14. /\ \A i \in 0 .. L : longer[i] = net[i]
       /\ \A m \in 0 .. K : longer[L + m] = held - done[m]
  <2>1. \A i \in 0 .. L : i \in 0 .. L + K /\ longer[i] = net[i]
    BY <1>3, <1>4, <1>13
  <2>2. ASSUME NEW m \in 1 .. K PROVE longer[L + m] = held - done[m]
    <3>1. L + m \in 0 .. L + K /\ ~(L + m <= L) /\ (L + m) - L = m
      BY <1>3, <1>4
    <3> QED
      BY <1>13, <3>1
  <2>3. longer[L] = held - done[0]
    BY <1>1, <1>3, <1>4, <1>11, <2>1
  <2>4. ASSUME NEW m \in 0 .. K PROVE m = 0 \/ m \in 1 .. K
    BY <1>3
  <2>5. longer[L + 0] = held - done[0]
    BY <1>4, <2>3
  <2> QED
    BY ONLY <2>1, <2>2, <2>4, <2>5
<1>15. longer \in [0 .. L + K -> Nat]
  <2> SUFFICES ASSUME NEW i \in 0 .. L + K PROVE longer[i] \in Nat
    BY <1>13
  <2>1. CASE i \in 0 .. L
    BY <1>11, <1>14, <2>1
  <2>2. CASE i \notin 0 .. L
    <3>1. PICK m \in 1 .. K : i = L + m
      BY <1>3, <1>4, <1>8, <2>2
    <3>2. longer[i] = held - done[m] /\ done[m] \in 0 .. qty
      BY <1>3, <1>12, <1>14, <3>1
    <3> QED
      BY <1>1, <3>2
  <2> QED
    BY <2>1, <2>2
<1>16. ASSUME NEW i \in 1 .. L + K
       PROVE  longer[i] = IF stream'[i].kind = "entry" THEN longer[i - 1] + stream'[i].qty
                                                       ELSE longer[i - 1] - stream'[i].qty
  <2>1. CASE i \in 1 .. L
    <3>1. i - 1 \in 0 .. L /\ i \in 0 .. L
      BY <1>4, <2>1
    <3> QED
      BY <1>9, <1>11, <1>14, <2>1, <3>1
  <2>2. CASE i \notin 1 .. L
    <3>1. PICK m \in 1 .. K : i = L + m
      BY <1>8, <2>2
    <3>2. i - 1 = L + (m - 1) /\ m - 1 \in 0 .. K /\ m \in 0 .. K
      BY <1>3, <1>4, <3>1
    <3>3. longer[i] = held - done[m] /\ longer[i - 1] = held - done[m - 1]
      BY <1>14, <3>1, <3>2
    <3>4. stream'[i].qty = exits[m].qty /\ stream'[i].kind # "entry"
      BY <1>3, <1>9, <3>1
    <3>5. done[m] = done[m - 1] + exits[m].qty /\ done[m - 1] \in Nat /\ exits[m].qty \in Nat
      BY <1>1, <1>3, <1>12
    <3> QED
      BY <1>1, <3>3, <3>4, <3>5
  <2> QED
    BY <2>1, <2>2
<1>17. longer[L + K] = held' /\ longer[0] = tracker'.entered - tracker'.exited
  <2>1. 0 \in 0 .. L /\ K \in 0 .. K
    BY <1>3, <1>4
  <2> QED
    BY <1>1, <1>3, <1>7, <1>14, <2>1
<1>18. ASSUME NEW i \in 1 .. L + K, stream'[i].kind = "exit"
       PROVE  held' <= longer[i - 1]
  <2>1. CASE i \in 1 .. L
    <3>1. i - 1 \in 0 .. L /\ held <= net[i - 1] /\ longer[i - 1] = net[i - 1] /\ net[i - 1] \in Nat
      BY <1>4, <1>9, <1>11, <1>14, <1>18, <2>1
    <3> QED
      BY <1>1, <3>1
  <2>2. CASE i \notin 1 .. L
    <3>1. PICK m \in 1 .. K : i = L + m
      BY <1>8, <2>2
    <3>2. i - 1 = L + (m - 1) /\ m - 1 \in 0 .. K
      BY <1>3, <1>4, <3>1
    <3>3. longer[i - 1] = held - done[m - 1] /\ done[m - 1] \in 0 .. qty
      BY <1>12, <1>14, <3>1, <3>2
    <3> QED
      BY <1>1, <3>3
  <2> QED
    BY <2>1, <2>2
<1>19. Course(longer)'
  BY <1>5, <1>16, <1>17, <1>18 DEF Course
<1> QED
  BY <1>5, <1>15, <1>17, <1>19 DEF Tracked

\* With no entry fill to come the tracker knows all of the position.
LEMMA TrackedInFull ==
    ASSUME IInv, Tracked, AllExits(stream)
    PROVE  held <= tracker.entered
<1>1. PICK net \in [0 .. Len(stream) -> Nat] : Course(net) /\ net[0] = tracker.entered - tracker.exited
  BY DEF Tracked
<1>2. Len(stream) \in Nat /\ tracker.entered \in Nat /\ tracker.exited \in Nat /\ held \in Nat
  BY LenProperties DEF Tracked, IInv, TypeOK, Tracker
<1>3. held <= net[0]
  <2>1. CASE Len(stream) = 0
    BY <1>1, <1>2, <2>1 DEF Course
  <2>2. CASE Len(stream) # 0
    <3>1. 1 \in 1 .. Len(stream) /\ 1 - 1 = 0
      BY <1>2, <2>2
    <3> QED
      BY <1>1, <3>1 DEF Course, AllExits
  <2> QED
    BY <2>1, <2>2
<1> QED
  BY <1>1, <1>2, <1>3

\* A fill is handled.  One that empties the tracker was the last of the position.
LEMMA TrackedRecord ==
    ASSUME IInv, Tracked, RecordFill, ~LooksRecorded(Head(stream))
    PROVE  IF recorded' = recorded THEN Tracked' ELSE Complete /\ held = 0
<1> DEFINE fill == Head(stream)
           L == Len(stream)
<1>1. /\ L \in Nat \ {0} /\ Len(stream') = L - 1
      /\ fill = stream[1] /\ fill \in Fill
      /\ \A i \in 1 .. L - 1 : stream'[i] = stream[i + 1]
      /\ \A i \in 1 .. L : stream[i].qty \in Quantities
      /\ stream \in Seq(Fill) /\ stream' = Tail(stream) /\ held' = held
  <2>1. stream \in Seq(Fill) /\ stream # <<>> /\ stream' = Tail(stream)
    BY DEF IInv, TypeOK, RecordFill
  <2>2. \A i \in 1 .. L : stream[i] \in Fill
    BY <2>1, ElementOfSeq
  <2> QED
    BY <2>1, <2>2, HeadTailProperties, EmptySeq DEF RecordFill, Fill
<1> HIDE DEF fill, L
<1>2. /\ tracker # NoTracker /\ tracker.side = "LONG" /\ tracker.exited <= tracker.entered
  BY DEF Tracked
<1>3. PICK net \in [0 .. L -> Nat] : Course(net) /\ net[0] = tracker.entered - tracker.exited
  BY DEF Tracked, L
<1>4. /\ \A i \in 0 .. L : net[i] \in Nat
      /\ net[L] = held
      /\ \A i \in 1 .. L : net[i] = IF stream[i].kind = "entry" THEN net[i - 1] + stream[i].qty
                                                                ELSE net[i - 1] - stream[i].qty
      /\ \A i \in 1 .. L : stream[i].kind = "exit" => held <= net[i - 1]
  BY <1>3 DEF Course, L
<1>5. /\ tracker \in Tracker(Lives, Quantities)
      /\ tracker.entered \in Nat /\ tracker.exited \in Nat
      /\ tracker.life = life /\ life \in Lives /\ recorded \in [Lives -> Nat]
  BY <1>2 DEF IInv, TypeOK, Tracker, Current, Lives
<1>6. Book(tracker, fill)
  BY <1>2 DEF RecordFill, Receiver, Ignored, fill
<1>7. net[1] = IF fill.kind = "entry" THEN net[0] + fill.qty ELSE net[0] - fill.qty
  <2>1. 1 \in 1 .. L /\ 1 - 1 = 0
    BY <1>1
  <2> QED
    BY <1>1, <1>4, <2>1
<1>8. fill.qty \in Nat /\ fill.qty > 0 /\ fill.kind \in {"entry", "exit"}
      /\ net[0] \in Nat /\ net[1] \in Nat
  BY <1>1, <1>4 DEF Fill, Quantities
\* The rest of the stream has the rest of the course.
<1>9. PICK rest : rest = [i \in 0 .. L - 1 |-> net[i + 1]]
  OBVIOUS
<1>10. /\ rest \in [0 .. Len(stream') -> Nat]
       /\ Course(rest)'
       /\ rest[0] = net[1]
  <2>1. \A i \in 0 .. L - 1 : i + 1 \in 0 .. L /\ rest[i] = net[i + 1]
    BY <1>1, <1>9
  <2>2. rest \in [0 .. L - 1 -> Nat]
    BY <1>4, <1>9, <2>1
  <2>3. rest[L - 1] = held' /\ rest[0] = net[1]
    BY <1>1, <1>4, <2>1
  <2>4. ASSUME NEW i \in 1 .. L - 1
        PROVE  /\ rest[i] = IF stream'[i].kind = "entry" THEN rest[i - 1] + stream'[i].qty
                                                         ELSE rest[i - 1] - stream'[i].qty
               /\ stream'[i].kind = "exit" => held' <= rest[i - 1]
    <3>1. i \in 0 .. L - 1 /\ i - 1 \in 0 .. L - 1 /\ i + 1 \in 1 .. L /\ (i - 1) + 1 = i /\ (i + 1) - 1 = i
      BY <1>1
    <3>2. rest[i] = net[i + 1] /\ rest[i - 1] = net[i] /\ stream'[i] = stream[i + 1]
      BY <1>1, <2>1, <3>1
    <3> QED
      BY <1>1, <1>4, <3>1, <3>2
  <2>5. Len(stream') = L - 1
    BY <1>1
  <2>6. \A i \in 1 .. Len(stream') :
          rest[i] = IF stream'[i].kind = "entry" THEN rest[i - 1] + stream'[i].qty
                                                ELSE rest[i - 1] - stream'[i].qty
    BY <2>4, <2>5
  <2>7. \A i \in 1 .. Len(stream') : stream'[i].kind = "exit" => held' <= rest[i - 1]
    BY <2>4, <2>5
  <2> QED
    BY <2>2, <2>3, <2>5, <2>6, <2>7 DEF Course
<1>12. CASE fill.kind = "entry"
  <2>1. tracker' = AddEntryFill(tracker, fill.qty) /\ UNCHANGED bookVars
    BY <1>2, <1>6, <1>12 DEF Book, Completes, Exits, Note
  <2>2. fill.qty \notin tracker.sizes
    BY <1>2, <1>12 DEF LooksRecorded, fill
  <2>3. tracker' = [tracker EXCEPT !.entered = @ + fill.qty, !.sizes = @ \union {fill.qty}]
    BY <2>1, <2>2 DEF AddEntryFill
  <2>4. /\ tracker'.side = "LONG" /\ tracker'.exited = tracker.exited
        /\ tracker'.entered = tracker.entered + fill.qty
    BY <1>2, <1>5, <2>3 DEF Tracker
  <2>5. tracker' # NoTracker
    BY <1>5, <2>3 DEF Tracker, NoTracker, Lives
  <2>6. tracker'.exited <= tracker'.entered
    BY <1>2, <1>5, <1>8, <2>4
  <2>8. rest[0] = tracker'.entered - tracker'.exited
    BY <1>3, <1>5, <1>7, <1>8, <1>10, <1>12, <2>4
  <2>9. recorded' = recorded
    BY <2>1 DEF bookVars
  <2> QED
    BY <1>10, <2>4, <2>5, <2>6, <2>8, <2>9 DEF Tracked
<1>13. CASE fill.kind = "exit"
  <2>1. tracker.exited + fill.qty <= tracker.entered
    BY <1>3, <1>5, <1>7, <1>8, <1>13
  <2>2. AddExitFill(tracker, fill.qty) = [tracker EXCEPT !.exited = @ + fill.qty]
    BY <1>5, <1>8, <2>1 DEF AddExitFill, FullyExited
  <2>3. PICK t : t = [tracker EXCEPT !.exited = @ + fill.qty]
    OBVIOUS
  <2>4. /\ t.side = "LONG" /\ t.exited = tracker.exited + fill.qty
        /\ t.entered = tracker.entered
    BY <1>2, <1>5, <2>3 DEF Tracker
  <2>5. net[1] = t.entered - t.exited
    BY <1>3, <1>5, <1>7, <1>8, <1>13, <2>4
  <2>6. Completes(tracker, fill) => Quantity(t) = 0
    BY <2>2, <2>3 DEF Completes
  <2>7. CASE Completes(tracker, fill)
    <3>1. net[1] = 0
      BY <1>5, <1>8, <2>1, <2>4, <2>5, <2>6, <2>7 DEF Quantity
    <3>2. L = 1
      <4> SUFFICES ASSUME L # 1 PROVE FALSE
        OBVIOUS
      <4>1. 2 \in 1 .. L /\ 2 - 1 = 1 /\ 2 \in 0 .. L
        BY <1>1
      <4>2. stream[2].kind = "exit"
        BY <1>1, <1>13, <4>1 DEF IInv, Ordered, L
      <4>3. net[2] = net[1] - stream[2].qty /\ net[2] \in Nat /\ stream[2].qty \in Nat \ {0}
        BY <1>1, <1>4, <4>1, <4>2 DEF Quantities
      <4> QED
        BY <1>8, <3>1, <4>3
    <3>3. held = 0
      BY <1>4, <3>1, <3>2
    <3>4. Complete
      BY <1>6, <2>7 DEF Book
    <3>5. recorded' # recorded
      <4>1. recorded' = [recorded EXCEPT ![life] = recorded[life] + 1]
        BY <1>5, <3>4 DEF Complete
      <4>2. recorded'[life] # recorded[life]
        BY <1>5, <4>1
      <4> QED
        BY <4>2
    <3> QED
      BY <3>3, <3>4, <3>5
  <2>8. CASE ~Completes(tracker, fill)
    <3>1. tracker' = t /\ UNCHANGED bookVars
      BY <1>2, <1>6, <1>13, <2>2, <2>3, <2>8 DEF Book, Exits, Note
    <3>2. tracker' # NoTracker
      BY <1>5, <2>3, <3>1 DEF Tracker, NoTracker, Lives
    <3>3. tracker'.exited <= tracker'.entered /\ rest[0] = tracker'.entered - tracker'.exited
      BY <1>10, <2>1, <2>4, <2>5, <3>1
    <3>5. recorded' = recorded
      BY <3>1 DEF bookVars
    <3> QED
      BY <1>10, <2>4, <3>1, <3>2, <3>3, <3>5 DEF Tracked
  <2> QED
    BY <2>7, <2>8
<1> QED
  BY <1>8, <1>12, <1>13

\* A sale that records nothing.
LEMMA BookedSell ==
    ASSUME IInv, Booked, NEW qty \in 1 .. held, Sell(qty), UNCHANGED <<life, tracker, recorded, gaps>>
    PROVE  Booked'
<1> SUFFICES ASSUME life > 0, Accounted(life), recorded'[life] <= 0
             PROVE  Tracked'
  <2>1. held \in Nat /\ held' \in Nat /\ held' <= held
    BY DEF IInv, TypeOK, Sell
  <2>2. life > 0 /\ Accounted(life) /\ recorded[life] > 0 => held' = 0
    BY <2>1 DEF Booked
  <2>3. life > 0 => recorded[life] \in Nat
    BY DEF IInv, TypeOK, Lives
  <2> QED
    BY <2>2, <2>3 DEF Booked, Accounted
<1>1. recorded[life] \in Nat
  BY DEF IInv, TypeOK, Lives
<1> QED
  BY <1>1, TrackedSell DEF Booked

LEMMA BookedEnter ==
    ASSUME IInv, Enter
    PROVE  Booked'
<1>1. life' \in Lives /\ held \in Nat
  BY MaxLivesAssumption DEF IInv, TypeOK, Enter, Lives
<1>2. CASE held = 0
  <2>1. life' # 0 /\ recorded'[life'] = recorded[life']
    BY <1>1 DEF Lives, Enter
  <2>2. ASSUME Accounted(life)', recorded'[life'] > 0 PROVE FALSE
    <3>1. <<life', "early">> \notin gaps
      <4>1. gaps' = gaps
        BY <1>2 DEF Enter
      <4> QED
        BY <2>2, <4>1 DEF Accounted
    <3>2. ~(life' <= life)
      BY DEF IInv, TypeOK, Enter
    <3> QED
      BY <1>1, <2>1, <2>2, <3>1, <3>2 DEF IInv, Once, Closed
  <2> QED
    BY <1>2, <2>2, TrackedEnter DEF Booked, Accounted
<1>3. CASE held # 0
  <2>1. gaps' = gaps \union {<<life', "added">>}
    BY <1>1, <1>3 DEF Enter
  <2>2. \E gap \in gaps' : gap[1] = life'
    BY <2>1, GapShows
  <2> QED
    BY <2>2 DEF Booked, Accounted
<1> QED
  BY <1>2, <1>3

\* A recording from the reply of the candle close's order.
LEMMA BookedLimitFilled ==
    ASSUME IInv, Booked, AutoClose, held > 0, tracker.side = "LONG", tracker.entered > 0, LimitFilled
    PROVE  /\ Booked'
           /\ \A l \in Lives : recorded'[l] > recorded[l] => held' = 0 \/ ~Accounted(l)'
<1>1. /\ tracker \in Tracker(Lives, Quantities) /\ tracker.life = life /\ life \in Lives
      /\ tracker.entered \in Nat /\ held \in Nat /\ recorded \in [Lives -> Nat]
  BY DEF AutoClose, IInv, TypeOK, Current, Tracker, Lives
<1>2. /\ Sell(Reduced(tracker.entered)) /\ life' = life
      /\ recorded' = [recorded EXCEPT ![life] = recorded[life] + 1]
      /\ gaps' = IF EntryDue THEN gaps \union {<<life, "early">>} ELSE gaps
  <2>1. life' = life
    BY DEF AutoClose
  <2> QED
    BY <1>1, <2>1 DEF LimitFilled
<1>3. ASSUME Accounted(life)' PROVE held' = 0
  <2>1. ~EntryDue
    <3>1. EntryDue => \E gap \in gaps' : gap[1] = life
      BY <1>2, GapShows
    <3> QED
      BY <1>2, <1>3, <3>1 DEF Accounted
  <2>2. Accounted(life)
    BY <1>2, <1>3, <2>1 DEF Accounted
  <2>3. AllExits(stream)
    <3>1. \A i \in 1 .. Len(stream) : stream[i] \in Fill
      BY ElementOfSeq DEF IInv, TypeOK
    <3> QED
      BY <2>1, <3>1 DEF EntryDue, AllExits, Fill
  <2>4. Tracked
    BY <1>1, <2>2 DEF Booked, Lives
  <2>5. held <= tracker.entered
    BY <2>3, <2>4, TrackedInFull
  <2> QED
    BY <1>1, <1>2, <2>5 DEF Reduced, Sell
<1>4. recorded'[life] = recorded[life] + 1 /\ recorded[life] \in Nat
      /\ \A l \in Lives \ {life} : recorded'[l] = recorded[l]
  BY <1>1, <1>2
<1>5. recorded'[life'] > 0
  BY <1>2, <1>4
<1>6. Booked'
  BY <1>2, <1>3, <1>5 DEF Booked, Accounted
<1>7. ASSUME NEW l \in Lives, recorded'[l] > recorded[l] PROVE held' = 0 \/ ~Accounted(l)'
  <2>1. l = life
    BY <1>1, <1>4, <1>7
  <2> QED
    BY <1>2, <1>3, <2>1 DEF Accounted
<1> QED
  BY <1>6, <1>7

LEMMA BookedRecord ==
    ASSUME IInv, Booked, RecordFill
    PROVE  /\ Booked'
           /\ \A l \in Lives : recorded'[l] > recorded[l] => held' = 0 \/ ~Accounted(l)'
<1>1. life \in Lives /\ life > 0 /\ life' = life /\ held' = held /\ gaps \subseteq gaps'
  BY DEF IInv, Opened, RecordFill, TypeOK, Lives
<1>2. recorded \in [Lives -> Nat]
  BY DEF IInv, TypeOK
<1>3. \/ recorded' = recorded
      \/ recorded' = [recorded EXCEPT ![life] = recorded[life] + 1]
  <2>1. CASE Ignored(Head(stream))
    BY <2>1 DEF RecordFill, bookVars
  <2>2. CASE ~Ignored(Head(stream))
    <3>1. PICK t \in Receiver : Book(t, Head(stream))
      BY <2>2 DEF RecordFill
    <3>2. CASE tracker # NoTracker /\ Complete
      <4>1. tracker.life = life
        BY <3>2 DEF IInv, TypeOK, Current, Tracker, Lives
      <4> QED
        BY <3>2, <4>1 DEF Complete
    <3>3. CASE UNCHANGED bookVars
      BY <3>3 DEF bookVars
    <3>4. tracker = NoTracker => t.entered = 0 /\ t.exited = 0
      BY <3>1 DEF Receiver, NewTracker
    <3>5. Completes(t, Head(stream)) => tracker # NoTracker
      BY <3>4 DEF Completes, Quantity
    <3> QED
      BY <3>1, <3>2, <3>3, <3>5 DEF Book
  <2> QED
    BY <2>1, <2>2
<1>4. CASE Accounted(life)'
  <2>1. Accounted(life)
    BY <1>1, <1>4 DEF Accounted
  <2>2. ~LooksRecorded(Head(stream))
    <3> SUFFICES ASSUME LooksRecorded(Head(stream)) PROVE FALSE
      OBVIOUS
    <3>1. tracker.life = life
      BY DEF LooksRecorded, IInv, TypeOK, Current, Tracker, Lives
    <3>2. <<life, "equal">> \in gaps'
      BY <3>1 DEF RecordFill
    <3> QED
      BY <1>1, <1>4, <3>2 DEF Accounted
  <2>3. CASE recorded[life] > 0
    <3>1. held' = 0 /\ recorded'[life] > 0
      BY <1>1, <1>2, <1>3, <2>1, <2>3 DEF Booked
    <3> QED
      BY <1>1, <3>1 DEF Booked
  <2>4. CASE ~(recorded[life] > 0)
    <3>1. Tracked
      BY <1>1, <2>1, <2>4 DEF Booked
    <3>2. IF recorded' = recorded THEN Tracked' ELSE Complete /\ held = 0
      BY <2>2, <3>1, TrackedRecord
    <3>3. CASE recorded' = recorded
      BY <1>1, <1>2, <2>4, <3>2, <3>3 DEF Booked
    <3>4. CASE recorded' # recorded
      <4>1. held' = 0 /\ recorded'[life] > 0
        BY <1>1, <1>2, <1>3, <3>2, <3>4
      <4> QED
        BY <1>1, <4>1 DEF Booked
    <3> QED
      BY <3>3, <3>4
  <2> QED
    BY <2>3, <2>4
<1>5. CASE ~Accounted(life)'
  <2>1. Booked'
    BY <1>1, <1>5 DEF Booked, Accounted
  <2>2. \A l \in Lives : recorded'[l] > recorded[l] => l = life
    BY <1>1, <1>2, <1>3
  <2> QED
    BY <1>1, <1>5, <2>1, <2>2 DEF Accounted
<1> QED
  BY <1>4, <1>5

\* Only RecordFill and AutoClose record, so the step facts of the two theorems go
\* together.
LEMMA BookedStep ==
    ASSUME IInv, Booked, [Next]_vars
    PROVE  /\ Booked'
           /\ \A l \in Lives : recorded'[l] > recorded[l] => held' = 0 \/ ~Accounted(l)'
<1> USE DEF recordVars
<1>0. \A l \in Lives : recorded[l] \in Nat
  BY DEF IInv, TypeOK
<1>1. CASE BackupFires
  <2>1. Sell(held) /\ held \in 1 .. held /\ UNCHANGED <<life, tracker, recorded, gaps>>
    BY <1>1 DEF BackupFires, IInv, TypeOK
  <2> QED
    BY <1>0, <2>1, BookedSell
<1>2. CASE RestingFills
  <2>1. UNCHANGED <<life, tracker, recorded, gaps>> /\ \E sold \in 1 .. held : Sell(sold)
    BY <1>2 DEF RestingFills
  <2> QED
    BY <1>0, <2>1, BookedSell
<1>3. CASE OrderArrives
  <2>1. UNCHANGED <<life, tracker, recorded, gaps>>
    BY <1>3 DEF OrderArrives
  <2>2. CASE held > 0 /\ Sell(Reduced(worker.qty))
    <3>1. worker \in BusyWorker
      BY <1>3 DEF OrderArrives, IInv, TypeOK, IdleWorker
    <3>2. Reduced(worker.qty) \in 1 .. held
      BY <2>2, <3>1 DEF Reduced, BusyWorker, Quantities, IInv, TypeOK
    <3> QED
      BY <1>0, <2>1, <2>2, <3>2, BookedSell
  <2>3. CASE UNCHANGED <<held, stream>>
    BY <1>0, <2>1, <2>3, BookedOthers
  <2> QED
    BY <1>3, <2>2, <2>3 DEF OrderArrives
<1>4. CASE Enter
  <2>1. UNCHANGED recorded
    BY <1>4 DEF Enter
  <2> QED
    BY <1>0, <1>4, <2>1, BookedEnter
<1>5. CASE AutoClose
  <2>1. CASE held > 0 /\ tracker.side = "LONG" /\ tracker.entered > 0 /\ LimitFilled
    BY <1>5, <2>1, BookedLimitFilled
  <2>2. CASE held > 0 /\ tracker.side = "LONG" /\ tracker.entered > 0 /\ MarketFollows
    <3>1. UNCHANGED <<life, tracker, recorded, gaps>>
      BY <1>5, <2>2 DEF AutoClose, MarketFollows
    <3>2. tracker.entered \in Nat /\ held \in Nat
      BY <1>5 DEF AutoClose, Tracker, IInv, TypeOK
    <3>3. /\ Reduced(tracker.entered) .. Reduced(2 * tracker.entered) \subseteq 1 .. held
          /\ 1 .. Reduced(2 * tracker.entered) \subseteq 1 .. held
      BY <2>2, <3>2 DEF Reduced
    <3>4. (\E sold \in 1 .. held : Sell(sold)) \/ UNCHANGED <<held, stream>>
      BY <2>2, <3>3 DEF MarketFollows
    <3> QED
      BY <1>0, <3>1, <3>4, BookedSell, BookedOthers
  <2>3. CASE UNCHANGED <<exchangeVars, tracker, active, recorded, gaps>>
    <3>1. UNCHANGED <<held, stream, tracker, life, recorded, gaps>>
      BY <1>5, <2>3 DEF AutoClose, exchangeVars
    <3> QED
      BY <1>0, <3>1, BookedOthers
  <2> QED
    BY <1>5, <2>1, <2>2, <2>3 DEF AutoClose
<1>6. CASE RecordFill
  BY <1>6, BookedRecord
<1>7. CASE ExitTriggered \/ GraceExitTriggered \/ PartialTriggered
  <2>1. UNCHANGED <<held, stream, tracker, life, recorded, gaps>>
    BY <1>7 DEF ExitTriggered, GraceExitTriggered, PartialTriggered, exchangeVars
  <2> QED
    BY <1>0, <2>1, BookedOthers
<1>8. CASE WorkerTakes \/ Acknowledged \/ CallFailed
  <2>1. UNCHANGED <<held, stream, tracker, life, recorded, gaps>>
    BY <1>8 DEF WorkerTakes, Acknowledged, CallFailed, exchangeVars
  <2> QED
    BY <1>0, <2>1, BookedOthers
<1>9. CASE Discard \/ MutexAges \/ SyncRead \/ SyncApply \/ AccountUpdate \/ Sweep \/ AuditRead \/ Reconcile
  <2>1. UNCHANGED <<held, stream, tracker, life, recorded, gaps>>
    BY <1>9 DEF Discard, MutexAges, SyncRead, SyncApply, AccountUpdate, Sweep, AuditRead, Reconcile,
                exchangeVars
  <2> QED
    BY <1>0, <2>1, BookedOthers
<1>10. CASE UNCHANGED vars
  <2>1. UNCHANGED <<held, stream, tracker, life, recorded, gaps>>
    BY <1>10 DEF vars
  <2> QED
    BY <1>0, <2>1, BookedOthers
<1> QED
  BY <1>1, <1>2, <1>3, <1>4, <1>5, <1>6, <1>7, <1>8, <1>9, <1>10 DEF Next

LEMMA AlwaysBooked == Spec => []Booked
<1>1. Init => Booked
  BY BookedInit
<1>2. IInv /\ Booked /\ [Next]_vars => Booked'
  BY BookedStep
<1> QED
  BY <1>1, <1>2, Inductive, PTL DEF Spec

\* Until a position is recorded the service's books hold what the exchange holds once
\* every fill has been handled, and nothing is held of a recorded one, whatever order
\* of closes, retries, backup stops, limit orders and late fills led there.
THEOREM BooksInAgreement == Spec => []BooksAgree
<1>1. IInv /\ Booked => BooksAgree
  <2> SUFFICES ASSUME IInv, Booked, stream = <<>>, life > 0, Accounted(life)
               PROVE  held = IF tracker = NoTracker \/ recorded[life] > 0 THEN 0 ELSE Quantity(tracker)
    BY DEF BooksAgree
  <2>1. CASE recorded[life] > 0
    BY <2>1 DEF Booked
  <2>2. CASE ~(recorded[life] > 0)
    <3>1. Tracked /\ tracker # NoTracker /\ Len(stream) = 0
      BY <2>2 DEF Booked, Tracked
    <3>2. PICK net \in [0 .. 0 -> Nat] : net[0] = held /\ net[0] = tracker.entered - tracker.exited
      BY <3>1 DEF Tracked, Course
    <3>3. tracker.entered \in Nat /\ tracker.exited \in Nat /\ tracker.exited <= tracker.entered
      BY <3>1 DEF Tracked, IInv, TypeOK, Tracker
    <3> QED
      BY <2>2, <3>1, <3>2, <3>3 DEF Quantity
  <2> QED
    BY <2>1, <2>2
<1> QED
  BY <1>1, Inductive, AlwaysBooked, PTL

\* A trade is recorded, by a fill or by the reply of an order, only when the exchange
\* has closed all of the position, however it was closed in parts.
THEOREM RecordedOnlyWhenFlat == Spec => RecordedWhenFlat
<1>1. IInv /\ Booked /\ [Next]_vars
        => [\A l \in Lives : recorded'[l] > recorded[l] => held' = 0 \/ ~Accounted(l)']_vars
  BY BookedStep
<1> QED
  BY <1>1, Inductive, AlwaysBooked, PTL DEF Spec, RecordedWhenFlat
=============================================================================
