------------------------- MODULE PositionMonitor_proofs -------------------------
(***************************************************************************)
(* Proofs about PositionMonitor, for all levels and prices.                *)
(***************************************************************************)
EXTENDS PositionMonitor, TLAPS

LEMMA StopsKnown ==
    /\ LocalStop \in Stops /\ HardCap \in Stops /\ Breakeven \in Stops /\ SignalStops \subseteq Stops
    /\ Stops \subseteq Int /\ LocalStop \in Int /\ Breakeven \in Int /\ Trail \in Int
    /\ LocalStop < Breakeven /\ \A s \in SignalStops : LocalStop <= s /\ s < Breakeven
    /\ Stops \union {0} \subseteq Int
<1>1. {LocalStop, HardCap, BackupStop, Breakeven, Trail, Entry} \subseteq Int /\ Prices \subseteq Int
  BY LevelsAssumption
<1>2. \A s \in SignalStops : s \in Int /\ LocalStop <= s /\ s < Breakeven
  BY <1>1, LevelsAssumption
<1>3. \A p \in Prices : p - Trail \in Int
  BY <1>1
<1>4. Stops \subseteq Int
  BY <1>1, <1>2, <1>3 DEF Stops
<1>5. /\ LocalStop \in Stops /\ HardCap \in Stops /\ Breakeven \in Stops /\ SignalStops \subseteq Stops
  BY DEF Stops
<1>6. LocalStop < Breakeven
  BY <1>1, LevelsAssumption
<1> QED
  BY <1>1, <1>2, <1>4, <1>5, <1>6

\* No stop is zero, which stands for a missing one, and a trailing stop above another
\* stop is a stop.
LEMMA StopsPositive ==
    /\ \A s \in Stops : s > 0
    /\ BackupStop \in Stops
    /\ \A p \in Prices, s \in Stops \union {0} : p - Trail > s => p - Trail \in Stops
<1>1. \A s \in Stops : s > 0
  <2>1. LocalStop > 0 /\ HardCap > 0 /\ BackupStop > 0 /\ Breakeven > 0
    BY LevelsAssumption
  <2>2. \A s \in SignalStops : s > 0
    <3>1. \A s \in SignalStops : LocalStop <= s /\ s \in Int
      BY StopsKnown
    <3> QED
      BY <2>1, <3>1, StopsKnown
  <2> QED
    BY <2>1, <2>2 DEF Stops
<1>2. ASSUME NEW p \in Prices, NEW s \in Stops \union {0}, p - Trail > s
      PROVE  p - Trail \in Stops
  <2>1. p \in Int /\ Trail \in Int /\ s \in Int /\ s >= 0
    BY <1>1, StopsKnown, LevelsAssumption
  <2>2. p - Trail > 0
    BY <1>2, <2>1
  <2> QED
    BY <2>2 DEF Stops
<1> QED
  BY <1>1, <1>2 DEF Stops

LEMMA SetRowTypes ==
    ASSUME NEW r \in Row \union {Nothing}
    PROVE  /\ SetRow(r, "hits", 1) \in Row \union {Nothing}
           /\ \A p \in Phases : SetRow(r, "phase", p) \in Row \union {Nothing}
           /\ \A s \in Stops \union {0} : SetRow(r, "stop", s) \in Row \union {Nothing}
  BY DEF SetRow, Row

\* What an update of the row changes, field by field.
LEMMA SetRowFields ==
    ASSUME NEW r \in Row, NEW p \in Phases, NEW s \in Stops \union {0}
    PROVE  /\ r # Nothing
           /\ LET q == SetRow(r, "hits", 1)
              IN q \in Row /\ q # Nothing /\ q.hits = 1 /\ q.phase = r.phase /\ q.stop = r.stop
           /\ LET q == SetRow(r, "phase", p)
              IN q \in Row /\ q # Nothing /\ q.hits = r.hits /\ q.phase = p /\ q.stop = r.stop
           /\ LET q == SetRow(r, "stop", s)
              IN q \in Row /\ q # Nothing /\ q.hits = r.hits /\ q.phase = r.phase /\ q.stop = s
  BY NothingAssumption DEF SetRow, Row

LEMMA KnownTypes ==
    ASSUME NEW w \in Watermark \union {Nothing}
    PROVE  /\ Known(w) \in Watermark
           /\ w = Nothing => Known(w).target = 0
           /\ w # Nothing => Known(w) = w
  BY DEF Known, Minimal, Watermark, Phases

\* What the persisting callbacks make of a watermark.
LEMMA WatermarkFields ==
    ASSUME NEW w \in Watermark \union {Nothing}, NEW p \in Phases, NEW s \in Stops
    PROVE  /\ Minimal \in Watermark /\ Minimal.target = 0 /\ ~Minimal.ours
           /\ LET v == WithHit(w)
              IN /\ v \in Watermark /\ v.hits = 1 /\ v.target = 0
                 /\ w # Nothing =>
                      v.stop = w.stop /\ v.phase = w.phase /\ v.be = w.be /\ v.ours = w.ours
                 /\ w = Nothing => ~v.ours
           /\ LET v == WithPhase(w, p)
              IN /\ v \in Watermark /\ v.phase = p /\ v.be
                 /\ w # Nothing =>
                      v.stop = w.stop /\ v.hits = w.hits /\ v.target = w.target /\ v.ours = w.ours
                 /\ w = Nothing => v.target = 0 /\ ~v.ours
           /\ LET v == WithStop(w, s)
              IN /\ v \in Watermark /\ v.stop = s
                 /\ w # Nothing =>
                      v.phase = w.phase /\ v.hits = w.hits /\ v.target = w.target /\ v.be = w.be
                      /\ v.ours = w.ours
                 /\ w = Nothing => v.target = 0 /\ v.hits = 1 /\ ~v.ours
<1>1. Minimal \in Watermark /\ Minimal.target = 0 /\ ~Minimal.ours
  BY DEF Minimal, Watermark, Phases
<1>2. Known(w) \in Watermark /\ (w # Nothing => Known(w) = w) /\ (w = Nothing => Known(w) = Minimal)
  BY <1>1 DEF Known
<1> QED
  BY <1>1, <1>2 DEF WithHit, WithPhase, WithStop, Watermark, Minimal, Phases

LEMMA StopFields ==
    ASSUME NEW w \in Watermark \union {Nothing}, NEW s \in Stops
    PROVE  LET v == WithStop(w, s)
           IN /\ v \in Watermark /\ v # Nothing /\ v.stop = s
              /\ w # Nothing =>
                   v.phase = w.phase /\ v.hits = w.hits /\ v.target = w.target /\ v.be = w.be
                   /\ v.ours = w.ours
              /\ w = Nothing => v.target = 0 /\ v.hits = 1 /\ ~v.ours
<1>1. "entry" \in Phases
  BY DEF Phases
<1> QED
  BY <1>1, WatermarkFields, NothingAssumption

\* A take profit and a move of the stop, each with its change of phase.
LEMMA HitThenPhase ==
    ASSUME NEW w \in Watermark \union {Nothing}, NEW p \in Phases
    PROVE  LET v == WithPhase(WithHit(w), p)
           IN /\ v \in Watermark /\ v # Nothing
              /\ v.hits = 1 /\ v.target = 0 /\ v.phase = p /\ v.be
              /\ w # Nothing => v.stop = w.stop /\ v.ours = w.ours
              /\ w = Nothing => ~v.ours
<1> DEFINE h == WithHit(w)
<1> DEFINE v == WithPhase(h, p)
<1>0. LocalStop \in Stops
  BY StopsKnown
<1>1. /\ h \in Watermark /\ h.hits = 1 /\ h.target = 0
      /\ w # Nothing => h.stop = w.stop /\ h.ours = w.ours
      /\ w = Nothing => ~h.ours
  BY <1>0, WatermarkFields
<1> HIDE DEF h
<1>2. h # Nothing
  BY <1>1, NothingAssumption
<1>3. v \in Watermark /\ v.phase = p /\ v.be
      /\ v.stop = h.stop /\ v.hits = h.hits /\ v.target = h.target /\ v.ours = h.ours
  BY <1>1, <1>2 DEF WithPhase, Known, Watermark
<1> HIDE DEF v
<1>4. v # Nothing
  BY <1>3, NothingAssumption
<1>5. /\ v \in Watermark /\ v # Nothing
      /\ v.hits = 1 /\ v.target = 0 /\ v.phase = p /\ v.be
      /\ w # Nothing => v.stop = w.stop /\ v.ours = w.ours
      /\ w = Nothing => ~v.ours
  BY <1>1, <1>3, <1>4
<1> QED
  BY <1>5 DEF v, h

LEMMA StopThenPhase ==
    ASSUME NEW w \in Watermark \union {Nothing}, NEW s \in Stops, NEW p \in Phases
    PROVE  LET v == WithPhase(WithStop(w, s), p)
           IN /\ v \in Watermark /\ v # Nothing
              /\ v.stop = s /\ v.phase = p /\ v.be
              /\ w # Nothing => v.hits = w.hits /\ v.target = w.target /\ v.ours = w.ours
              /\ w = Nothing => v.target = 0 /\ v.hits = 1 /\ ~v.ours
<1> DEFINE h == WithStop(w, s)
<1> DEFINE v == WithPhase(h, p)
<1>1. /\ h \in Watermark /\ h.stop = s
      /\ w # Nothing => h.hits = w.hits /\ h.target = w.target /\ h.ours = w.ours
      /\ w = Nothing => h.target = 0 /\ h.hits = 1 /\ ~h.ours
  BY WatermarkFields
<1> HIDE DEF h
<1>2. h # Nothing
  BY <1>1, NothingAssumption
<1>3. v \in Watermark /\ v.phase = p /\ v.be
      /\ v.stop = h.stop /\ v.hits = h.hits /\ v.target = h.target /\ v.ours = h.ours
  BY <1>1, <1>2, WatermarkFields
<1> HIDE DEF v
<1>4. v # Nothing
  BY <1>3, NothingAssumption
<1>5. /\ v \in Watermark /\ v # Nothing
      /\ v.stop = s /\ v.phase = p /\ v.be
      /\ w # Nothing => v.hits = w.hits /\ v.target = w.target /\ v.ours = w.ours
      /\ w = Nothing => v.target = 0 /\ v.hits = 1 /\ ~v.ours
  BY <1>1, <1>3, <1>4
<1> QED
  BY <1>5 DEF v, h

--------------------------------------------------------------------------------
\* Types.

\* What is monitored has a stop or a take profit.
Guarded(m) == m # Nothing => m.stop > 0 \/ m.target > 0

\* What is monitored is a record, and its row and watermark are records or absent.
LEMMA Records ==
    ASSUME TypeOK
    PROVE  /\ mon # Nothing => mon \in Monitored
           /\ Guarded(mon)
           /\ wm # Nothing => wm \in Watermark
           /\ row # Nothing => row \in Row
           /\ wm # Nothing /\ ~Orphaned => wm.stop > 0 \/ wm.target > 0
<1>1. wm # Nothing => wm \in Watermark
  BY DEF TypeOK
<1>2. Targets \union {0} \subseteq Nat
  BY LevelsAssumption DEF Targets
<1>3. wm # Nothing => wm.stop \in Stops \union {0} /\ wm.target \in Nat
  <2>1. wm # Nothing => wm.stop \in Stops \union {0} /\ wm.target \in Targets \union {0}
    BY <1>1 DEF Watermark
  <2> QED
    BY <1>2, <2>1
<1>4. wm # Nothing /\ ~Orphaned => wm.stop > 0 \/ wm.target > 0
  BY <1>3, StopsPositive DEF Orphaned
<1> QED
  BY <1>1, <1>4 DEF TypeOK, Guarded

LEMMA DerivedTypes == ASSUME NEW w \in Watermark PROVE Derived(w) \in Phases
  BY DEF Derived, Watermark, Phases

\* Where a position is taken up from, and what is made of it.
Taken(w, m) ==
    /\ m.phase = Derived(w) /\ m.initial = w.stop /\ m.stop = w.stop
    /\ m.hits = w.hits /\ m.target = w.target

LEMMA AdoptOutcome ==
    ASSUME TypeOK, Adopt
    PROVE  /\ wm' \in Watermark /\ mon' \in Monitored
           /\ Taken(wm', mon') /\ Guarded(mon')
           /\ wm' = wm \/ (wm'.target = 0 /\ wm'.hits = 0 /\ ~wm'.ours)
<1>1. Orphan \in Watermark /\ Orphan.stop > 0
  BY StopsKnown, StopsPositive DEF Orphan, Watermark, Phases
<1>2. wm' \in Watermark /\ (wm'.stop > 0 \/ wm'.target > 0)
  BY <1>1, Records DEF Adopt, Orphaned
<1>3. mon' \in Monitored
  BY <1>2, DerivedTypes DEF Adopt, Monitored, Watermark
<1>4. Taken(wm', mon')
  BY DEF Adopt, Taken
<1>5. wm' = wm \/ (wm'.target = 0 /\ wm'.hits = 0 /\ ~wm'.ours)
  BY DEF Adopt, Orphan
<1> QED
  BY <1>2, <1>3, <1>4, <1>5 DEF Taken, Guarded

LEMMA LoadedTypes ==
    ASSUME NEW r \in Row \union {Nothing}, NEW own \in BOOLEAN
    PROVE  /\ Loaded(r, own) \in Watermark
           /\ r = Nothing => Loaded(r, own).target = 0 /\ ~Loaded(r, own).ours
           /\ r # Nothing => Loaded(r, own).hits = r.hits
  BY NothingAssumption DEF Loaded, Row, Watermark, Minimal, Phases, Targets

\* The row a shutdown leaves has the stop of the watermark, if there is one.
LEMMA ShutDownOutcome ==
    ASSUME TypeOK, ShutDown
    PROVE  /\ row' \in Row \union {Nothing}
           /\ row = Nothing => row' = Nothing
           /\ row # Nothing =>
                row' # Nothing /\ row'.hits = row.hits /\ row'.phase = row.phase
                /\ row'.stop = IF wm = Nothing THEN row.stop ELSE wm.stop
<1>1. CASE wm = Nothing \/ row = Nothing
  BY <1>1 DEF ShutDown, SetRow, TypeOK
<1>2. CASE wm # Nothing /\ row # Nothing
  <2>1. wm.stop \in Stops \union {0} /\ row \in Row /\ "entry" \in Phases
    BY <1>2, Records DEF Watermark, Phases
  <2> QED
    BY <1>2, <2>1, SetRowFields DEF ShutDown
<1> QED
  BY <1>1, <1>2

\* The row a crash leaves is the old one, or has less than a whole tick in it.
LEMMA RestartOutcome ==
    ASSUME TypeOK, Restart
    PROVE  /\ row' \in Row \union {Nothing}
           /\ row = Nothing => row' = Nothing
  BY StopsKnown, SetRowTypes, SetRowFields, Records
     DEF Restart, TornRows, TypeOK, Phases

LEMMA InitTypes == Init => TypeOK
<1> SUFFICES ASSUME Init PROVE TypeOK
  OBVIOUS
<1>1. mon \in Monitored \union {Nothing} /\ wm \in Watermark \union {Nothing} /\ row \in Row \union {Nothing}
  BY DEF Init
<1>2. calls \subseteq Callers /\ asked \in Nat
  BY DEF Init
<1> QED
  BY <1>1, <1>2 DEF Init, TypeOK

\* Steps that leave the copies alone, but may let the position go.
LEMMA UntouchedTypes ==
    ASSUME TypeOK,
           open' \in BOOLEAN, mon' \in {mon, Nothing},
           tracker' \in BOOLEAN, bracket' \in BOOLEAN, answer' \in {"none", "held", "gone"},
           queuedTp' \in BOOLEAN, wm' \in {wm, Nothing}, row' \in {row, Nothing},
           request' \in {"none", "full", "partial"},
           thread' \in BOOLEAN, sweep' \in BOOLEAN, closing' \in BOOLEAN,
           calls' \subseteq Callers, kept' \in BOOLEAN, asked' \in Nat
    PROVE  TypeOK'
  BY DEF TypeOK

\* Ticks and other steps that write the copies of a monitored position.
LEMMA WrittenTypes ==
    ASSUME TypeOK, UNCHANGED <<open, thread, sweep, closing, calls, kept, trackVars>>,
           mon' \in Monitored \union {Nothing}, queuedTp' \in BOOLEAN,
           wm' \in Watermark \union {Nothing},
           Guarded(mon'),
           row' \in Row \union {Nothing},
           request' \in {"none", "full", "partial"}, asked' \in Nat
    PROVE  TypeOK'
  BY DEF TypeOK, trackVars, Guarded

LEMMA AskedTypes == asked \in Nat /\ Asked => asked' \in Nat
  BY DEF Asked

LEMMA QueueTypes ==
    ASSUME request \in {"none", "full", "partial"}, NEW kind \in {"full", "partial"}, Queue(kind)
    PROVE  request' \in {"none", "full", "partial"}
  BY DEF Queue

\* The synchronous take profit deletes the watermark of an open position; only a
\* monitor left behind by a closed one writes to it.
LEMMA SyncTargetForgets ==
    ASSUME TypeOK, NEW p \in Prices, SyncTarget(p)
    PROVE  /\ wm' \in Watermark \union {Nothing}
           /\ open => wm' = Nothing
<1>1. CASE wm' = Nothing
  BY <1>1
<1>2. CASE wm' # Nothing
  <2>1. ~open /\ wm' = WithPhase(WithStop(WithHit(wm), Breakeven), "closed")
    BY <1>2 DEF SyncTarget, Begin, OrdersCleaned
  <2>2. WithHit(wm) \in Watermark /\ Breakeven \in Stops /\ "closed" \in Phases
    BY WatermarkFields, StopsKnown DEF TypeOK, Phases
  <2> QED
    BY <2>1, <2>2, StopThenPhase
<1> QED
  BY <1>1, <1>2

LEMMA AdoptOrphanTypes ==
    ASSUME TypeOK, NEW found \in {0, BackupStop}, AdoptOrphan(found)
    PROVE  /\ wm' \in Watermark /\ wm' # Nothing /\ wm'.hits = 0 /\ ~wm'.ours
           /\ wm'.target = Known(wm).target
           /\ \/ mon' = mon
              \/ mon' \in Monitored /\ mon' # Nothing /\ mon'.hits = 0 /\ Guarded(mon')
<1> DEFINE old == Known(wm)
<1> DEFINE stop == IF old.stop > 0 THEN old.stop ELSE found
<1>1. old \in Watermark
  BY KnownTypes DEF TypeOK
<1>2. old.stop \in Stops \union {0} /\ old.target \in Targets \union {0}
  BY <1>1 DEF Watermark
<1>3. stop \in Stops \union {0}
  BY <1>2, StopsPositive
<1>4. wm' = [Minimal EXCEPT !.stop = stop, !.target = old.target]
  BY DEF AdoptOrphan
<1> HIDE DEF old, stop
<1>5. /\ wm' \in Watermark /\ wm'.hits = 0 /\ ~wm'.ours
      /\ wm'.stop = stop /\ wm'.target = old.target
  BY <1>2, <1>3, <1>4 DEF Minimal, Watermark, Phases
<1>6. mon' = mon \/ (mon' \in Monitored /\ mon'.hits = 0 /\ mon'.stop > 0)
  <2>1. DefaultTarget \in Targets \union {0} /\ LocalStop \in Stops /\ LocalStop > 0
    BY StopsKnown, StopsPositive DEF Targets
  <2>2. ASSUME NEW target \in Targets \union {0}
        PROVE  [phase |-> "entry", initial |-> LocalStop, stop |-> LocalStop, hits |-> 0,
                target |-> target, grace |-> TRUE] \in Monitored
    BY <2>1 DEF Monitored, Phases
  <2>3. CASE tracker
    BY <2>3 DEF AdoptOrphan
  <2>4. CASE ~tracker
    <3> DEFINE target == IF old.target > 0 THEN old.target ELSE DefaultTarget
    <3>1. target \in Targets \union {0}
      BY <1>2, <2>1
    <3>2. mon' = [phase |-> "entry", initial |-> LocalStop, stop |-> LocalStop, hits |-> 0,
                  target |-> target, grace |-> TRUE]
      BY <2>4 DEF AdoptOrphan, old
    <3> HIDE DEF target
    <3> QED
      BY <2>1, <2>2, <3>1, <3>2
  <2> QED
    BY <2>3, <2>4
<1> QED
  BY <1>5, <1>6, NothingAssumption DEF old, Guarded

LEMMA NextTypes ==
    ASSUME TypeOK, [Next]_vars
    PROVE  TypeOK'
<1> USE DEF closeVars, trackVars
<1>0. TypeOK
  BY DEF TypeOK
<1>1. ASSUME NEW s \in SignalStops, NEW backup \in BOOLEAN, NEW saves \in BOOLEAN,
             Enter(s, backup, saves)
      PROVE  TypeOK'
  <2>1. s \in Stops /\ LocalStop \in Stops
    BY StopsKnown
  <2>2. mon' \in Monitored /\ Guarded(mon')
    <3>1. Target > 0 /\ Target \in Targets \union {0}
      BY LevelsAssumption DEF Targets
    <3> QED
      BY <1>1, <2>1, <3>1, Records DEF Enter, Monitored, Phases, Guarded
  <2>3. row' \in Row \union {Nothing}
    BY <1>1, <2>1, <1>0 DEF Enter, Row, Phases, TypeOK
  <2>4. wm' \in Watermark \union {Nothing}
    BY <1>1, <2>1, <1>0 DEF Enter, Watermark, Phases, TypeOK, Targets
  <2> QED
    BY <1>1, <1>0, <2>2, <2>3, <2>4 DEF Enter, TypeOK, Guarded
<1>2. CASE Adopt
  BY <1>2, <1>0, AdoptOutcome DEF Adopt, TypeOK, Watermark, Guarded
<1>3. CASE GracePasses
  <2>1. mon' \in Monitored /\ Guarded(mon')
    BY <1>3, Records DEF GracePasses, Monitored, Guarded
  <2> QED
    BY <1>3, <1>0, <2>1, WrittenTypes DEF GracePasses, TypeOK
<1>4. ASSUME NEW p \in Prices, GraceTick(p) PROVE TypeOK'
  <2>1. request' \in {"none", "full", "partial"} /\ queuedTp' \in BOOLEAN
    BY <1>4, <1>0, QueueTypes DEF GraceTick, TypeOK
  <2> QED
    BY <1>4, <1>0, <2>1, Records, WrittenTypes DEF GraceTick, TypeOK
<1>5. CASE AsyncQueuedTarget
  <2>1. mon' \in Monitored /\ Guarded(mon') /\ "trailing" \in Phases
    BY <1>5, Records DEF AsyncQueuedTarget, Watched, Monitored, Phases, Guarded
  <2>2. wm' \in Watermark
    BY <1>5, <1>0, <2>1, HitThenPhase DEF AsyncQueuedTarget, TypeOK
  <2>3. row' \in Row \union {Nothing}
    BY <1>5, <1>0, <2>1, SetRowTypes DEF AsyncQueuedTarget, TypeOK
  <2>4. request' \in {"none", "full", "partial"} /\ asked' \in Nat /\ queuedTp' \in BOOLEAN
    BY <1>5, <1>0, AskedTypes, QueueTypes DEF AsyncQueuedTarget, TypeOK
  <2>5. UNCHANGED <<open, thread, sweep, closing, calls, kept, trackVars>>
    BY <1>5 DEF AsyncQueuedTarget
  <2> QED
    BY <2>1, <2>2, <2>3, <2>4, <2>5, WrittenTypes
<1>6. ASSUME NEW p \in Prices, NEW low \in Prices, AsyncStop(p, low) PROVE TypeOK'
  BY <1>6, <1>0, UntouchedTypes, QueueTypes DEF AsyncStop, TypeOK
<1>7. ASSUME NEW p \in Prices, AsyncTarget(p) PROVE TypeOK'
  <2>1. "closed" \in Phases
    BY DEF Phases
  <2>2. wm' \in Watermark
    BY <1>7, <1>0, <2>1, HitThenPhase DEF AsyncTarget, TypeOK
  <2>3. row' \in Row \union {Nothing}
    BY <1>7, <1>0, <2>1, SetRowTypes DEF AsyncTarget, TypeOK
  <2> QED
    BY <1>7, <1>0, <2>2, <2>3, WrittenTypes, AskedTypes, QueueTypes DEF AsyncTarget, Watched, TypeOK, Guarded
<1>8. ASSUME NEW p \in Prices, SyncStop(p) PROVE TypeOK'
  BY <1>8, <1>0, UntouchedTypes DEF SyncStop, TypeOK
<1>9. ASSUME NEW p \in Prices, SyncTarget(p) PROVE TypeOK'
  <2>1. row' \in Row \union {Nothing}
    BY <1>9, <1>0, SetRowTypes, StopsKnown DEF SyncTarget, TypeOK, Phases
  <2>2. asked' \in Nat /\ calls' \subseteq Callers /\ closing' \in BOOLEAN
    BY <1>9, <1>0, AskedTypes DEF SyncTarget, Begin, TypeOK, Callers
  <2>3. wm' \in Watermark \union {Nothing}
    BY <1>9, SyncTargetForgets
  <2>4. UNCHANGED <<open, request, thread, tracker, answer, kept>>
        /\ bracket' \in {bracket, FALSE} /\ sweep' = TRUE /\ mon' = Nothing /\ queuedTp' = FALSE
    BY <1>9 DEF SyncTarget, Begin, OrdersCleaned
  <2> QED
    BY <1>0, <2>1, <2>2, <2>3, <2>4 DEF TypeOK
<1>10. ASSUME NEW p \in Prices, TriggerBreakeven(p) PROVE TypeOK'
  <2>1. mon' \in Monitored /\ Guarded(mon') /\ "breakeven" \in Phases
    <3>1. Breakeven \in Stops /\ Breakeven > 0
      BY StopsKnown, StopsPositive
    <3> QED
      BY <1>10, <3>1, Records DEF TriggerBreakeven, NoExit, Watched, Monitored, Phases, Guarded
  <2>2. wm' \in Watermark
    BY <1>10, <1>0, <2>1, StopThenPhase, StopsKnown DEF TriggerBreakeven, TypeOK
  <2>3. row' \in Row \union {Nothing}
    BY <1>10, <1>0, <2>1, SetRowTypes, StopsKnown DEF TriggerBreakeven, TypeOK
  <2> QED
    BY <1>10, <1>0, <2>1, <2>2, <2>3, WrittenTypes DEF TriggerBreakeven, TypeOK
<1>11. ASSUME NEW p \in Prices, NEW top \in Prices, UpdateTrailing(p, top) PROVE TypeOK'
  <2>1. mon' \in Monitored /\ Guarded(mon') /\ top - Trail \in Stops
    <3>1. mon \in Monitored /\ mon.stop \in Stops \union {0}
      BY <1>11, Records DEF UpdateTrailing, NoExit, Watched, Monitored
    <3>2. top - Trail \in Stops /\ top - Trail > 0
      BY <1>11, <3>1, StopsPositive DEF UpdateTrailing
    <3>3. mon' = [mon EXCEPT !.stop = top - Trail]
      BY <1>11 DEF UpdateTrailing
    <3> QED
      BY <3>1, <3>2, <3>3 DEF Monitored, Guarded
  <2>2. wm' \in Watermark
    <3>1. "entry" \in Phases /\ wm \in Watermark \union {Nothing}
      BY <1>0 DEF Phases, TypeOK
    <3> QED
      BY <1>11, <2>1, <3>1, WatermarkFields DEF UpdateTrailing
  <2>3. row' \in Row \union {Nothing}
    BY <1>11, <1>0, <2>1, SetRowTypes DEF UpdateTrailing, TypeOK
  <2> QED
    BY <1>11, <1>0, <2>1, <2>2, <2>3, WrittenTypes DEF UpdateTrailing, TypeOK
<1>12. ASSUME NEW p \in Prices, EngineTick(p) PROVE TypeOK'
  <2>1. wm' \in Watermark
    <3>1. CASE wm = Nothing
      <4>1. wm' = Minimal
        BY <1>12, <3>1 DEF EngineTick
      <4>2. Minimal \in Watermark
        BY DEF Minimal, Watermark, Phases
      <4> QED
        BY <4>1, <4>2
    <3>2. CASE wm # Nothing
      BY <1>12, <3>2, Records, StopsKnown DEF EngineTick, TypeOK, Watermark
    <3> QED
      BY <3>1, <3>2
  <2> QED
    BY <1>12, <1>0, <2>1, Records, WrittenTypes DEF EngineTick, TypeOK
<1>13. CASE WorkerTakes \/ ThreadCloses \/ PortfolioExit \/ AutoClose
  <2>1. CASE WorkerTakes
    BY <1>0, <2>1, UntouchedTypes DEF WorkerTakes, Begin, OrdersCleaned, Callers, TypeOK
  <2>2. CASE ThreadCloses
    BY <1>0, <2>2, UntouchedTypes DEF ThreadCloses, Begin, OrdersCleaned, Callers, TypeOK
  <2>3. CASE PortfolioExit
    BY <1>0, <2>3, UntouchedTypes DEF PortfolioExit, Begin, OrdersCleaned, Callers, TypeOK
  <2>4. CASE AutoClose
    BY <1>0, <2>4, UntouchedTypes DEF AutoClose, Begin, OrdersCleaned, Callers, TypeOK
  <2> QED
    BY <1>13, <2>1, <2>2, <2>3, <2>4
<1>14. ASSUME NEW c \in Callers, CloseFails(c) \/ CloseCompletes(c) PROVE TypeOK'
  <2>1. CASE CloseFails(c)
    BY <1>0, <2>1, UntouchedTypes DEF CloseFails, TypeOK
  <2>2. CASE CloseCompletes(c) /\ open
    BY <1>0, <2>2, UntouchedTypes DEF CloseCompletes, TypeOK
  <2>3. CASE CloseCompletes(c) /\ ~open
    BY <1>0, <2>3, UntouchedTypes DEF CloseCompletes, TypeOK
  <2> QED
    BY <1>14, <2>1, <2>2, <2>3
<1>15. CASE PositionGone \/ Sweep
  <2>1. CASE PositionGone
    BY <1>0, <2>1, UntouchedTypes DEF PositionGone, OrdersCleaned, TypeOK
  <2>2. CASE Sweep
    BY <1>0, <2>2, UntouchedTypes DEF Sweep, TypeOK
  <2> QED
    BY <1>15, <2>1, <2>2
<1>16. CASE Reload
  BY <1>16, <1>0, LoadedTypes DEF Reload, TypeOK
<1>17. CASE Restart
  <2>1. wm' \in Watermark \union {Nothing}
    BY <1>17, <1>0, RestartOutcome, LoadedTypes DEF Restart, StartAgain, TypeOK
  <2>2. asked' \in Nat /\ open' \in BOOLEAN /\ kept' \in BOOLEAN
    <3>1. asked' = asked \/ Asked
      BY <1>17 DEF Restart
    <3>2. open' \in BOOLEAN /\ kept' = kept
      BY <1>17, <1>0 DEF Restart, StartAgain, TypeOK
    <3> QED
      BY <3>1, <3>2, <1>0, AskedTypes DEF TypeOK
  <2>3. calls' \subseteq Callers
    BY <1>17 DEF Restart, StartAgain
  <2> QED
    BY <1>17, <2>1, <2>2, <2>3, RestartOutcome DEF Restart, StartAgain, TypeOK
<1>18. CASE ReconcileAsks \/ CleanStale \/ NothingToReconcile
  <2>1. CASE ReconcileAsks
    BY <1>0, <2>1, UntouchedTypes DEF ReconcileAsks, TypeOK
  <2>2. CASE CleanStale
    BY <1>0, <2>2, UntouchedTypes DEF CleanStale, OrdersCleaned, TypeOK
  <2>3. CASE NothingToReconcile
    BY <1>0, <2>3, UntouchedTypes DEF NothingToReconcile, TypeOK
  <2> QED
    BY <1>18, <2>1, <2>2, <2>3
<1>19. ASSUME NEW found \in {0, BackupStop}, AdoptOrphan(found) PROVE TypeOK'
  <2>1. UNCHANGED <<open, queuedTp, row, closeVars>> /\ bracket' = TRUE /\ tracker' = TRUE
        /\ answer' = "none" /\ (kept' = kept \/ kept' = FALSE) /\ (asked' = 0 \/ asked' = asked)
    BY <1>19 DEF AdoptOrphan
  <2>2. wm' \in Watermark /\ mon' \in Monitored \union {Nothing} /\ Guarded(mon')
    BY <1>0, <1>19, AdoptOrphanTypes, Records DEF TypeOK
  <2> QED
    <3>1. TypeOK'
      <4>1. kept' \in BOOLEAN /\ asked' \in Nat
        <5>1. asked' \in Nat
          BY <1>0, <2>1, SMT DEF TypeOK
        <5>2. kept' \in BOOLEAN
          BY <1>0, <2>1, Zenon DEF TypeOK
        <5> QED
          BY <5>1, <5>2
      <4>2. /\ open' \in BOOLEAN /\ queuedTp' \in BOOLEAN /\ row' \in Row \union {Nothing}
            /\ request' \in {"none", "full", "partial"} /\ calls' \subseteq Callers
            /\ thread' \in BOOLEAN /\ sweep' \in BOOLEAN /\ closing' \in BOOLEAN
        BY <1>0, <2>1 DEF TypeOK
      <4>3. /\ mon' \in Monitored \union {Nothing} /\ wm' \in Watermark \union {Nothing}
            /\ tracker' \in BOOLEAN /\ bracket' \in BOOLEAN /\ answer' \in {"none", "held", "gone"}
        BY <2>1, <2>2
      <4> QED
        BY <2>2, <4>1, <4>2, <4>3 DEF TypeOK, Guarded
    <3> QED
      BY <3>1
<1>20. CASE UNCHANGED vars
  BY <1>20 DEF vars, TypeOK
<1>21. CASE ShutDown
  <2>1. row' \in Row \union {Nothing}
    BY <1>21, <1>0, ShutDownOutcome
  <2>2. asked' \in Nat /\ open' \in BOOLEAN
    BY <1>21, <1>0 DEF ShutDown, StartAgain, TypeOK
  <2>3. kept' \in BOOLEAN
    BY <1>21, <1>0, Zenon DEF ShutDown, TypeOK
  <2>4. wm' \in Watermark \union {Nothing}
    BY <1>21, <2>1, <2>3, LoadedTypes DEF ShutDown, StartAgain
  <2> QED
    BY <1>21, <2>1, <2>2, <2>3, <2>4 DEF ShutDown, StartAgain, TypeOK
<1>22. CASE DailyCleanup
  BY <1>22, <1>0, UntouchedTypes DEF DailyCleanup, TypeOK
<1> QED
  BY <1>1, <1>2, <1>3, <1>4, <1>5, <1>6, <1>7, <1>8, <1>9, <1>10, <1>11, <1>12, <1>13, <1>14,
     <1>15, <1>16, <1>17, <1>18, <1>19, <1>20, <1>21, <1>22 DEF Next

--------------------------------------------------------------------------------
\* The take profit is asked for once.

\* Once asked for, it is gone from the monitor, the watermark and the row alike; and
\* a take profit put off has not been asked for.
Spent ==
    /\ asked <= 1
    /\ queuedTp => mon # Nothing /\ mon.hits = 0
    /\ open /\ asked = 1 =>
         /\ ~queuedTp
         /\ mon # Nothing => mon.hits = 1 \/ mon.target = 0
         /\ wm # Nothing => wm.hits = 1 \/ wm.target = 0
         /\ row # Nothing => row.hits = 1

\* What a crash within a tick leaves in the row: the new stop of a move to breakeven,
\* or the first of the updates of a take profit.
LEMMA CrashedTick ==
    ASSUME TypeOK, Restart, row' # row
    PROVE  /\ row \in Row /\ row # Nothing /\ row' \in Row /\ row' # Nothing /\ mon # Nothing
           /\ \/ /\ mon.phase = "entry"
                 /\ row'.hits = row.hits /\ row'.phase = row.phase /\ row'.stop = Breakeven
              \/ /\ queuedTp \/ (mon.hits = 0 /\ mon.target > 0)
                 /\ row'.hits = 1 /\ row'.phase \in {row.phase, "trailing"}
                 /\ row'.stop = row.stop \/ (row'.phase = "trailing" /\ row'.stop = Breakeven)
<1>1. row \in Row /\ row # Nothing /\ mon # Nothing /\ row' \in TornRows
  BY Records DEF Restart, Watched
<1> DEFINE hit == SetRow(row, "hits", 1)
<1> DEFINE trailing == SetRow(hit, "phase", "trailing")
<1> DEFINE moved == SetRow(trailing, "stop", Breakeven)
<1> DEFINE even == SetRow(row, "stop", Breakeven)
<1>2. Breakeven \in Stops /\ "trailing" \in Phases
  BY StopsKnown DEF Phases
<1>3. hit \in Row /\ hit # Nothing /\ hit.hits = 1 /\ hit.phase = row.phase /\ hit.stop = row.stop
  BY <1>1, <1>2, SetRowFields
<1>4. even \in Row /\ even # Nothing
      /\ even.hits = row.hits /\ even.phase = row.phase /\ even.stop = Breakeven
  <2>1. Breakeven \in Stops \union {0}
    BY <1>2
  <2> QED
    BY <1>1, <1>2, <2>1, SetRowFields
<1> HIDE DEF hit
<1>5. trailing \in Row /\ trailing # Nothing
      /\ trailing.hits = 1 /\ trailing.phase = "trailing" /\ trailing.stop = row.stop
  BY <1>2, <1>3, SetRowFields
<1> HIDE DEF trailing
<1>6. moved \in Row /\ moved # Nothing
      /\ moved.hits = 1 /\ moved.phase = "trailing" /\ moved.stop = Breakeven
  BY <1>2, <1>5, SetRowFields
<1> HIDE DEF moved, even
<1>7. \/ row' = even /\ mon.phase = "entry"
      \/ row' \in {hit, trailing, moved} /\ (queuedTp \/ (mon.hits = 0 /\ mon.target > 0))
  BY <1>1 DEF TornRows, BreakevenDue, TargetHit, hit, trailing, moved, even
<1> QED
  BY <1>1, <1>3, <1>4, <1>5, <1>6, <1>7

\* Asking is possible only for a take profit that is still there.
LEMMA AskedNow ==
    ASSUME TypeOK, Spent, Asked,
           queuedTp \/ (mon # Nothing /\ mon.hits = 0 /\ mon.target > 0)
    PROVE  asked' \in {0, 1} /\ (open => asked' = 1)
<1>1. asked \in {0, 1}
  BY DEF TypeOK, Spent
<1>2. open => asked # 1
  BY DEF Spent
<1> QED
  BY <1>1, <1>2 DEF Asked

\* A step that asks for nothing and touches no copy but to forget it.
LEMMA UntouchedSpent ==
    ASSUME Spent, asked' = asked, open' => open, mon' \in {mon, Nothing},
           queuedTp' => queuedTp /\ mon' = mon, wm' \in {wm, Nothing}, row' \in {row, Nothing}
    PROVE  Spent'
  BY DEF Spent

\* An entry leaves the position monitored.
LEMMA NothingEntered ==
    ASSUME TypeOK, NEW s \in SignalStops, NEW backup \in BOOLEAN, NEW saves \in BOOLEAN,
           Enter(s, backup, saves)
    PROVE  mon' # Nothing
<1>1. s \in Stops /\ LocalStop \in Stops
  BY StopsKnown
<1>2. mon' \in Monitored
  BY <1>1, Records DEF Enter, Monitored, Phases, Targets
<1> QED
  BY <1>2, NothingAssumption

LEMMA NextSpent ==
    ASSUME TypeOK, Spent, [Next]_vars
    PROVE  Spent'
<1> USE DEF closeVars, trackVars
<1>0. /\ asked \in {0, 1}
      /\ mon \in Monitored \union {Nothing} /\ wm \in Watermark \union {Nothing}
      /\ row \in Row \union {Nothing}
      /\ kept \in BOOLEAN
  BY DEF TypeOK, Spent
<1>1. ASSUME NEW s \in SignalStops, NEW backup \in BOOLEAN, NEW saves \in BOOLEAN,
             Enter(s, backup, saves)
      PROVE  Spent'
  <2>1. asked' = 0 /\ queuedTp' = queuedTp /\ mon' # Nothing
    BY <1>1, <1>0, NothingEntered DEF Enter
  <2>2. mon' = mon \/ mon'.hits = 0
    BY <1>1 DEF Enter
  <2> QED
    BY <2>1, <2>2 DEF Spent
<1>2. CASE Adopt
  <2>1. mon = Nothing /\ UNCHANGED <<open, queuedTp, row, asked>>
    BY <1>2 DEF Adopt
  <2>2. wm' = wm \/ wm'.target = 0
    BY <1>2, AdoptOutcome
  <2>3. mon'.hits = wm'.hits /\ mon'.target = wm'.target /\ wm' # Nothing
    BY <1>2, AdoptOutcome, NothingAssumption DEF Taken
  <2> QED
    BY <2>1, <2>2, <2>3 DEF Spent
<1>3. CASE GracePasses
  <2>1. mon' # Nothing /\ mon'.hits = mon.hits /\ mon'.target = mon.target
    BY <1>3, <1>0, NothingAssumption DEF GracePasses, Monitored
  <2> QED
    BY <1>3, <2>1 DEF GracePasses, Spent
<1>4. ASSUME NEW p \in Prices, GraceTick(p) PROVE Spent'
  <2>1. mon # Nothing /\ UNCHANGED <<open, mon, wm, row, asked>>
    BY <1>4 DEF GraceTick, Watched
  <2>2. queuedTp' = queuedTp \/ (mon.hits = 0 /\ mon.target > 0)
    BY <1>4 DEF GraceTick, TargetHit
  <2> QED
    BY <2>1, <2>2, <1>0 DEF Spent
<1>5. CASE AsyncQueuedTarget
  <2>1. asked' \in {0, 1} /\ queuedTp' = FALSE
    BY <1>5, AskedNow DEF AsyncQueuedTarget
  <2>2. mon'.hits = 1
    BY <1>5, <1>0 DEF AsyncQueuedTarget, Watched, Monitored
  <2>3. "trailing" \in Phases
    BY DEF Phases
  <2>4. wm'.hits = 1
    BY <1>5, <1>0, <2>3, HitThenPhase DEF AsyncQueuedTarget
  <2>5. row' # Nothing => row'.hits = 1
    BY <1>5, <1>0, <2>3 DEF AsyncQueuedTarget, SetRow, Row
  <2> QED
    BY <2>1, <2>2, <2>4, <2>5 DEF Spent
<1>6. ASSUME NEW p \in Prices, NEW low \in Prices, AsyncStop(p, low) PROVE Spent'
  BY <1>6, UntouchedSpent DEF AsyncStop
<1>7. ASSUME NEW p \in Prices, AsyncTarget(p) PROVE Spent'
  <2>1. asked' \in {0, 1} /\ ~queuedTp' /\ mon' = Nothing
    BY <1>7, AskedNow DEF AsyncTarget, Watched, TargetHit
  <2>2. "closed" \in Phases
    BY DEF Phases
  <2>3. wm'.hits = 1
    BY <1>7, <1>0, <2>2, HitThenPhase DEF AsyncTarget
  <2>4. row' # Nothing => row'.hits = 1
    BY <1>7, <1>0, <2>2 DEF AsyncTarget, SetRow, Row
  <2> QED
    BY <2>1, <2>3, <2>4 DEF Spent
<1>8. ASSUME NEW p \in Prices, SyncStop(p) PROVE Spent'
  BY <1>8, UntouchedSpent DEF SyncStop
<1>9. ASSUME NEW p \in Prices, SyncTarget(p) PROVE Spent'
  <2>1. asked' \in {0, 1} /\ ~queuedTp' /\ mon' = Nothing /\ open' = open /\ (open => wm' = Nothing)
    BY <1>9, AskedNow, SyncTargetForgets DEF SyncTarget, Watched, TargetHit
  <2>2. row' # Nothing => row'.hits = 1
    BY <1>9, <1>0 DEF SyncTarget, SetRow, Row
  <2> QED
    BY <2>1, <2>2 DEF Spent
<1>10. ASSUME NEW p \in Prices, TriggerBreakeven(p) PROVE Spent'
  <2>1. UNCHANGED <<open, queuedTp, asked>> /\ ~queuedTp /\ "breakeven" \in Phases
    BY <1>10 DEF TriggerBreakeven, NoExit, Phases
  <2>2. mon # Nothing /\ mon'.hits = mon.hits /\ mon'.target = mon.target
    BY <1>10, <1>0 DEF TriggerBreakeven, NoExit, Watched, Monitored
  <2>3. IF wm = Nothing THEN wm'.target = 0 ELSE wm'.hits = wm.hits /\ wm'.target = wm.target
    <3>1. Breakeven \in Stops /\ wm' = WithPhase(WithStop(wm, Breakeven), "breakeven")
      BY <1>10, StopsKnown DEF TriggerBreakeven
    <3> QED
      BY <1>0, <2>1, <3>1, StopThenPhase
  <2>4. IF row = Nothing THEN row' = Nothing ELSE row'.hits = row.hits
    BY <1>10, <1>0 DEF TriggerBreakeven, SetRow, Row
  <2> QED
    BY <2>1, <2>2, <2>3, <2>4 DEF Spent
<1>11. ASSUME NEW p \in Prices, NEW top \in Prices, UpdateTrailing(p, top) PROVE Spent'
  <2>1. UNCHANGED <<open, queuedTp, asked>> /\ ~queuedTp /\ top - Trail \in Stops
    <3>1. mon.stop \in Stops \union {0}
      BY <1>11, Records DEF UpdateTrailing, NoExit, Watched, Monitored
    <3> QED
      BY <1>11, <3>1, StopsPositive DEF UpdateTrailing, NoExit
  <2>2. mon # Nothing /\ mon'.hits = mon.hits /\ mon'.target = mon.target
    BY <1>11, <1>0 DEF UpdateTrailing, NoExit, Watched, Monitored
  <2>3. IF wm = Nothing THEN wm'.target = 0 ELSE wm'.hits = wm.hits /\ wm'.target = wm.target
    BY <1>11, <1>0, <2>1, StopFields DEF UpdateTrailing
  <2>4. IF row = Nothing THEN row' = Nothing ELSE row'.hits = row.hits
    BY <1>11, <1>0 DEF UpdateTrailing, SetRow, Row
  <2> QED
    BY <2>1, <2>2, <2>3, <2>4 DEF Spent
<1>12. ASSUME NEW p \in Prices, EngineTick(p) PROVE Spent'
  <2>1. wm'.target = 0 \/ (wm # Nothing /\ wm'.hits = wm.hits /\ wm'.target = wm.target)
    <3>1. CASE wm = Nothing
      BY <1>12, <3>1 DEF EngineTick, Minimal
    <3>2. CASE wm # Nothing
      BY <1>12, <1>0, <3>2 DEF EngineTick, Watermark
    <3> QED
      BY <3>1, <3>2
  <2> QED
    BY <1>12, <2>1 DEF EngineTick, Spent
<1>13. CASE WorkerTakes \/ ThreadCloses
  BY <1>13, UntouchedSpent DEF WorkerTakes, ThreadCloses, Begin, OrdersCleaned
<1>14. CASE PortfolioExit \/ AutoClose
  BY <1>14, UntouchedSpent DEF PortfolioExit, AutoClose, Begin, OrdersCleaned
<1>15. ASSUME NEW c \in Callers, CloseFails(c) \/ CloseCompletes(c) PROVE Spent'
  BY <1>15, UntouchedSpent DEF CloseFails, CloseCompletes
<1>16. CASE PositionGone \/ Sweep
  <2>1. CASE PositionGone
    BY <2>1, UntouchedSpent DEF PositionGone, OrdersCleaned
  <2>2. CASE Sweep
    BY <2>2, UntouchedSpent DEF Sweep
  <2> QED
    BY <1>16, <2>1, <2>2
<1>17. CASE Reload
  <2>1. CASE open
    <3>1. wm' = Loaded(row, kept) /\ UNCHANGED <<open, mon, queuedTp, row, asked>>
      BY <1>17, <2>1 DEF Reload
    <3>2. IF row = Nothing THEN wm'.target = 0 ELSE wm'.hits = row.hits
      BY <1>0, <3>1, LoadedTypes
    <3> QED
      BY <3>1, <3>2 DEF Spent
  <2>2. CASE ~open
    BY <1>17, <2>2, <1>0 DEF Reload, Spent
  <2> QED
    BY <2>1, <2>2
<1>18. CASE Restart
  <2>1. mon' = Nothing /\ ~queuedTp' /\ (open' => open)
    BY <1>18 DEF Restart, StartAgain
  <2>2. asked' \in {0, 1} /\ (asked' = 1 => asked = 1 \/ row'.hits = 1)
    <3>1. CASE row' = row
      BY <1>18, <3>1, <1>0 DEF Restart
    <3>2. CASE row' # row /\ row'.hits = row.hits
      BY <1>18, <3>2, <1>0 DEF Restart
    <3>3. CASE row' # row /\ row'.hits # row.hits
      <4>1. Asked
        BY <1>18, <3>3, CrashedTick DEF Restart
      <4>2. row'.hits = 1 /\ (queuedTp \/ (mon # Nothing /\ mon.hits = 0 /\ mon.target > 0))
        BY <1>18, <3>3, CrashedTick
      <4> QED
        BY <4>1, <4>2, AskedNow
    <3> QED
      BY <3>1, <3>2, <3>3
  <2>3. row' # Nothing /\ open' /\ asked' = 1 => row'.hits = 1
    <3>1. row' # row => row'.hits = row.hits \/ row'.hits = 1
      BY <1>18, CrashedTick
    <3>2. row' # row => row # Nothing
      BY <1>18, CrashedTick
    <3> QED
      BY <2>1, <2>2, <3>1, <3>2 DEF Spent
  <2>4. open' => IF row' = Nothing THEN wm'.target = 0 ELSE wm'.hits = row'.hits
    BY <1>18 DEF Restart, StartAgain, Loaded, Minimal
  <2>5. ~open' => wm' = Nothing
    BY <1>18 DEF Restart, StartAgain
  <2> QED
    BY <2>1, <2>2, <2>3, <2>4, <2>5 DEF Spent
<1>19. CASE ReconcileAsks \/ CleanStale \/ NothingToReconcile
  BY <1>19, UntouchedSpent DEF ReconcileAsks, CleanStale, NothingToReconcile, OrdersCleaned
<1>20. ASSUME NEW found \in {0, BackupStop}, AdoptOrphan(found) PROVE Spent'
  <2>1. UNCHANGED <<open, queuedTp, row>>
    BY <1>20 DEF AdoptOrphan
  <2>2. /\ wm'.target = Known(wm).target
        /\ mon' = mon \/ (mon' # Nothing /\ mon'.hits = 0)
    BY <1>20, AdoptOrphanTypes
  <2>3. \/ asked' = 0
        \/ asked' = asked /\ mon' = mon /\ ~(Known(wm).target > 0)
    BY <1>20 DEF AdoptOrphan
  <2>4. Known(wm).target \in Nat
    BY <1>0, KnownTypes, LevelsAssumption DEF Watermark, Targets
  <2> QED
    BY <2>1, <2>2, <2>3, <2>4 DEF Spent
<1>21. CASE UNCHANGED vars
  BY <1>21 DEF vars, Spent
<1>22. CASE ShutDown
  <2>1. mon' = Nothing /\ ~queuedTp' /\ (open' => open) /\ asked' = asked
    BY <1>22 DEF ShutDown, StartAgain
  <2>2. row' # Nothing => row # Nothing /\ row'.hits = row.hits
    BY <1>22, ShutDownOutcome
  <2>3. IF open' THEN wm' = Loaded(row', kept') ELSE wm' = Nothing
    BY <1>22 DEF ShutDown, StartAgain
  <2>4. open' => IF row' = Nothing THEN wm'.target = 0 ELSE wm'.hits = row'.hits
    BY <2>3 DEF Loaded, Minimal
  <2> QED
    BY <2>1, <2>2, <2>3, <2>4 DEF Spent
<1>23. CASE DailyCleanup
  BY <1>23, UntouchedSpent DEF DailyCleanup
<1> QED
  BY <1>1, <1>2, <1>3, <1>4, <1>5, <1>6, <1>7, <1>8, <1>9, <1>10, <1>11, <1>12, <1>13, <1>14,
     <1>15, <1>16, <1>17, <1>18, <1>19, <1>20, <1>21, <1>22, <1>23 DEF Next

--------------------------------------------------------------------------------
\* The copies tell the same story, and the stop is never loosened.

\* The phase a position with the row r resumes in.
Resumed(r) == IF r.phase = "entry" /\ r.hits = 1 THEN "trailing" ELSE r.phase

\* Before the first move the monitor has the fixed stop and the row the signal's.
Fixed(fixed, signal) == fixed = LocalStop /\ signal \in SignalStops

RowStory(r) ==
    /\ r.hits = 0 => r.phase \in {"entry", "breakeven"}
    /\ Resumed(r) \in {"entry", "breakeven"} => r.stop <= Breakeven
MonitorStory(m, r) ==
    /\ m.hits = r.hits /\ m.phase = Resumed(r)
    /\ m.stop = r.stop \/ (m.stop = m.initial /\ Fixed(m.stop, r.stop))
WatermarkStory(w, r) ==
    /\ w.hits = r.hits /\ Derived(w) = Resumed(r)
    /\ w.stop = r.stop \/ Fixed(w.stop, r.stop)
SameStop(w, m) == w.stop = m.stop \/ (m.stop = m.initial /\ Fixed(m.stop, w.stop))

\* The record r, which is the row o unless that one is gone, the monitored position m
\* and the watermark w tell the same story.
Tale(m, w, o, r) ==
    /\ o # Nothing => o = r
    /\ RowStory(r)
    /\ m # Nothing => MonitorStory(m, r)
    /\ w # Nothing /\ w.ours => WatermarkStory(w, r) /\ (m # Nothing => SameStop(w, m))

\* The row may be closed as a ghost; r is what it would be.
Story == open /\ kept => \E r \in Row : Tale(mon, wm, row, r)

\* The step of StopNeverLoosened.
Tightened ==
    /\ row # Nothing /\ row' # Nothing =>
         row'.stop >= row.stop \/ (row.stop \in SignalStops /\ row'.stop >= LocalStop)
    /\ mon # Nothing /\ mon' # Nothing => mon'.stop >= mon.stop
NotLoosened == open /\ open' /\ kept /\ kept' => Tightened

\* What a step has to do for a position whose row is r, or would be.
Goes == Tightened /\ \E q \in Row : Tale(mon', wm', row', q)

LEMMA TaleStops ==
    ASSUME TypeOK
    PROVE  /\ \A r \in Row : r # Nothing /\ r.stop \in Int
           /\ row # Nothing => row \in Row /\ row.stop \in Int
           /\ mon # Nothing => mon \in Monitored /\ mon.stop \in Int
  BY Records, StopsKnown, NothingAssumption DEF Row, Monitored

\* Steps that touch no copy but to forget it.
LEMMA UntouchedGoes ==
    ASSUME TypeOK, NEW r \in Row, Tale(mon, wm, row, r),
           row' \in {row, Nothing}, mon' \in {mon, Nothing}, wm' \in {wm, Nothing}
    PROVE  Goes
<1>1. Tale(mon', wm', row', r)
  BY DEF Tale
<1>2. Tightened
  BY TaleStops DEF Tightened
<1> QED
  BY <1>1, <1>2 DEF Goes

\* A monitored position whose take profit is still to come has a stop that breakeven
\* does not loosen, in the row as well.
LEMMA BeforeTarget ==
    ASSUME TypeOK, NEW r \in Row, Tale(mon, wm, row, r), mon # Nothing,
           mon.hits = 0 \/ mon.phase \in {"entry", "breakeven"}
    PROVE  /\ r.hits = mon.hits /\ Resumed(r) = mon.phase
           /\ mon.hits = 0 => r.phase \in {"entry", "breakeven"}
           /\ r.stop \in Int /\ r.stop <= Breakeven
           /\ mon.stop \in Int /\ mon.stop <= Breakeven
<1>1. RowStory(r) /\ MonitorStory(mon, r)
  BY DEF Tale
<1>2. r.stop \in Int /\ mon.stop \in Int
  BY TaleStops
<1>3. mon.hits = 0 => r.phase \in {"entry", "breakeven"} /\ Resumed(r) = r.phase
  BY <1>1 DEF RowStory, MonitorStory, Resumed
<1>4. r.stop <= Breakeven
  BY <1>1, <1>3 DEF RowStory, MonitorStory
<1>5. mon.stop <= Breakeven
  BY <1>1, <1>2, <1>4, StopsKnown DEF MonitorStory, Fixed
<1> QED
  BY <1>1, <1>2, <1>3, <1>4, <1>5 DEF MonitorStory

LEMMA EnterTale ==
    ASSUME TypeOK, kept',
           NEW s \in SignalStops, NEW backup \in BOOLEAN, NEW saves \in BOOLEAN,
           Enter(s, backup, saves)
    PROVE  \E q \in Row : Tale(mon', wm', row', q)
<1> DEFINE q == [stop |-> s, hits |-> 0, phase |-> "entry"]
<1>1. saves /\ (mon = Nothing \/ backup)
  BY DEF Enter
<1>2. row' = q /\ q \in Row
  <2>1. s \in Stops /\ "entry" \in Phases
    BY StopsKnown DEF Phases
  <2>2. q \in Row
    BY <2>1 DEF Row
  <2> QED
    BY <1>1, <2>2 DEF Enter
<1>3. q.stop = s /\ q.hits = 0 /\ q.phase = "entry"
  OBVIOUS
<1> HIDE DEF q
<1>4. RowStory(q) /\ Resumed(q) = "entry"
  BY <1>3, StopsKnown DEF RowStory, Resumed
<1>5. /\ mon'.hits = 0 /\ mon'.phase = "entry" /\ mon'.stop = mon'.initial
      /\ mon'.stop = (IF backup THEN LocalStop ELSE s)
  BY <1>1 DEF Enter
<1>6. MonitorStory(mon', q)
  BY <1>3, <1>4, <1>5 DEF MonitorStory, Fixed
<1>7. wm' # Nothing /\ wm'.ours =>
        wm'.hits = 0 /\ wm'.phase = "entry" /\ ~wm'.be /\ wm'.stop = mon'.stop
  <2>1. CASE wm = Nothing
    BY <1>5, <2>1 DEF Enter
  <2>2. CASE wm # Nothing
    <3>1. wm \in Watermark
      BY <2>2, Records
    <3> QED
      BY <2>2, <3>1 DEF Enter, Watermark
  <2> QED
    BY <2>1, <2>2
<1>8. wm' # Nothing /\ wm'.ours => WatermarkStory(wm', q) /\ SameStop(wm', mon')
  BY <1>3, <1>4, <1>5, <1>7 DEF WatermarkStory, SameStop, Derived, Fixed
<1>9. Tale(mon', wm', row', q)
  BY <1>2, <1>4, <1>6, <1>8 DEF Tale
<1> QED
  BY <1>2, <1>9

LEMMA AdoptGoes ==
    ASSUME TypeOK, NEW r \in Row, Tale(mon, wm, row, r), Adopt, kept'
    PROVE  Goes
<1>1. mon = Nothing /\ row' = row /\ wm'.ours
  BY DEF Adopt
<1>2. wm' = wm /\ wm' # Nothing /\ Taken(wm', mon')
  BY <1>1, AdoptOutcome, NothingAssumption
<1>3. WatermarkStory(wm', r)
  BY <1>1, <1>2 DEF Tale
<1>4. MonitorStory(mon', r) /\ SameStop(wm', mon')
  BY <1>2, <1>3 DEF WatermarkStory, MonitorStory, SameStop, Taken
<1>5. Tale(mon', wm', row', r)
  BY <1>1, <1>3, <1>4 DEF Tale
<1>6. Tightened
  BY <1>1, TaleStops DEF Tightened
<1> QED
  BY <1>5, <1>6 DEF Goes

\* Both ways a take profit leaves the row: trailing with the stop it had, or closed.
LEMMA HitGoes ==
    ASSUME TypeOK, NEW r \in Row, Tale(mon, wm, row, r),
           mon # Nothing, mon.hits = 0,
           NEW phase \in {"trailing", "closed"}, NEW q \in Row,
           q.hits = 1, q.phase = phase, q.stop \in {r.stop, Breakeven},
           IF row = Nothing THEN row' = Nothing ELSE row' = q,
           \/ mon' = Nothing
           \/ /\ mon'.hits = 1 /\ mon'.phase = phase
              /\ mon'.stop = mon.stop /\ mon'.initial = mon.initial
              /\ q.stop = r.stop,
           \/ wm' = Nothing
           \/ /\ wm'.hits = 1 /\ wm'.phase = phase /\ wm' # Nothing
              /\ wm'.ours => wm # Nothing /\ wm.ours /\ wm'.stop = wm.stop
              /\ q.stop = r.stop
    PROVE  Goes
<1>1. r.stop \in Int /\ r.stop <= Breakeven /\ mon.stop \in Int /\ MonitorStory(mon, r)
  BY BeforeTarget DEF Tale
<1>2. Resumed(q) = phase /\ RowStory(q)
  BY DEF Resumed, RowStory
<1>3. q.stop >= r.stop
  BY <1>1, StopsKnown
<1>4. mon' # Nothing => MonitorStory(mon', q) /\ mon'.stop >= mon.stop
  BY <1>1, <1>2 DEF MonitorStory
<1>5. wm' # Nothing /\ wm'.ours =>
        WatermarkStory(wm', q) /\ (mon' # Nothing => SameStop(wm', mon'))
  <2>1. SUFFICES ASSUME wm' # Nothing, wm'.ours
                 PROVE  WatermarkStory(wm', q) /\ (mon' # Nothing => SameStop(wm', mon'))
    OBVIOUS
  <2>2. WatermarkStory(wm, r) /\ SameStop(wm, mon) /\ wm'.stop = wm.stop /\ q.stop = r.stop
    BY <2>1 DEF Tale
  <2>3. Derived(wm') = phase
    BY <2>1 DEF Derived
  <2> QED
    BY <1>2, <2>1, <2>2, <2>3 DEF WatermarkStory, SameStop
<1>6. Tale(mon', wm', row', q)
  BY <1>2, <1>4, <1>5 DEF Tale
<1>7. Tightened
  BY <1>3, <1>4 DEF Tale, Tightened
<1> QED
  BY <1>6, <1>7 DEF Goes

LEMMA AsyncQueuedTargetGoes ==
    ASSUME TypeOK, Spent, NEW r \in Row, Tale(mon, wm, row, r), AsyncQueuedTarget
    PROVE  Goes
<1>1. /\ mon \in Monitored /\ mon # Nothing /\ mon.hits = 0 /\ "trailing" \in Phases
      /\ wm \in Watermark \union {Nothing}
  BY Records DEF AsyncQueuedTarget, Watched, Spent, Phases
<1>2. /\ mon'.hits = 1 /\ mon'.phase = "trailing"
      /\ mon'.stop = mon.stop /\ mon'.initial = mon.initial
  BY <1>1 DEF AsyncQueuedTarget, Monitored
<1>3. /\ wm' # Nothing /\ wm'.hits = 1 /\ wm'.phase = "trailing"
      /\ wm'.ours => wm # Nothing /\ wm.ours /\ wm'.stop = wm.stop
  BY <1>1, HitThenPhase DEF AsyncQueuedTarget
<1> DEFINE hit == SetRow(r, "hits", 1)
<1> DEFINE q == SetRow(hit, "phase", "trailing")
<1>4. hit \in Row /\ hit.hits = 1 /\ hit.stop = r.stop
  BY <1>1, SetRowFields, StopsKnown
<1>5. IF row = Nothing THEN row' = Nothing ELSE row' = q
  <2>1. CASE row = Nothing
    BY <2>1 DEF AsyncQueuedTarget, SetRow
  <2>2. CASE row # Nothing
    BY <2>2 DEF AsyncQueuedTarget, Tale
  <2> QED
    BY <2>1, <2>2
<1> HIDE DEF hit
<1>6. q \in Row /\ q.hits = 1 /\ q.phase = "trailing" /\ q.stop = r.stop
  BY <1>1, <1>4, SetRowFields, StopsKnown
<1> HIDE DEF q
<1> QED
  BY <1>1, <1>2, <1>3, <1>5, <1>6, HitGoes

LEMMA AsyncTargetGoes ==
    ASSUME TypeOK, NEW r \in Row, Tale(mon, wm, row, r), NEW p \in Prices, AsyncTarget(p)
    PROVE  Goes
<1>1. /\ mon # Nothing /\ mon.hits = 0 /\ mon' = Nothing /\ "closed" \in Phases
      /\ wm \in Watermark \union {Nothing}
  BY Records DEF AsyncTarget, Watched, TargetHit, Phases
<1>2. /\ wm' # Nothing /\ wm'.hits = 1 /\ wm'.phase = "closed"
      /\ wm'.ours => wm # Nothing /\ wm.ours /\ wm'.stop = wm.stop
  BY <1>1, HitThenPhase DEF AsyncTarget
<1> DEFINE hit == SetRow(r, "hits", 1)
<1> DEFINE q == SetRow(hit, "phase", "closed")
<1>3. hit \in Row /\ hit.hits = 1 /\ hit.stop = r.stop
  BY <1>1, SetRowFields, StopsKnown
<1>4. IF row = Nothing THEN row' = Nothing ELSE row' = q
  <2>1. CASE row = Nothing
    BY <2>1 DEF AsyncTarget, SetRow
  <2>2. CASE row # Nothing
    BY <2>2 DEF AsyncTarget, Tale
  <2> QED
    BY <2>1, <2>2
<1> HIDE DEF hit
<1>5. q \in Row /\ q.hits = 1 /\ q.phase = "closed" /\ q.stop = r.stop
  BY <1>1, <1>3, SetRowFields, StopsKnown
<1> HIDE DEF q
<1> QED
  BY <1>1, <1>2, <1>4, <1>5, HitGoes

LEMMA SyncTargetGoes ==
    ASSUME TypeOK, Spent, open, NEW r \in Row, Tale(mon, wm, row, r), NEW p \in Prices, SyncTarget(p)
    PROVE  Goes
<1>1. mon # Nothing /\ mon.hits = 0 /\ mon' = Nothing /\ wm' = Nothing /\ "closed" \in Phases
  BY SyncTargetForgets DEF SyncTarget, Watched, TargetHit, Spent, Phases
<1> DEFINE hit == SetRow(r, "hits", 1)
<1> DEFINE moved == SetRow(hit, "stop", Breakeven)
<1> DEFINE q == SetRow(moved, "phase", "closed")
<1>2. IF row = Nothing THEN row' = Nothing ELSE row' = q
  <2>1. CASE row = Nothing
    BY <2>1 DEF SyncTarget, SetRow
  <2>2. CASE row # Nothing
    BY <2>2 DEF SyncTarget, Tale
  <2> QED
    BY <2>1, <2>2
<1>3. hit \in Row /\ hit.hits = 1
  BY <1>1, SetRowFields, StopsKnown
<1> HIDE DEF hit
<1>4. moved \in Row /\ moved.hits = 1 /\ moved.stop = Breakeven
  BY <1>1, <1>3, SetRowFields, StopsKnown
<1> HIDE DEF moved
<1>5. q \in Row /\ q.hits = 1 /\ q.phase = "closed" /\ q.stop = Breakeven
  BY <1>1, <1>4, SetRowFields, StopsKnown
<1> HIDE DEF q
<1> QED
  BY <1>1, <1>2, <1>5, HitGoes

\* A move of the stop that the monitor writes to the row and the watermark.
LEMMA MovedGoes ==
    ASSUME TypeOK, NEW r \in Row, Tale(mon, wm, row, r), mon # Nothing,
           NEW stop \in Stops, mon.stop <= stop, LocalStop < stop \/ mon.stop < stop,
           NEW q \in Row, RowStory(q), q.stop = stop, q.hits = r.hits, Resumed(q) = mon'.phase,
           IF row = Nothing THEN row' = Nothing ELSE row' = q,
           mon'.hits = mon.hits, mon'.stop = stop,
           wm' # Nothing /\ wm'.ours =>
             wm # Nothing /\ wm.ours /\ wm'.stop = stop /\ wm'.hits = wm.hits
             /\ Derived(wm') = mon'.phase
    PROVE  Goes
<1>1. MonitorStory(mon, r) /\ r.stop \in Int /\ mon.stop \in Int /\ stop \in Int
  BY TaleStops, StopsKnown DEF Tale
<1>2. q.stop >= r.stop \/ (r.stop \in SignalStops /\ q.stop >= LocalStop)
  BY <1>1, StopsKnown DEF MonitorStory, Fixed
<1>3. Tightened
  BY <1>1, <1>2 DEF Tightened, Tale
<1>4. MonitorStory(mon', q)
  BY <1>1 DEF MonitorStory
<1>5. wm' # Nothing /\ wm'.ours => WatermarkStory(wm', q) /\ SameStop(wm', mon')
  BY DEF Tale, WatermarkStory, SameStop
<1>6. Tale(mon', wm', row', q)
  BY <1>4, <1>5 DEF Tale
<1> QED
  BY <1>3, <1>6 DEF Goes

LEMMA BreakevenGoes ==
    ASSUME TypeOK, NEW r \in Row, Tale(mon, wm, row, r), NEW p \in Prices, TriggerBreakeven(p)
    PROVE  Goes
<1>1. /\ mon \in Monitored /\ mon # Nothing /\ mon.phase = "entry"
      /\ "breakeven" \in Phases /\ Breakeven \in Stops
      /\ wm \in Watermark \union {Nothing}
  BY Records, StopsKnown DEF TriggerBreakeven, NoExit, Watched, BreakevenDue, Phases
<1>2. /\ mon'.hits = mon.hits /\ mon'.phase = "breakeven" /\ mon'.stop = Breakeven
  BY <1>1 DEF TriggerBreakeven, Monitored
<1>3. Resumed(r) = "entry" /\ r.hits = mon.hits /\ mon.stop \in Int /\ mon.stop <= Breakeven
  BY <1>1, BeforeTarget
<1>4. r.hits = 0
  BY <1>3 DEF Resumed, Row
<1> DEFINE moved == SetRow(r, "stop", Breakeven)
<1> DEFINE q == SetRow(moved, "phase", "breakeven")
<1>5. IF row = Nothing THEN row' = Nothing ELSE row' = q
  <2>1. CASE row = Nothing
    BY <2>1 DEF TriggerBreakeven, SetRow
  <2>2. CASE row # Nothing
    BY <2>2 DEF TriggerBreakeven, Tale
  <2> QED
    BY <2>1, <2>2
<1>6. moved \in Row /\ moved.stop = Breakeven /\ moved.hits = r.hits
  BY <1>1, SetRowFields
<1> HIDE DEF moved
<1>7. q \in Row /\ q.stop = Breakeven /\ q.phase = "breakeven" /\ q.hits = r.hits
  BY <1>1, <1>6, SetRowFields
<1> HIDE DEF q
<1>8. RowStory(q) /\ Resumed(q) = "breakeven"
  BY <1>7, StopsKnown DEF RowStory, Resumed
<1>9. wm' # Nothing /\ wm'.ours =>
        wm # Nothing /\ wm.ours /\ wm'.stop = Breakeven /\ wm'.hits = wm.hits
        /\ Derived(wm') = "breakeven"
  BY <1>1, StopThenPhase DEF TriggerBreakeven, Derived
<1> QED
  BY <1>1, <1>2, <1>3, <1>5, <1>7, <1>8, <1>9, StopsKnown, MovedGoes

LEMMA TrailingGoes ==
    ASSUME TypeOK, NEW r \in Row, Tale(mon, wm, row, r),
           NEW p \in Prices, NEW top \in Prices, UpdateTrailing(p, top)
    PROVE  Goes
<1> DEFINE stop == top - Trail
<1>1. /\ mon \in Monitored /\ mon # Nothing /\ mon.phase = "trailing" /\ stop > mon.stop
      /\ wm \in Watermark \union {Nothing}
  BY Records DEF UpdateTrailing, NoExit, Watched
<1>2. stop \in Stops
  BY <1>1, StopsPositive DEF Monitored
<1>3. wm' = WithStop(wm, stop) /\ row' = SetRow(row, "stop", stop) /\ mon' = [mon EXCEPT !.stop = stop]
  BY DEF UpdateTrailing
<1> HIDE DEF stop
<1>4. mon'.hits = mon.hits /\ mon'.phase = "trailing" /\ mon'.stop = stop
  BY <1>1, <1>3 DEF Monitored
<1>5. mon.stop \in Int /\ stop \in Int
  BY <1>1, <1>2, TaleStops, StopsKnown
<1> DEFINE q == SetRow(r, "stop", stop)
<1>6. IF row = Nothing THEN row' = Nothing ELSE row' = q
  <2>1. CASE row = Nothing
    BY <1>3, <2>1 DEF SetRow
  <2>2. CASE row # Nothing
    BY <1>3, <2>2 DEF Tale
  <2> QED
    BY <2>1, <2>2
<1>7. q \in Row /\ q.stop = stop /\ q.phase = r.phase /\ q.hits = r.hits
  <2>1. stop \in Stops \union {0} /\ "entry" \in Phases
    BY <1>2 DEF Phases
  <2> QED
    BY <1>2, <2>1, SetRowFields
<1> HIDE DEF q
<1>8. MonitorStory(mon, r) /\ RowStory(r)
  BY <1>1 DEF Tale
<1>9. RowStory(q) /\ Resumed(q) = "trailing"
  BY <1>1, <1>7, <1>8 DEF RowStory, Resumed, MonitorStory
<1>10. wm' # Nothing /\ wm'.ours =>
         wm # Nothing /\ wm.ours /\ wm'.stop = stop /\ wm'.hits = wm.hits
         /\ Derived(wm') = "trailing"
  <2>1. SUFFICES ASSUME wm' # Nothing, wm'.ours
                 PROVE  wm # Nothing /\ wm.ours /\ wm'.stop = stop /\ wm'.hits = wm.hits
                        /\ Derived(wm') = "trailing"
    OBVIOUS
  <2>2. /\ wm # Nothing /\ wm.ours /\ wm'.stop = stop
        /\ wm'.hits = wm.hits /\ wm'.phase = wm.phase /\ wm'.be = wm.be
    BY <1>1, <1>2, <1>3, <2>1, StopFields
  <2>3. Derived(wm) = "trailing"
    BY <1>1, <1>8, <2>2 DEF Tale, WatermarkStory, MonitorStory
  <2> QED
    BY <2>2, <2>3 DEF Derived
<1> QED
  BY <1>1, <1>2, <1>4, <1>5, <1>6, <1>7, <1>9, <1>10, MovedGoes

LEMMA LoadedStory ==
    ASSUME NEW r \in Row, r # Nothing, NEW own \in BOOLEAN
    PROVE  WatermarkStory(Loaded(r, own), r) /\ Loaded(r, own).stop = r.stop
  BY DEF WatermarkStory, Loaded, Derived, Resumed

LEMMA ReloadGoes ==
    ASSUME TypeOK, open, NEW r \in Row, Tale(mon, wm, row, r), Reload
    PROVE  Goes
<1>1. UNCHANGED <<mon, row>> /\ wm' = Loaded(row, kept) /\ kept \in BOOLEAN
  BY DEF Reload, TypeOK
<1>2. Tightened
  BY <1>1, TaleStops DEF Tightened
<1>3. CASE row = Nothing
  <2>1. ~wm'.ours
    BY <1>1, <1>3, LoadedTypes
  <2>2. Tale(mon', wm', row', r)
    BY <1>1, <2>1 DEF Tale
  <2> QED
    BY <1>2, <2>2 DEF Goes
<1>4. CASE row # Nothing
  <2>1. row = r
    BY <1>4 DEF Tale
  <2>2. WatermarkStory(wm', r) /\ wm'.stop = r.stop
    BY <1>1, <1>4, <2>1, LoadedStory
  <2>3. mon # Nothing => SameStop(wm', mon)
    BY <2>2 DEF Tale, MonitorStory, SameStop
  <2>4. Tale(mon', wm', row', r)
    BY <1>1, <2>2, <2>3 DEF Tale
  <2> QED
    BY <1>2, <2>4 DEF Goes
<1> QED
  BY <1>3, <1>4

\* The process starts again with the row q, or without one.
LEMMA StartedGoes ==
    ASSUME TypeOK, NEW q \in Row, RowStory(q), row' \in {q, Nothing},
           open', kept' \in BOOLEAN, StartAgain,
           row # Nothing /\ row' # Nothing =>
             row'.stop >= row.stop \/ (row.stop \in SignalStops /\ row'.stop >= LocalStop)
    PROVE  Goes
<1>1. mon' = Nothing /\ wm' = Loaded(row', kept')
  BY DEF StartAgain
<1>2. wm' # Nothing /\ wm'.ours => WatermarkStory(wm', q)
  <2>1. CASE row' = Nothing
    BY <1>1, <2>1, LoadedTypes
  <2>2. CASE row' # Nothing
    BY <1>1, <2>2, LoadedStory
  <2> QED
    BY <2>1, <2>2
<1>3. Tale(mon', wm', row', q)
  BY <1>1, <1>2 DEF Tale
<1> QED
  BY <1>1, <1>3 DEF Goes, Tightened

LEMMA RestartGoes ==
    ASSUME TypeOK, Spent, open', kept', NEW r \in Row, Tale(mon, wm, row, r), Restart
    PROVE  Goes
<1>1. StartAgain /\ kept' \in BOOLEAN
  BY DEF Restart, TypeOK
<1>2. r.stop \in Int /\ RowStory(r)
  BY TaleStops DEF Tale
<1>3. CASE row' = row
  <2>1. row' \in {r, Nothing}
    BY <1>3 DEF Tale
  <2>2. row # Nothing /\ row' # Nothing => row'.stop >= row.stop
    BY <1>3, TaleStops
  <2> QED
    BY <1>1, <1>2, <2>1, <2>2, StartedGoes
<1>4. CASE row' # row
  <2>1. row = r /\ row' \in Row /\ row' # Nothing /\ mon # Nothing
    BY <1>4, CrashedTick DEF Tale
  <2>2. RowStory(row') /\ row'.stop >= row.stop
    <3>1. CASE mon.phase = "entry" /\ row'.hits = row.hits /\ row'.phase = row.phase /\ row'.stop = Breakeven
      BY <1>2, <2>1, <3>1, BeforeTarget, StopsKnown DEF RowStory
    <3>2. CASE /\ queuedTp \/ (mon.hits = 0 /\ mon.target > 0)
               /\ row'.hits = 1 /\ row'.phase \in {row.phase, "trailing"}
               /\ row'.stop = row.stop \/ (row'.phase = "trailing" /\ row'.stop = Breakeven)
      <4>1. mon.hits = 0
        BY <3>2 DEF Spent
      <4>2. r.stop <= Breakeven
        BY <2>1, <4>1, BeforeTarget
      <4>3. row'.stop >= row.stop
        BY <1>2, <2>1, <3>2, <4>2, StopsKnown
      <4>4. RowStory(row')
        BY <1>2, <2>1, <3>2, <4>2, StopsKnown DEF RowStory
      <4> QED
        BY <4>3, <4>4
    <3> QED
      BY <1>4, <3>1, <3>2, CrashedTick
  <2> QED
    BY <1>1, <2>1, <2>2, StartedGoes
<1> QED
  BY <1>3, <1>4

LEMMA ShutDownGoes ==
    ASSUME TypeOK, open', kept', NEW r \in Row, Tale(mon, wm, row, r), ShutDown
    PROVE  Goes
<1>1. StartAgain /\ kept' \in BOOLEAN /\ (wm # Nothing => wm.ours)
  <2>1. kept \in BOOLEAN /\ kept' = (kept /\ (wm # Nothing => wm.ours))
    BY DEF ShutDown, TypeOK
  <2>2. kept' \in BOOLEAN /\ (wm # Nothing => wm.ours)
    BY <2>1, Zenon
  <2> QED
    BY <2>2 DEF ShutDown
<1>2. r.stop \in Int /\ RowStory(r)
  BY TaleStops DEF Tale
<1>3. CASE wm = Nothing \/ row = Nothing
  <2>1. row' = row
    BY <1>3 DEF ShutDown, SetRow
  <2>2. row' \in {r, Nothing}
    BY <2>1 DEF Tale
  <2>3. row # Nothing /\ row' # Nothing => row'.stop >= row.stop
    BY <2>1, TaleStops
  <2> QED
    BY <1>1, <1>2, <2>2, <2>3, StartedGoes
<1>4. CASE wm # Nothing /\ row # Nothing
  <2>1. row = r /\ WatermarkStory(wm, r)
    BY <1>1, <1>4 DEF Tale
  <2>2. /\ row' \in Row /\ row' # Nothing /\ row'.hits = r.hits /\ row'.phase = r.phase
        /\ row'.stop = wm.stop
    BY <1>4, <2>1, ShutDownOutcome
  <2>3. RowStory(row')
    BY <1>2, <2>1, <2>2, StopsKnown DEF RowStory, Resumed, WatermarkStory, Fixed
  <2>4. row'.stop >= row.stop \/ (row.stop \in SignalStops /\ row'.stop >= LocalStop)
    BY <1>2, <2>1, <2>2, StopsKnown DEF WatermarkStory, Fixed
  <2> QED
    BY <1>1, <2>2, <2>3, <2>4, StartedGoes
<1> QED
  BY <1>3, <1>4

LEMMA NextGoes ==
    ASSUME TypeOK, Spent, open, kept, open', kept', NEW r \in Row, Tale(mon, wm, row, r), [Next]_vars
    PROVE  Goes
<1> USE DEF closeVars, trackVars
<1>1. ASSUME NEW s \in SignalStops, NEW backup \in BOOLEAN, NEW saves \in BOOLEAN,
             Enter(s, backup, saves)
      PROVE  Goes
  BY <1>1 DEF Enter
<1>2. CASE Adopt
  BY <1>2, AdoptGoes
<1>3. CASE GracePasses
  <2>1. mon \in Monitored /\ mon # Nothing
    BY <1>3, Records DEF GracePasses
  <2>2. mon'.hits = mon.hits /\ mon'.phase = mon.phase /\ mon'.stop = mon.stop /\ mon'.initial = mon.initial
    BY <1>3, <2>1 DEF GracePasses, Monitored
  <2>3. UNCHANGED <<row, wm>>
    BY <1>3 DEF GracePasses
  <2>4. Tightened
    BY <2>2, <2>3, TaleStops DEF Tightened
  <2>5. Tale(mon', wm', row', r)
    BY <2>1, <2>2, <2>3 DEF Tale, MonitorStory, SameStop
  <2> QED
    BY <2>4, <2>5 DEF Goes
<1>4. ASSUME NEW p \in Prices, GraceTick(p) PROVE Goes
  BY <1>4, UntouchedGoes DEF GraceTick
<1>5. CASE AsyncQueuedTarget
  BY <1>5, AsyncQueuedTargetGoes
<1>6. ASSUME NEW p \in Prices, NEW low \in Prices, AsyncStop(p, low) PROVE Goes
  BY <1>6, UntouchedGoes DEF AsyncStop
<1>7. ASSUME NEW p \in Prices, AsyncTarget(p) PROVE Goes
  BY <1>7, AsyncTargetGoes
<1>8. ASSUME NEW p \in Prices, SyncStop(p) PROVE Goes
  BY <1>8, UntouchedGoes DEF SyncStop
<1>9. ASSUME NEW p \in Prices, SyncTarget(p) PROVE Goes
  BY <1>9, SyncTargetGoes
<1>10. ASSUME NEW p \in Prices, TriggerBreakeven(p) PROVE Goes
  BY <1>10, BreakevenGoes
<1>11. ASSUME NEW p \in Prices, NEW top \in Prices, UpdateTrailing(p, top) PROVE Goes
  BY <1>11, TrailingGoes
<1>12. ASSUME NEW p \in Prices, EngineTick(p) PROVE Goes
  <2>1. UNCHANGED <<mon, row>>
    BY <1>12 DEF EngineTick
  <2>2. ~wm'.ours
    <3>1. CASE wm = Nothing
      BY <1>12, <3>1 DEF EngineTick, Minimal
    <3>2. CASE wm # Nothing
      BY <1>12, <3>2, Records DEF EngineTick, Watermark
    <3> QED
      BY <3>1, <3>2
  <2>3. Tightened
    BY <2>1, TaleStops DEF Tightened
  <2>4. Tale(mon', wm', row', r)
    BY <2>1, <2>2 DEF Tale
  <2> QED
    BY <2>3, <2>4 DEF Goes
<1>13. CASE WorkerTakes \/ ThreadCloses
  BY <1>13, UntouchedGoes DEF WorkerTakes, ThreadCloses, Begin, OrdersCleaned
<1>14. CASE PortfolioExit \/ AutoClose
  BY <1>14, UntouchedGoes DEF PortfolioExit, AutoClose, Begin, OrdersCleaned
<1>15. ASSUME NEW c \in Callers, CloseFails(c) \/ CloseCompletes(c) PROVE Goes
  BY <1>15, UntouchedGoes DEF CloseFails, CloseCompletes
<1>16. CASE PositionGone \/ Sweep \/ DailyCleanup
  <2>1. CASE PositionGone
    BY <2>1 DEF PositionGone
  <2>2. CASE Sweep
    BY <2>2, UntouchedGoes DEF Sweep
  <2>3. CASE DailyCleanup
    BY <2>3, UntouchedGoes DEF DailyCleanup
  <2> QED
    BY <1>16, <2>1, <2>2, <2>3
<1>17. CASE Reload
  BY <1>17, ReloadGoes
<1>18. CASE Restart
  BY <1>18, RestartGoes
<1>19. CASE ReconcileAsks \/ CleanStale \/ NothingToReconcile
  BY <1>19, UntouchedGoes DEF ReconcileAsks, CleanStale, NothingToReconcile, OrdersCleaned
<1>20. ASSUME NEW found \in {0, BackupStop}, AdoptOrphan(found) PROVE Goes
  <2>1. UNCHANGED <<mon, row>>
    BY <1>20 DEF AdoptOrphan
  <2>2. ~wm'.ours
    BY <1>20, AdoptOrphanTypes
  <2>3. Tightened
    BY <2>1, TaleStops DEF Tightened
  <2>4. Tale(mon', wm', row', r)
    BY <2>1, <2>2 DEF Tale
  <2> QED
    BY <2>3, <2>4 DEF Goes
<1>21. CASE UNCHANGED vars
  BY <1>21, UntouchedGoes DEF vars
<1>22. CASE ShutDown
  BY <1>22, ShutDownGoes
<1> QED
  BY <1>1, <1>2, <1>3, <1>4, <1>5, <1>6, <1>7, <1>8, <1>9, <1>10, <1>11, <1>12, <1>13, <1>14,
     <1>15, <1>16, <1>17, <1>18, <1>19, <1>20, <1>21, <1>22 DEF Next

\* Only an entry makes an open position with data of the monitor's own out of another.
LEMMA KeptBefore ==
    ASSUME TypeOK, [Next]_vars, open', kept', ~(open /\ kept)
    PROVE  \E s \in SignalStops, backup, saves \in BOOLEAN : Enter(s, backup, saves)
<1> USE DEF closeVars, trackVars
<1>1. ASSUME ~\E s \in SignalStops, backup, saves \in BOOLEAN : Enter(s, backup, saves)
      PROVE  FALSE
  <2>1. CASE open' = open /\ kept' = kept
    BY <2>1
  <2>2. ASSUME NEW found \in {0, BackupStop}, AdoptOrphan(found) PROVE FALSE
    BY <2>2 DEF AdoptOrphan
  <2>3. CASE Adopt
    BY <2>3, Zenon DEF Adopt, TypeOK
  <2>4. CASE Restart
    BY <2>4 DEF Restart, StartAgain
  <2>5. CASE ShutDown
    <3>1. open
      BY <2>5 DEF ShutDown, StartAgain
    <3>2. kept
      BY <2>5, Zenon DEF ShutDown, TypeOK
    <3> QED
      BY <3>1, <3>2
  <2>6. CASE PositionGone
    BY <2>6 DEF PositionGone
  <2>7. ASSUME NEW c \in Callers, CloseCompletes(c) PROVE FALSE
    BY <2>1, <2>7 DEF CloseCompletes
  <2>8. CASE \/ GracePasses \/ AsyncQueuedTarget \/ WorkerTakes \/ ThreadCloses \/ PortfolioExit
             \/ AutoClose \/ Sweep \/ Reload \/ ReconcileAsks \/ CleanStale \/ NothingToReconcile
             \/ DailyCleanup
    BY <2>1, <2>8 DEF GracePasses, AsyncQueuedTarget, WorkerTakes, ThreadCloses, PortfolioExit,
         AutoClose, Sweep, Reload, ReconcileAsks, CleanStale, NothingToReconcile, DailyCleanup
  <2>9. ASSUME NEW p \in Prices, NEW q \in Prices,
               \/ GraceTick(p) \/ AsyncStop(p, q) \/ AsyncTarget(p) \/ SyncStop(p)
               \/ SyncTarget(p) \/ TriggerBreakeven(p) \/ UpdateTrailing(p, q) \/ EngineTick(p)
        PROVE  FALSE
    BY <2>1, <2>9 DEF GraceTick, AsyncStop, AsyncTarget, SyncStop, SyncTarget, TriggerBreakeven,
         UpdateTrailing, EngineTick
  <2>10. ASSUME NEW c \in Callers, CloseFails(c) PROVE FALSE
    BY <2>1, <2>10 DEF CloseFails
  <2>11. CASE UNCHANGED vars
    BY <2>1, <2>11 DEF vars
  <2> QED
    BY <1>1, <2>2, <2>3, <2>4, <2>5, <2>6, <2>7, <2>8, <2>9, <2>10, <2>11 DEF Next
<1> QED
  BY <1>1

LEMMA NextStory ==
    ASSUME TypeOK, Spent, Story, [Next]_vars
    PROVE  Story' /\ NotLoosened
<1>1. CASE ~(open' /\ kept')
  BY <1>1 DEF Story, NotLoosened
<1>2. CASE open' /\ kept' /\ open /\ kept
  <2>1. PICK r \in Row : Tale(mon, wm, row, r)
    BY <1>2 DEF Story
  <2>2. Goes
    BY <1>2, <2>1, NextGoes
  <2> QED
    BY <2>2 DEF Goes, Story, NotLoosened
<1>3. CASE open' /\ kept' /\ ~(open /\ kept)
  <2>1. \E s \in SignalStops, backup, saves \in BOOLEAN : Enter(s, backup, saves)
    BY <1>3, KeptBefore
  <2>2. \E q \in Row : Tale(mon', wm', row', q)
    BY <1>3, <2>1, EnterTale
  <2> QED
    BY <1>3, <2>2 DEF Story, NotLoosened
<1> QED
  BY <1>1, <1>2, <1>3

--------------------------------------------------------------------------------
\* The invariant that all of this rests on, and what follows from it.

Inv == TypeOK /\ Spent /\ Story

\* Whatever ticks, closes, reconciliations, crashes, shutdowns and cleanups of the rows
\* come, a take profit that was asked for is gone from every copy, and the copies of the
\* state stay in step.
THEOREM Inductive == Spec => []Inv
<1>1. Init => Inv
  <2> SUFFICES ASSUME Init PROVE Inv
    OBVIOUS
  <2>1. Spent /\ Story
    BY DEF Init, Spent, Story
  <2> QED
    BY <2>1, InitTypes DEF Inv
<1>2. Inv /\ [Next]_vars => Inv'
  BY NextTypes, NextSpent, NextStory DEF Inv
<1> QED
  BY <1>1, <1>2, PTL DEF Spec

\* The monitor's copy, the watermark and the row keep their types, whoever writes them:
\* what a position is taken up with has a stop or a take profit, also when a shutdown has
\* left none of the first in its row (_restore_position_monitoring).
THEOREM TypeCorrect == Spec => []TypeOK
<1>1. Inv => TypeOK
  BY DEF Inv, TypeOK
<1> QED
  BY <1>1, Inductive, PTL

\* The take profit of a position is asked for once at most (_on_tp1_hit and its
\* asynchronous twin), across failed closes, re-adoption and crashes.
THEOREM AskedOnce == Spec => []TargetAskedOnce
<1>1. Inv => TargetAskedOnce
  BY DEF Inv, Spent, TargetAskedOnce
<1> QED
  BY <1>1, Inductive, PTL

\* What the persisting callbacks wrote is what the monitor works with, so a restart or
\* a re-adoption from an untouched watermark resumes in the same place.
THEOREM CopiesKept == Spec => []CopiesAgree
<1>1. Inv => CopiesAgree
  <2> SUFFICES ASSUME Inv, open, kept, mon # Nothing
               PROVE  LET same(d) == d.hits = mon.hits /\ d.stop >= mon.stop
                                     /\ (d.stop = mon.stop \/ mon.stop = mon.initial)
                      IN /\ row # Nothing => same(row)
                         /\ wm # Nothing /\ wm.ours => same(wm) /\ Derived(wm) = mon.phase
    BY DEF CopiesAgree
  <2>1. PICK r \in Row : Tale(mon, wm, row, r)
    BY DEF Inv, Story
  <2>2. MonitorStory(mon, r) /\ mon.stop \in Int
    BY <2>1, TaleStops DEF Inv, Tale
  <2>3. r.hits = mon.hits /\ r.stop >= mon.stop /\ (r.stop = mon.stop \/ mon.stop = mon.initial)
    <3>1. CASE mon.stop = r.stop
      BY <2>2, <3>1 DEF MonitorStory
    <3>2. CASE mon.stop = mon.initial /\ mon.stop = LocalStop /\ r.stop \in SignalStops
      <4>1. r.stop >= LocalStop
        BY <3>2, StopsKnown
      <4> QED
        BY <2>2, <3>2, <4>1 DEF MonitorStory
    <3> QED
      BY <2>2, <3>1, <3>2 DEF MonitorStory, Fixed
  <2>4. ASSUME wm # Nothing, wm.ours
        PROVE  /\ wm.hits = mon.hits /\ wm.stop >= mon.stop /\ Derived(wm) = mon.phase
               /\ wm.stop = mon.stop \/ mon.stop = mon.initial
    <3>1. WatermarkStory(wm, r) /\ SameStop(wm, mon)
      BY <2>1, <2>4 DEF Tale
    <3>2. wm.hits = mon.hits /\ Derived(wm) = mon.phase
      BY <2>2, <3>1 DEF WatermarkStory, MonitorStory
    <3>3. CASE wm.stop = mon.stop
      BY <2>2, <3>2, <3>3
    <3>4. CASE mon.stop = mon.initial /\ mon.stop = LocalStop /\ wm.stop \in SignalStops
      <4>1. wm.stop >= LocalStop
        BY <3>4, StopsKnown
      <4> QED
        BY <3>2, <3>4, <4>1
    <3> QED
      BY <3>1, <3>3, <3>4 DEF SameStop, Fixed
  <2>5. row # Nothing => row = r
    BY <2>1 DEF Tale
  <2> QED
    BY <2>3, <2>4, <2>5
<1> QED
  BY <1>1, Inductive, PTL

\* Breakeven, trailing, take profit, re-adoption, crash and orderly shutdown never loosen
\* a stop that the monitor has set or the row has, but for the signal's stop that the
\* monitor has not used (_trigger_breakeven, _update_trailing, _persist_sl_to_db, stop).
THEOREM StopKept == Spec => StopNeverLoosened
<1>1. Inv /\ [Next]_vars => [NotLoosened]_vars
  BY NextStory DEF Inv
<1>2. Spec => [][Next]_vars
  BY DEF Spec
<1> QED
  BY <1>1, <1>2, Inductive, PTL DEF StopNeverLoosened, NotLoosened, Tightened
================================================================================
