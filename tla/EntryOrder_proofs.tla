---------------------------- MODULE EntryOrder_proofs ----------------------------
(***************************************************************************)
(* Proofs about EntryOrder, for every quantity, number of attempts and     *)
(* bound on faults.  Three invariants that build on each other: what is    *)
(* counted as bought really is (Held); without faults one thread at a time *)
(* has at most one limit order in the book (Quiet); and without faults the *)
(* first attempt accounts for every lot (Exact).                           *)
(***************************************************************************)
EXTENDS EntryOrder, TLAPS

CountedIsBought ==
    /\ \A a \in Attempts, c \in Copies : gtx[a][c].filled <= bought
    /\ \A a \in Attempts : executed[a] <= bought

Held ==
    /\ CountedIsBought
    /\ entry = "waiting" => remaining = Quantity
    /\ entry = "market" => remaining + bought >= Quantity
    /\ EnteredIsHeld

Quiet ==
    faults = 0 =>
        \A a \in Attempts :
            /\ gtx[a][2].status # "open"
            /\ gtx[a][1].status = "open" => step[a] \in {"poll", "cancel"}
            /\ step[a] \notin {"idle", "done"} => a = attempt /\ entry = "waiting"

Exact ==
    faults = 0 /\ attempt = 1 =>
        /\ entry \in {"idle", "ready"} => step[1] = "idle"
        /\ entry \in {"idle", "ready", "waiting"} => bought = gtx[1][1].filled
        /\ step[1] \in {"idle", "place"} => gtx[1][1].filled = 0
        /\ step[1] = "done" => executed[1] = gtx[1][1].filled
        /\ step[1] # "done" => executed[1] = 0
        /\ entry = "market" => bought + remaining = Quantity
        /\ entry \in {"bought", "entered"} => bought = Quantity

IInv == TypeOK /\ Held /\ Quiet /\ Exact

USE QuantityAssumption, MaxAttemptsAssumption, OrderTypesAssumption, MaxFaultsAssumption

--------------------------------------------------------------------------------
\* A limit order that is placed, cancelled, expired or filled further is a limit
\* order.
LEMMA LimitOrders ==
  /\ NoOrder \in LimitOrder /\ NoOrder.filled = 0 /\ NoOrder.status = "none"
  /\ OpenOrder \in LimitOrder /\ OpenOrder.filled = 0 /\ OpenOrder.status = "open"
BY DEF LimitOrder, NoOrder, OpenOrder

LEMMA LimitOrderFields ==
  ASSUME NEW o \in LimitOrder
  PROVE  /\ o.filled \in 0 .. Quantity
         /\ o.status \in {"none", "open", "filled", "expired", "cancelled"}
         /\ o.status = "filled" <=> o.filled = Quantity
BY DEF LimitOrder

LEMMA LimitOrderLeaves ==
  ASSUME NEW o \in LimitOrder, o.status = "open"
  PROVE  /\ [o EXCEPT !.status = "cancelled"] \in LimitOrder
         /\ o.filled = 0 => [o EXCEPT !.status = "expired"] \in LimitOrder
BY DEF LimitOrder

LEMMA LimitOrderFills ==
  ASSUME NEW o \in LimitOrder, NEW q \in 1 .. Quantity - o.filled
  PROVE  [status |-> IF o.filled + q = Quantity THEN "filled" ELSE "open",
          filled |-> o.filled + q] \in LimitOrder
<1>1. o.filled + q \in 1 .. Quantity
  BY LimitOrderFields
<1>2. CASE o.filled + q = Quantity
  BY <1>1, <1>2 DEF LimitOrder
<1>3. CASE o.filled + q # Quantity
  BY <1>1, <1>3 DEF LimitOrder
<1> QED
  BY <1>2, <1>3

\* What a delivery costs, and when it costs nothing.
LEMMA DeliveryCosts ==
  ASSUME NEW d \in Deliveries
  PROVE  /\ d.copies \in 0 .. 2
         /\ d.answer \in {"accepted", "refused", "none"}
         /\ Lost(d) \in 0 .. 2
         /\ d.answer = "accepted" => d.copies > 0
         /\ Lost(d) = 0 =>
              \/ d.answer = "accepted" /\ d.copies = 1
              \/ d.answer = "refused" /\ d.copies = 0
BY DEF Deliveries, Lost, Tries

LEMMA InitInv == Init => IInv
<1> SUFFICES ASSUME Init PROVE IInv
  OBVIOUS
<1>1. TypeOK
  BY LimitOrders DEF Init, TypeOK, Attempts
<1>2. \A a \in Attempts, c \in Copies : gtx[a][c] = NoOrder
  BY DEF Init
<1>3. 1 \in Attempts /\ 1 \in Copies /\ 2 \in Copies
  BY DEF Attempts, Copies
<1>4. Held
  BY <1>2, LimitOrders DEF Init, Held, CountedIsBought, EnteredIsHeld
<1>5. Quiet
  BY <1>2, <1>3, LimitOrders DEF Init, Quiet
<1>6. Exact
  BY <1>2, <1>3, LimitOrders DEF Init, Exact
<1> QED
  BY <1>1, <1>4, <1>5, <1>6 DEF IInv

--------------------------------------------------------------------------------
LEMMA TypeStep == TypeOK /\ [Next]_vars => TypeOK'
<1> SUFFICES ASSUME TypeOK, [Next]_vars PROVE TypeOK'
  OBVIOUS
<1> USE DEF TypeOK
<1>1. CASE Trigger
  BY <1>1 DEF Trigger, threadVars
<1>2. CASE Begin
  BY <1>2 DEF Begin
<1>3. CASE TakeResult
  <2>1. executed[attempt] \in 0 .. Quantity
    OBVIOUS
  <2>2. remaining' \in 1 .. Quantity
    BY <1>3, <2>1 DEF TakeResult
  <2> QED
    BY <1>3, <2>2 DEF TakeResult, threadVars
<1>4. CASE GiveUpWaiting
  BY <1>4 DEF GiveUpWaiting, threadVars
<1>5. CASE SendMarket
  <2> PICK d \in Deliveries :
        /\ Send(d)
        /\ bought' = bought + d.copies * remaining
        /\ \/ /\ d.answer = "accepted"
              /\ entry' = "bought"
              /\ UNCHANGED attempt
           \/ /\ d.answer # "accepted" /\ attempt < MaxAttempts
              /\ entry' = "ready"
              /\ attempt' = attempt + 1
           \/ /\ d.answer # "accepted" /\ attempt = MaxAttempts
              /\ entry' = "failed"
              /\ UNCHANGED attempt
    BY <1>5 DEF SendMarket
  <2>1. d.copies \in 0 .. 2 /\ Lost(d) \in 0 .. 2
    BY DeliveryCosts
  <2>2. bought' \in Nat
    <3>1. CASE d.copies = 0
      BY <3>1
    <3>2. CASE d.copies = 1
      BY <3>2
    <3>3. CASE d.copies = 2
      BY <3>3
    <3> QED
      BY <2>1, <3>1, <3>2, <3>3
  <2>3. attempt' \in Attempts /\ faults' \in Nat
    BY <2>1 DEF Send, Attempts
  <2> QED
    BY <1>5, <2>2, <2>3 DEF SendMarket, threadVars
<1>6. CASE Protect
  BY <1>6 DEF Protect, BackupStop, threadVars
<1>7. ASSUME NEW a \in Attempts, Place(a)
      PROVE  TypeOK'
  <2> PICK d \in Deliveries :
        /\ Send(d)
        /\ gtx' = [gtx EXCEPT ![a] =
                      [c \in Copies |-> IF c <= d.copies THEN OpenOrder ELSE NoOrder]]
        /\ step' = [step EXCEPT ![a] = IF d.answer = "accepted" THEN "poll" ELSE "done"]
    BY <1>7 DEF Place
  <2>1. faults' \in Nat
    BY DeliveryCosts DEF Send
  <2>2. gtx' \in [Attempts -> [Copies -> LimitOrder]]
    BY LimitOrders
  <2> QED
    BY <1>7, <2>1, <2>2 DEF Place, entryVars
<1>8. ASSUME NEW a \in Attempts, Poll(a) \/ EndPolling(a) \/ Confirm(a)
      PROVE  TypeOK'
  <2>1. gtx[a][1] \in LimitOrder
    BY DEF Copies
  <2>2. gtx[a][1].filled \in 0 .. Quantity
    BY <2>1, LimitOrderFields
  <2>3. faults' \in Nat
    BY <1>8 DEF Poll, EndPolling, Confirm, Unanswered, Tries
  <2>4. executed' \in [Attempts -> 0 .. Quantity]
    BY <1>8, <2>2 DEF Poll, EndPolling, Confirm
  <2>5. UNCHANGED <<orderType, entry, attempt, remaining, stop, gtx, bought>>
    BY <1>8 DEF Poll, EndPolling, Confirm, entryVars
  <2>6. step' \in [Attempts -> {"idle", "place", "poll", "cancel", "confirm", "done"}]
    BY <1>8 DEF Poll, EndPolling, Confirm
  <2> QED
    BY <2>3, <2>4, <2>5, <2>6
<1>9. ASSUME NEW a \in Attempts, Cancel(a)
      PROVE  TypeOK'
  <2>1. gtx[a][1] \in LimitOrder /\ 1 \in Copies
    BY DEF Copies
  <2>2. gtx[a][1].status = "open" => [gtx[a][1] EXCEPT !.status = "cancelled"] \in LimitOrder
    BY <2>1, LimitOrderLeaves
  <2>3. gtx' \in [Attempts -> [Copies -> LimitOrder]]
    <3>1. CASE UNCHANGED gtx
      BY <3>1
    <3>2. CASE /\ gtx[a][1].status = "open"
               /\ gtx' = [gtx EXCEPT ![a][1].status = "cancelled"]
      BY <2>1, <2>2, <3>2
    <3> QED
      BY <1>9, <3>1, <3>2 DEF Cancel
  <2>4. faults' \in Nat
    BY <1>9 DEF Cancel, Unanswered, Tries
  <2>5. UNCHANGED <<orderType, entry, attempt, remaining, stop, executed, bought>>
    BY <1>9 DEF Cancel, entryVars
  <2>6. step' \in [Attempts -> {"idle", "place", "poll", "cancel", "confirm", "done"}]
    BY <1>9 DEF Cancel
  <2> QED
    BY <2>3, <2>4, <2>5, <2>6
<1>10. ASSUME NEW a \in Attempts, NEW c \in Copies, Fill(a, c)
       PROVE  TypeOK'
  <2>1. gtx[a][c] \in LimitOrder /\ gtx[a][c].filled \in 0 .. Quantity
    BY LimitOrderFields
  <2> PICK q \in 1 .. Quantity - gtx[a][c].filled :
        /\ gtx' = [gtx EXCEPT ![a][c] =
              [status |-> IF @.filled + q = Quantity THEN "filled" ELSE "open",
               filled |-> @.filled + q]]
        /\ bought' = bought + q
    BY <1>10 DEF Fill
  <2>2. [status |-> IF gtx[a][c].filled + q = Quantity THEN "filled" ELSE "open",
         filled |-> gtx[a][c].filled + q] \in LimitOrder
    BY <2>1, LimitOrderFills
  <2>3. gtx' \in [Attempts -> [Copies -> LimitOrder]] /\ bought' \in Nat
    BY <2>1, <2>2
  <2> QED
    BY <1>10, <2>3 DEF Fill, entryVars, threadVars
<1>11. ASSUME NEW a \in Attempts, NEW c \in Copies, Expire(a, c)
       PROVE  TypeOK'
  <2>1. [gtx[a][c] EXCEPT !.status = "expired"] \in LimitOrder
    BY <1>11, LimitOrders, LimitOrderLeaves DEF Expire
  <2>2. gtx' \in [Attempts -> [Copies -> LimitOrder]]
    BY <1>11, <2>1 DEF Expire
  <2> QED
    BY <1>11, <2>2 DEF Expire, entryVars, threadVars
<1>12. CASE UNCHANGED vars
  BY <1>12 DEF vars
<1> QED
  BY <1>1, <1>2, <1>3, <1>4, <1>5, <1>6, <1>7, <1>8, <1>9, <1>10, <1>11, <1>12
  DEF Next, Entry, Thread, Exchange

--------------------------------------------------------------------------------
LEMMA MoreIsEnough ==
  \A r, m, n \in Nat : n >= m => (r + m >= Quantity => r + n >= Quantity)
OBVIOUS

\* A step after which no less is bought, and that counts nothing new, keeps Held.
LEMMA HeldStutters ==
  ASSUME TypeOK, TypeOK', Held, bought' >= bought, entry' = entry, stop' = stop,
         remaining' = remaining, CountedIsBought'
  PROVE  Held'
<1>1. bought \in Nat /\ bought' \in Nat /\ remaining \in Nat /\ Quantity \in Nat
  BY DEF TypeOK
<1>2. EnteredIsHeld'
  BY <1>1 DEF TypeOK, Held, EnteredIsHeld
<1>3. /\ entry = "waiting" => remaining = Quantity
      /\ entry = "market" => remaining + bought >= Quantity
  BY DEF Held
<1>4. remaining + bought >= Quantity => remaining + bought' >= Quantity
  BY <1>1, MoreIsEnough, Zenon
<1> QED
  BY <1>2, <1>3, <1>4 DEF Held

LEMMA HeldStep == TypeOK /\ TypeOK' /\ Held /\ [Next]_vars => Held'
<1> SUFFICES ASSUME TypeOK, TypeOK', Held, [Next]_vars PROVE Held'
  OBVIOUS
<1>a. bought \in Nat /\ bought' \in Nat
  BY DEF TypeOK
<1>b. \A a \in Attempts, c \in Copies :
        gtx[a][c] \in LimitOrder /\ gtx[a][c].filled \in 0 .. Quantity
  BY LimitOrderFields DEF TypeOK
<1>1. CASE Trigger \/ Begin \/ GiveUpWaiting
  <2>1. /\ UNCHANGED <<gtx, bought, executed, stop>>
        /\ entry' \notin {"bought", "entered"}
        /\ entry' \in {"waiting", "market"} =>
              remaining' = Quantity \/ (entry = "waiting" /\ UNCHANGED remaining)
    BY <1>1 DEF Trigger, Begin, GiveUpWaiting, threadVars
  <2>2. EnteredIsHeld'
    BY <2>1 DEF Held, CountedIsBought, EnteredIsHeld
  <2>3. (/\ entry = "waiting" => remaining = Quantity
         /\ entry = "market" => remaining + bought >= Quantity)'
    <3>1. entry' \in {"waiting", "market"} => remaining' = Quantity
      BY <2>1 DEF Held, CountedIsBought
    <3> QED
      BY <1>a, <3>1
  <2> QED
    BY <2>1, <2>2, <2>3 DEF Held, CountedIsBought
<1>2. CASE TakeResult
  <2>1. executed[attempt] \in 0 .. Quantity /\ executed[attempt] <= bought
    BY DEF TypeOK, Held, CountedIsBought
  <2>2. UNCHANGED <<gtx, bought, executed, stop>>
    BY <1>2 DEF TakeResult, threadVars
  <2>3. \/ entry' = "bought" /\ executed[attempt] = Quantity
        \/ entry' = "market" /\ remaining' = Quantity - executed[attempt]
    BY <1>2 DEF TakeResult
  <2>4. EnteredIsHeld'
    BY <1>a, <2>1, <2>2, <2>3 DEF Held, CountedIsBought, EnteredIsHeld
  <2>5. entry' = "market" => remaining' + bought' >= Quantity
    BY <1>a, <2>1, <2>2, <2>3
  <2>6. entry' # "waiting"
    BY <2>3
  <2> QED
    BY <2>2, <2>4, <2>5, <2>6 DEF Held, CountedIsBought
<1>3. CASE SendMarket
  <2> PICK d \in Deliveries :
        /\ bought' = bought + d.copies * remaining
        /\ entry' = "bought" => d.answer = "accepted"
        /\ entry' \in {"bought", "ready", "failed"}
    BY <1>3 DEF SendMarket
  <2>1. d.copies \in 0 .. 2 /\ (d.answer = "accepted" => d.copies > 0)
    BY DeliveryCosts
  <2>2. remaining \in 1 .. Quantity /\ remaining + bought >= Quantity /\ stop <= bought
    BY <1>3 DEF SendMarket, TypeOK, Held, CountedIsBought, EnteredIsHeld
  <2>3. bought' >= bought /\ (d.copies > 0 => bought' >= bought + remaining)
    <3>1. CASE d.copies = 0
      BY <1>a, <2>2, <3>1
    <3>2. CASE d.copies = 1
      BY <1>a, <2>2, <3>2
    <3>3. CASE d.copies = 2
      BY <1>a, <2>2, <3>3
    <3> QED
      BY <2>1, <3>1, <3>2, <3>3
  <2>4. UNCHANGED <<gtx, executed, stop>>
    BY <1>3 DEF SendMarket, threadVars
  <2>5. EnteredIsHeld'
    BY <1>a, <2>1, <2>2, <2>3, <2>4 DEF EnteredIsHeld, TypeOK
  <2>6. \A a \in Attempts, c \in Copies : gtx'[a][c].filled <= bought'
    BY <1>a, <1>b, <2>3, <2>4 DEF Held, CountedIsBought
  <2>7. \A a \in Attempts : executed'[a] <= bought'
    BY <1>a, <2>3, <2>4 DEF Held, CountedIsBought, TypeOK
  <2> QED
    BY <2>5, <2>6, <2>7 DEF Held, CountedIsBought
<1>4. CASE Protect
  BY <1>4, <1>a DEF Protect, BackupStop, Held, CountedIsBought, EnteredIsHeld, TypeOK, threadVars
<1>5. ASSUME NEW a \in Attempts, Thread(a)
      PROVE  Held'
  <2>1. UNCHANGED <<entry, stop, remaining, bought>>
    BY <1>5 DEF Thread, Place, Poll, EndPolling, Cancel, Confirm, entryVars
  <2>2. \A b \in Attempts, c \in Copies : gtx'[b][c].filled <= bought
    <3>1. CASE Place(a)
      BY <3>1, <1>a, LimitOrders DEF Place, Held, CountedIsBought, TypeOK
    <3>2. CASE Cancel(a)
      <4>1. \A b \in Attempts, c \in Copies : gtx'[b][c].filled = gtx[b][c].filled
        <5>1. CASE UNCHANGED gtx
          BY <5>1
        <5>2. CASE gtx' = [gtx EXCEPT ![a][1].status = "cancelled"]
          BY <5>2, <1>b DEF TypeOK, LimitOrder
        <5> QED
          BY <3>2, <5>1, <5>2 DEF Cancel
      <4> QED
        BY <4>1 DEF Held, CountedIsBought
    <3>3. CASE UNCHANGED gtx
      BY <3>3 DEF Held, CountedIsBought
    <3> QED
      BY <1>5, <3>1, <3>2, <3>3 DEF Thread, Poll, EndPolling, Confirm
  <2>3. \A b \in Attempts : executed'[b] <= bought
    <3>1. CASE executed' = [executed EXCEPT ![a] = gtx[a][1].filled]
      BY <3>1, 1 \in Copies DEF Held, CountedIsBought, TypeOK, Copies
    <3>2. CASE UNCHANGED executed
      BY <3>2 DEF Held, CountedIsBought
    <3> QED
      BY <1>5, <3>1, <3>2 DEF Thread, Place, Poll, EndPolling, Cancel, Confirm
  <2> QED
    BY <1>a, <2>1, <2>2, <2>3, HeldStutters DEF CountedIsBought
<1>6. ASSUME NEW a \in Attempts, NEW c \in Copies, Fill(a, c)
      PROVE  Held'
  <2> PICK q \in 1 .. Quantity - gtx[a][c].filled :
        /\ gtx' = [gtx EXCEPT ![a][c] =
              [status |-> IF @.filled + q = Quantity THEN "filled" ELSE "open",
               filled |-> @.filled + q]]
        /\ bought' = bought + q
    BY <1>6 DEF Fill
  <2>1. UNCHANGED <<entry, stop, remaining, executed>>
    BY <1>6 DEF Fill, entryVars, threadVars
  <2>2. q \in Nat /\ gtx'[a][c].filled = gtx[a][c].filled + q
    BY <1>b DEF TypeOK
  <2>3. \A b \in Attempts, k \in Copies :
          <<b, k>> # <<a, c>> => gtx'[b][k] = gtx[b][k]
    BY DEF TypeOK
  <2>4. \A b \in Attempts, k \in Copies : gtx'[b][k].filled <= bought'
    <3> SUFFICES ASSUME NEW b \in Attempts, NEW k \in Copies
                 PROVE  gtx'[b][k].filled <= bought'
      OBVIOUS
    <3>1. gtx[b][k].filled \in 0 .. Quantity /\ gtx[b][k].filled <= bought
      BY <1>b DEF Held, CountedIsBought
    <3>2. CASE <<b, k>> = <<a, c>>
      BY <1>a, <2>2, <3>1, <3>2
    <3>3. CASE <<b, k>> # <<a, c>>
      BY <1>a, <2>2, <2>3, <3>1, <3>3
    <3> QED
      BY <3>2, <3>3
  <2>5. \A b \in Attempts : executed'[b] <= bought'
    BY <1>a, <2>1, <2>2 DEF Held, CountedIsBought, TypeOK
  <2>6. bought' >= bought
    BY <1>a, <2>2
  <2> QED
    BY <2>1, <2>4, <2>5, <2>6, HeldStutters DEF CountedIsBought
<1>7. ASSUME NEW a \in Attempts, NEW c \in Copies, Expire(a, c)
      PROVE  Held'
  <2>1. UNCHANGED <<entry, stop, remaining, executed, bought>>
    BY <1>7 DEF Expire, entryVars, threadVars
  <2>2. \A b \in Attempts, k \in Copies : gtx'[b][k].filled = gtx[b][k].filled
    BY <1>7, <1>b DEF Expire, TypeOK, LimitOrder
  <2> QED
    BY <1>a, <2>1, <2>2, HeldStutters DEF Held, CountedIsBought
<1>8. CASE UNCHANGED vars
  BY <1>8, <1>a, HeldStutters DEF vars, Held, CountedIsBought
<1> QED
  BY <1>1, <1>2, <1>3, <1>4, <1>5, <1>6, <1>7, <1>8 DEF Next, Entry, Exchange

--------------------------------------------------------------------------------
\* A delivery that costs no fault, in a state without faults, is one order made
\* and accepted, or none made and the request refused.
LEMMA QuietDelivery ==
  ASSUME NEW d \in Deliveries, Send(d), faults \in Nat, faults' = 0
  PROVE  /\ faults = 0
         /\ \/ d.answer = "accepted" /\ d.copies = 1
            \/ d.answer = "refused" /\ d.copies = 0
<1>1. Lost(d) \in 0 .. 2 /\ faults' = faults + Lost(d)
  BY DeliveryCosts DEF Send
<1>2. faults = 0 /\ Lost(d) = 0
  BY <1>1
<1> QED
  BY <1>2, DeliveryCosts

\* Faults are not taken back.
LEMMA FaultsStay ==
  ASSUME TypeOK, [Next]_vars, faults' = 0
  PROVE  faults = 0
<1>a. faults \in Nat
  BY DEF TypeOK
<1>1. CASE SendMarket \/ \E a \in Attempts : Place(a)
  BY <1>1, <1>a, QuietDelivery DEF SendMarket, Place
<1>2. CASE \E a \in Attempts : Cancel(a) \/ Confirm(a)
  BY <1>2, <1>a DEF Cancel, Confirm, Unanswered, Tries
<1>3. CASE GiveUpWaiting
  BY <1>3, <1>a DEF GiveUpWaiting
<1>4. CASE UNCHANGED faults
  BY <1>4
<1> QED
  BY <1>1, <1>2, <1>3, <1>4
  DEF Next, Entry, Thread, Exchange, Trigger, Begin, TakeResult, Protect, Poll,
      EndPolling, Fill, Expire, vars

LEMMA QuietStep == TypeOK /\ TypeOK' /\ Quiet /\ [Next]_vars => Quiet'
<1> SUFFICES ASSUME TypeOK, TypeOK', Quiet, [Next]_vars, faults' = 0,
                    NEW a \in Attempts
             PROVE  (/\ gtx[a][2].status # "open"
                     /\ gtx[a][1].status = "open" => step[a] \in {"poll", "cancel"}
                     /\ step[a] \notin {"idle", "done"} => a = attempt /\ entry = "waiting")'
  BY DEF Quiet
<1>a. faults = 0
  BY FaultsStay
<1>b. /\ gtx[a][2].status # "open"
      /\ gtx[a][1].status = "open" => step[a] \in {"poll", "cancel"}
      /\ step[a] \notin {"idle", "done"} => a = attempt /\ entry = "waiting"
  BY <1>a DEF Quiet
<1>c. 1 \in Copies /\ 2 \in Copies
  BY DEF Copies
<1>1. CASE Trigger \/ TakeResult \/ SendMarket \/ Protect
  <2>1. UNCHANGED <<step, gtx>>
    BY <1>1 DEF Trigger, TakeResult, SendMarket, Protect, threadVars
  <2>2. step[a] \in {"idle", "done"}
    BY <1>1, <1>b DEF Trigger, TakeResult, SendMarket, Protect
  <2> QED
    BY <2>1, <2>2, <1>b
<1>2. CASE Begin
  <2>1. step[a] \in {"idle", "done"} /\ gtx[a][1].status # "open"
    BY <1>2, <1>b DEF Begin
  <2>2. UNCHANGED <<gtx, attempt>>
    BY <1>2 DEF Begin
  <2>3. step'[a] \notin {"idle", "done"} => a = attempt /\ entry' = "waiting"
    BY <1>2, <2>1 DEF Begin, TypeOK
  <2> QED
    BY <1>b, <2>1, <2>2, <2>3
<1>3. CASE GiveUpWaiting
  BY <1>3, <1>a DEF GiveUpWaiting
<1>4. ASSUME NEW b \in Attempts, Thread(b)
      PROVE  (/\ gtx[a][2].status # "open"
              /\ gtx[a][1].status = "open" => step[a] \in {"poll", "cancel"}
              /\ step[a] \notin {"idle", "done"} => a = attempt /\ entry = "waiting")'
  <2>1. UNCHANGED <<attempt, entry>>
    BY <1>4 DEF Thread, Place, Poll, EndPolling, Cancel, Confirm, entryVars
  <2>2. CASE a # b
    <3>1. step'[a] = step[a] /\ gtx'[a] = gtx[a]
      BY <1>4, <2>2 DEF Thread, Place, Poll, EndPolling, Cancel, Confirm, TypeOK
    <3> QED
      BY <1>b, <2>1, <3>1
  <2>3. CASE a = b
    <3>1. step[a] \notin {"idle", "done"}
      BY <1>4, <2>3 DEF Thread, Place, Poll, EndPolling, Cancel, Confirm
    <3>2. a = attempt' /\ entry' = "waiting"
      BY <1>b, <2>1, <3>1
    <3>3. gtx'[a][2].status # "open"
          /\ (gtx'[a][1].status = "open" => step'[a] \in {"poll", "cancel"})
      <4>1. CASE Place(a)
        <5> PICK d \in Deliveries :
              /\ Send(d)
              /\ gtx' = [gtx EXCEPT ![a] =
                            [c \in Copies |-> IF c <= d.copies THEN OpenOrder ELSE NoOrder]]
              /\ step' = [step EXCEPT ![a] = IF d.answer = "accepted" THEN "poll" ELSE "done"]
          BY <4>1 DEF Place
        <5>1. \/ d.answer = "accepted" /\ d.copies = 1
              \/ d.answer = "refused" /\ d.copies = 0
          BY QuietDelivery DEF TypeOK
        <5>2. gtx'[a] = [c \in Copies |-> IF c <= d.copies THEN OpenOrder ELSE NoOrder]
          BY DEF TypeOK
        <5>3. step'[a] = IF d.answer = "accepted" THEN "poll" ELSE "done"
          BY DEF TypeOK
        <5> QED
          BY <1>c, <5>1, <5>2, <5>3, LimitOrders
      <4>2. CASE Poll(a)
        BY <4>2, <1>b DEF Poll, TypeOK
      <4>3. CASE EndPolling(a)
        BY <4>3, <1>b DEF EndPolling, TypeOK
      <4>4. CASE Cancel(a)
        <5>1. ~Unanswered
          BY <1>a DEF Unanswered, Tries
        <5>2. CASE gtx[a][1].status = "open"
          <6>1. gtx' = [gtx EXCEPT ![a][1].status = "cancelled"]
            BY <4>4, <5>1, <5>2 DEF Cancel
          <6> QED
            BY <1>b, <1>c, <6>1 DEF TypeOK, LimitOrder
        <5>3. CASE gtx[a][1].status # "open"
          BY <4>4, <5>1, <5>3, <1>b DEF Cancel
        <5> QED
          BY <5>2, <5>3
      <4>5. CASE Confirm(a)
        BY <4>5, <1>b DEF Confirm
      <4> QED
        BY <1>4, <2>3, <4>1, <4>2, <4>3, <4>4, <4>5 DEF Thread
    <3> QED
      BY <3>2, <3>3
  <2> QED
    BY <2>2, <2>3
<1>5. ASSUME NEW b \in Attempts, NEW c \in Copies, Fill(b, c) \/ Expire(b, c)
      PROVE  (/\ gtx[a][2].status # "open"
              /\ gtx[a][1].status = "open" => step[a] \in {"poll", "cancel"}
              /\ step[a] \notin {"idle", "done"} => a = attempt /\ entry = "waiting")'
  <2>1. UNCHANGED <<attempt, entry, step>>
    BY <1>5 DEF Fill, Expire, entryVars, threadVars
  <2>2. gtx[b][c].status = "open"
    BY <1>5, LimitOrders DEF Fill, Expire
  <2>3. \A k \in Copies : gtx'[a][k].status = "open" => gtx[a][k].status = "open"
    <3> SUFFICES ASSUME NEW k \in Copies, <<a, k>> # <<b, c>>
                 PROVE  gtx'[a][k] = gtx[a][k]
      BY <2>2
    <3> QED
      BY <1>5 DEF Fill, Expire, TypeOK
  <2> QED
    BY <1>b, <1>c, <2>1, <2>3
<1>6. CASE UNCHANGED vars
  BY <1>6, <1>b DEF vars
<1> QED
  BY <1>1, <1>2, <1>3, <1>4, <1>5, <1>6 DEF Next, Entry, Exchange

--------------------------------------------------------------------------------
\* Without faults only the thread the entry waits for has work to do, and only
\* its order can be in the book.
LEMMA OneThread ==
  ASSUME TypeOK, Quiet, faults = 0, NEW a \in Attempts
  PROVE  /\ step[a] \notin {"idle", "done"} => a = attempt /\ entry = "waiting"
         /\ \A c \in Copies : gtx[a][c].status = "open" =>
              a = attempt /\ c = 1 /\ entry = "waiting" /\ step[a] \in {"poll", "cancel"}
<1>1. /\ gtx[a][2].status # "open"
      /\ gtx[a][1].status = "open" => step[a] \in {"poll", "cancel"}
      /\ step[a] \notin {"idle", "done"} => a = attempt /\ entry = "waiting"
  BY DEF Quiet
<1> QED
  BY <1>1 DEF Copies

LEMMA ExactStep == TypeOK /\ TypeOK' /\ Quiet /\ Exact /\ [Next]_vars => Exact'
<1> DEFINE Counted ==
        /\ entry \in {"idle", "ready"} => step[1] = "idle"
        /\ entry \in {"idle", "ready", "waiting"} => bought = gtx[1][1].filled
        /\ step[1] \in {"idle", "place"} => gtx[1][1].filled = 0
        /\ step[1] = "done" => executed[1] = gtx[1][1].filled
        /\ step[1] # "done" => executed[1] = 0
        /\ entry = "market" => bought + remaining = Quantity
        /\ entry \in {"bought", "entered"} => bought = Quantity
<1> SUFFICES ASSUME TypeOK, TypeOK', Quiet, Exact, [Next]_vars, faults' = 0, attempt' = 1
             PROVE  Counted'
  BY DEF Exact
<1>a. faults = 0
  BY FaultsStay
<1>b. attempt = 1
  <2>1. UNCHANGED attempt \/ attempt' = attempt + 1
    BY DEF Next, Entry, Thread, Exchange, Trigger, Begin, TakeResult, GiveUpWaiting,
           SendMarket, Protect, Place, Poll, EndPolling, Cancel, Confirm, Fill, Expire,
           entryVars, vars
  <2> QED
    BY <2>1 DEF TypeOK, Attempts
<1>c. Counted
  BY <1>a, <1>b DEF Exact
<1>d. /\ 1 \in Attempts /\ 1 \in Copies /\ bought \in Nat
      /\ gtx[1][1] \in LimitOrder /\ gtx[1][1].filled \in 0 .. Quantity
      /\ executed[1] \in 0 .. Quantity /\ remaining \in 1 .. Quantity
  BY LimitOrderFields DEF TypeOK, Attempts, Copies
<1>1. CASE Trigger
  BY <1>1, <1>c DEF Trigger, threadVars
<1>2. CASE Begin
  <2>1. bought = 0 /\ gtx[1][1].filled = 0 /\ executed[1] = 0
    BY <1>2, <1>c DEF Begin
  <2>2. UNCHANGED <<gtx, bought, executed>> /\ remaining' = Quantity
    BY <1>2 DEF Begin
  <2>3. \/ entry' = "waiting" /\ step'[1] = "place"
        \/ entry' = "market" /\ step'[1] = "idle"
    BY <1>2, <1>b, <1>c, <1>d DEF Begin, TypeOK
  <2> QED
    BY <2>1, <2>2, <2>3
<1>3. CASE TakeResult
  <2>1. bought = executed[1] /\ step[1] = "done"
    BY <1>3, <1>b, <1>c DEF TakeResult
  <2>2. \/ entry' = "bought" /\ executed[1] = Quantity
        \/ entry' = "market" /\ remaining' = Quantity - executed[1]
    BY <1>3, <1>b DEF TakeResult
  <2>3. UNCHANGED <<step, executed, gtx, bought>>
    BY <1>3 DEF TakeResult, threadVars
  <2> QED
    BY <1>c, <1>d, <2>1, <2>2, <2>3
<1>4. CASE GiveUpWaiting
  BY <1>4, <1>a DEF GiveUpWaiting
<1>5. CASE SendMarket
  <2> PICK d \in Deliveries :
        /\ Send(d)
        /\ bought' = bought + d.copies * remaining
        /\ \/ d.answer = "accepted" /\ entry' = "bought"
           \/ d.answer # "accepted" /\ attempt' = attempt + 1
           \/ d.answer # "accepted" /\ entry' = "failed"
    BY <1>5 DEF SendMarket
  <2>1. \/ d.answer = "accepted" /\ d.copies = 1
        \/ d.answer = "refused" /\ d.copies = 0
    BY QuietDelivery DEF TypeOK
  <2>2. bought + remaining = Quantity
    BY <1>5, <1>c DEF SendMarket
  <2>3. \/ entry' = "bought" /\ bought' = Quantity
        \/ entry' = "failed"
    BY <1>b, <1>d, <2>1, <2>2
  <2>4. UNCHANGED <<step, executed, gtx>>
    BY <1>5 DEF SendMarket, threadVars
  <2> QED
    BY <1>c, <2>3, <2>4
<1>6. CASE Protect
  BY <1>6, <1>c DEF Protect, threadVars
<1>7. ASSUME NEW a \in Attempts, Thread(a)
      PROVE  Counted'
  <2>1. a = 1 /\ entry = "waiting" /\ UNCHANGED <<entry, bought>>
    <3>1. step[a] \notin {"idle", "done"}
      BY <1>7 DEF Thread, Place, Poll, EndPolling, Cancel, Confirm
    <3>2. UNCHANGED <<entry, bought>>
      BY <1>7 DEF Thread, Place, Poll, EndPolling, Cancel, Confirm, entryVars
    <3> QED
      BY <1>a, <1>b, <3>1, <3>2, OneThread
  <2>2. ~Unanswered
    BY <1>a DEF Unanswered, Tries
  <2>3. CASE Place(1)
    <3> PICK d \in Deliveries :
          /\ gtx' = [gtx EXCEPT ![1] =
                        [c \in Copies |-> IF c <= d.copies THEN OpenOrder ELSE NoOrder]]
          /\ step' = [step EXCEPT ![1] = IF d.answer = "accepted" THEN "poll" ELSE "done"]
      BY <2>3 DEF Place
    <3>1. gtx'[1][1].filled = 0
      BY <1>d, LimitOrders DEF TypeOK
    <3>2. step'[1] \in {"poll", "done"}
      BY <1>d DEF TypeOK
    <3>3. executed'[1] = 0 /\ bought = 0
      BY <1>c, <2>1, <2>3 DEF Place
    <3> QED
      BY <2>1, <3>1, <3>2, <3>3
  <2>4. CASE Poll(1)
    <3>1. executed'[1] = gtx[1][1].filled /\ step'[1] = "done" /\ UNCHANGED gtx
      BY <1>d, <2>4 DEF Poll, TypeOK
    <3> QED
      BY <1>c, <2>1, <3>1
  <2>5. CASE EndPolling(1)
    <3>1. step[1] = "poll" /\ step'[1] = "cancel" /\ UNCHANGED <<executed, gtx>>
      BY <1>d, <2>5 DEF EndPolling, TypeOK
    <3> QED
      BY <1>c, <2>1, <3>1
  <2>6. CASE Cancel(1)
    <3>1. step[1] = "cancel" /\ step'[1] = "confirm" /\ UNCHANGED executed
      BY <1>d, <2>6 DEF Cancel, TypeOK
    <3>2. gtx'[1][1].filled = gtx[1][1].filled
      <4>1. CASE gtx' = [gtx EXCEPT ![1][1].status = "cancelled"]
        BY <4>1, <1>d DEF TypeOK, LimitOrder
      <4>2. CASE UNCHANGED gtx
        BY <4>2
      <4> QED
        BY <2>2, <2>6, <4>1, <4>2 DEF Cancel
    <3> QED
      BY <1>c, <2>1, <3>1, <3>2
  <2>7. CASE Confirm(1)
    <3>1. executed'[1] = gtx[1][1].filled /\ step'[1] = "done" /\ UNCHANGED gtx
      BY <1>d, <2>2, <2>7 DEF Confirm, TypeOK
    <3> QED
      BY <1>c, <2>1, <3>1
  <2> QED
    BY <1>7, <2>1, <2>3, <2>4, <2>5, <2>6, <2>7 DEF Thread
<1>8. ASSUME NEW a \in Attempts, NEW c \in Copies, Fill(a, c)
      PROVE  Counted'
  <2>1. a = 1 /\ c = 1 /\ entry = "waiting" /\ step[1] \in {"poll", "cancel"}
    BY <1>8, <1>a, <1>b, OneThread DEF Fill
  <2> PICK q \in 1 .. Quantity - gtx[1][1].filled :
        /\ gtx' = [gtx EXCEPT ![1][1] =
              [status |-> IF @.filled + q = Quantity THEN "filled" ELSE "open",
               filled |-> @.filled + q]]
        /\ bought' = bought + q
    BY <1>8, <2>1 DEF Fill
  <2>2. gtx'[1][1].filled = gtx[1][1].filled + q
    BY <1>d DEF TypeOK
  <2>3. UNCHANGED <<entry, step, executed>>
    BY <1>8 DEF Fill, entryVars, threadVars
  <2> QED
    BY <1>c, <2>1, <2>2, <2>3
<1>9. ASSUME NEW a \in Attempts, NEW c \in Copies, Expire(a, c)
      PROVE  Counted'
  <2>1. a = 1 /\ c = 1
    BY <1>9, <1>a, <1>b, OneThread, LimitOrders DEF Expire
  <2>2. gtx'[1][1].filled = gtx[1][1].filled
    BY <1>9, <1>d, <2>1 DEF Expire, TypeOK, LimitOrder
  <2>3. UNCHANGED <<entry, remaining, step, executed, bought>>
    BY <1>9 DEF Expire, entryVars, threadVars
  <2> QED
    BY <1>c, <2>2, <2>3
<1>10. CASE UNCHANGED vars
  BY <1>10, <1>c DEF vars
<1> QED
  BY <1>1, <1>2, <1>3, <1>4, <1>5, <1>6, <1>7, <1>8, <1>9, <1>10 DEF Next, Entry, Exchange

--------------------------------------------------------------------------------
\* The entry, the threads and the orders stay within their types, and the three
\* invariants that account for what is bought hold throughout.
THEOREM Inductive == Spec => []IInv
<1>1. IInv /\ [Next]_vars => IInv'
  BY TypeStep, HeldStep, QuietStep, ExactStep DEF IInv
<1> QED
  BY <1>1, InitInv, PTL DEF Spec

\* The entry, the threads and the orders keep their types; the market order of
\* an attempt (remaining_qty) is never empty, whatever the thread returned.
THEOREM TypeCorrect == Spec => []TypeOK
<1>1. IInv => TypeOK
  BY DEF IInv
<1> QED
  BY <1>1, Inductive, PTL

\* Whatever requests are lost, repeated or late, an entry that is reported as made
\* is held in full, and the backup stop loss never exceeds the position.
THEOREM ReportedIsHeld == Spec => []EnteredIsHeld
<1>1. IInv => EnteredIsHeld
  BY DEF IInv, Held
<1> QED
  BY <1>1, Inductive, PTL

\* When every request is answered in time, no limit order outlives the wait of the
\* entry for it.
THEOREM NoneLeftOpen == Spec => []NothingLeftOpen
<1>1. IInv => NothingLeftOpen
  BY OneThread DEF IInv, NothingLeftOpen
<1> QED
  BY <1>1, Inductive, PTL

\* When every request is answered in time, a signal bought in the first attempt is
\* bought exactly, however fills race with polls and the cancellation.
THEOREM BoughtExactly == Spec => []ExactWhenAnswered
<1>1. IInv => ExactWhenAnswered
  BY DEF IInv, Exact, ExactWhenAnswered
<1> QED
  BY <1>1, Inductive, PTL
================================================================================
