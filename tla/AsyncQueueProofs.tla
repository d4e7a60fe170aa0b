-------------------------- MODULE AsyncQueueProofs --------------------------
(***************************************************************************)
(* Proofs about AsyncQueue, for any consumers and watchers and any number  *)
(* of items: it counts its items exactly, no item passes another or a      *)
(* consumer that waits, and it implements Fifo.                            *)
(*                                                                         *)
(* The invariants the runs check are not inductive by themselves:          *)
(* InOrder says where every item is.  The first Len(delivered) ones are    *)
(* out, the next Len(pending) ones are ready, and the rest is on its way   *)
(* through the chain.                                                      *)
(***************************************************************************)
EXTENDS AsyncQueue, SequenceTheorems, TLAPS

InOrder ==
  /\ Len(delivered) <= chained
  /\ chained <= pushed
  /\ \A n \in 1..Len(delivered) : delivered[n] = n
  /\ ~aborted => Len(delivered) + Len(pending) = chained
  /\ \A n \in 1..Len(pending) : pending[n] = Len(delivered) + n
  /\ aborted => pending = <<>>
  /\ \A i \in onAborted : i > Len(delivered)

(* The promises that wait are those in line, each once, and after an abort   *)
(* there are none: whoever waits is always resumed by it.                    *)
WaitersInLine ==
  /\ \A c \in Consumers :
       shifting[c] = "waiting" <=> \E n \in 1..Len(waiting) : waiting[n] = c
  /\ \A m, n \in 1..Len(waiting) : waiting[m] = waiting[n] => m = n
  /\ aborted => waiting = <<>> /\ \A w \in Watchers : watching[w] \notin Events

QueueInv ==
  /\ TypeOK
  /\ InOrder
  /\ CountExact
  /\ NoMissedItem
  /\ WaitersInLine
  /\ CallbacksTruthful

-----------------------------------------------------------------------------
(* Taking an entry out of a sequence without repetitions.                    *)
LEMMA SpliceProperties ==
  ASSUME NEW S, NEW s \in Seq(S), NEW n \in 1..Len(s),
         \A j, k \in 1..Len(s) : s[j] = s[k] => j = k
  PROVE  /\ Splice(s, n) \in Seq(S)
         /\ Len(Splice(s, n)) = Len(s) - 1
         /\ \A j, k \in 1..Len(Splice(s, n)) : Splice(s, n)[j] = Splice(s, n)[k] => j = k
         /\ \A x : (\E k \in 1..Len(Splice(s, n)) : Splice(s, n)[k] = x)
                     <=> x # s[n] /\ \E k \in 1..Len(s) : s[k] = x
<1> DEFINE t == Splice(s, n)
<1>1. t \in Seq(S) /\ Len(t) = Len(s) - 1
  BY DEF Splice
<1>2. \A k \in 1..Len(t) : t[k] = IF k < n THEN s[k] ELSE s[k + 1]
  BY <1>1 DEF Splice
<1>3. \A j, k \in 1..Len(t) : t[j] = t[k] => j = k
  BY <1>1, <1>2
<1>4. ASSUME NEW x, NEW k \in 1..Len(t), t[k] = x
      PROVE  x # s[n] /\ \E j \in 1..Len(s) : s[j] = x
  BY <1>1, <1>2, <1>4
<1>5. ASSUME NEW x, x # s[n], NEW j \in 1..Len(s), s[j] = x
      PROVE  \E k \in 1..Len(t) : t[k] = x
  <2>1. CASE j < n
    BY <1>1, <1>2, <1>5, <2>1
  <2>2. CASE j > n
    <3>1. j - 1 \in 1..Len(t) /\ t[j - 1] = s[j]
      BY <1>1, <1>2, <2>2
    <3> QED BY <3>1, <1>5
  <2> QED BY <1>5, <2>1, <2>2
<1> QED
  BY <1>1, <1>3, <1>4, <1>5

(* Leaving and entering at the ends of the line of consumers.                *)
LEMMA LineProperties ==
  ASSUME NEW S, NEW s \in Seq(S)
  PROVE  /\ s # <<>> =>
              /\ Head(s) \in S
              /\ Head(s) = s[1]
              /\ Tail(s) \in Seq(S)
              /\ Len(s) > 0
              /\ Len(Tail(s)) = Len(s) - 1
              /\ \A n \in 1..Len(Tail(s)) : Tail(s)[n] = s[n + 1]
         /\ \A x \in S :
              /\ Append(s, x) \in Seq(S)
              /\ Len(Append(s, x)) = Len(s) + 1
              /\ \A n \in 1..Len(s) : Append(s, x)[n] = s[n]
              /\ Append(s, x)[Len(s) + 1] = x
OBVIOUS

-----------------------------------------------------------------------------
(* The initial state.                                                        *)
LEMMA InitQueueInv == Init => QueueInv
<1> SUFFICES ASSUME Init PROVE QueueInv
  OBVIOUS
<1>1. /\ pushed = 0 /\ chained = 0 /\ queued = 0
      /\ mapping = {} /\ rejected = {} /\ onDequeue = {} /\ onAborted = {}
      /\ pending = <<>> /\ waiting = <<>> /\ delivered = <<>>
      /\ shifting = [c \in Consumers |-> "idle"]
      /\ watching = [w \in Watchers |-> "idle"]
  BY DEF Init
<1>2. aborted \in BOOLEAN /\ ~aborted
  BY Zenon DEF Init
<1>3. <<>> \in Seq(Items) /\ <<>> \in Seq(Consumers) /\ Len(<<>>) = 0
  BY EmptySeq
<1>4. TypeOK
  BY <1>1, <1>2, <1>3, QueueAssumption DEF QueueAssumption, TypeOK
<1>5. InOrder
  <2>1. Len(delivered) = 0 /\ Len(pending) = 0
    BY <1>1, <1>3
  <2> QED
    BY <1>1, <1>2, <2>1 DEF InOrder
<1>7. CountExact
  <2>1. Len(delivered) = 0
    BY <1>1, <1>3
  <2>2. pushed = 0 /\ queued = 0
    BY <1>1
  <2> QED
    BY <1>2, <2>1, <2>2 DEF CountExact
<1>8. NoMissedItem
  BY <1>1 DEF NoMissedItem
<1>6. WaitersInLine /\ CallbacksTruthful
  BY <1>1, <1>2, <1>3 DEF WaitersInLine, CallbacksTruthful
<1> QED
  BY <1>4, <1>5, <1>6, <1>7, <1>8 DEF QueueInv

(* push accepts an item at the end of the chain.                             *)
LEMMA PushKeeps == QueueInv /\ Push => QueueInv'
<1> SUFFICES ASSUME QueueInv, Push PROVE QueueInv'
  OBVIOUS
<1> USE QueueAssumption DEF QueueAssumption, QueueInv, Push, Items, Events, toldVars
<1>1. TypeOK'
  BY DEF TypeOK, Notify
<1>2. InOrder'
  BY DEF TypeOK, InOrder
<1>3. CountExact'
  BY DEF TypeOK, CountExact
<1>4. NoMissedItem'
  BY DEF NoMissedItem
<1>5. WaitersInLine'
  BY DEF WaitersInLine, Notify
<1>6. CallbacksTruthful'
  BY DEF CallbacksTruthful
<1> QED
  BY <1>1, <1>2, <1>3, <1>4, <1>5, <1>6

(* Settling a map moves no item.                                             *)
LEMMA MapSettlesKeeps ==
  ASSUME NEW i \in Items
  PROVE  QueueInv /\ MapSettles(i) => QueueInv'
<1> SUFFICES ASSUME QueueInv, MapSettles(i) PROVE QueueInv'
  OBVIOUS
<1> USE DEF QueueInv, MapSettles, toldVars
<1>1. TypeOK'
  BY DEF TypeOK
<1> QED
  BY <1>1 DEF InOrder, CountExact, NoMissedItem, WaitersInLine, CallbacksTruthful

(* shift returned a promise that rejects at once.                            *)
LEMMA RejectShiftKeeps ==
  ASSUME NEW c \in Consumers, NEW why \in {"signal", "aborted"}, shifting[c] # "waiting"
  PROVE  QueueInv /\ RejectShift(c, why) => QueueInv'
<1> SUFFICES ASSUME QueueInv, RejectShift(c, why) PROVE QueueInv'
  OBVIOUS
<1> USE DEF QueueInv, RejectShift, itemVars, toldVars
<1>1. TypeOK'
  BY DEF TypeOK
<1>2. WaitersInLine'
  BY DEF TypeOK, WaitersInLine
<1> QED
  BY <1>1, <1>2 DEF InOrder, CountExact, NoMissedItem, CallbacksTruthful

(* The next item goes to a consumer that is not in line any more: what both  *)
(* the chain and shift do, the change of pending, chained and waiting aside. *)
LEMMA HandOver ==
  ASSUME QueueInv, ~aborted, NEW c \in Consumers, NEW i \in Items,
         i = Len(delivered) + 1, LetOut(i), Receive(c, i), i <= pushed
  PROVE  /\ delivered' \in Seq(Items)
         /\ Len(delivered') = i
         /\ \A n \in 1..Len(delivered') : delivered'[n] = n
         /\ queued' = pushed - i
         /\ onDequeue' = {delivered'[n] : n \in 1..Len(delivered')}
         /\ onAborted' = {}
         /\ i \in Items
         /\ shifting' \in [Consumers -> {"idle", "waiting", "content", "failure", "timeout",
                                         "signal", "aborted"}]
         /\ watching' \in [Watchers -> Events \cup {"idle", "notified", "signal", "aborted"}]
         /\ \A d \in Consumers : shifting'[d] = "waiting" <=> d # c /\ shifting[d] = "waiting"
<1> USE QueueAssumption DEF QueueAssumption
<1>1. /\ delivered \in Seq(Items)
      /\ \A n \in 1..Len(delivered) : delivered[n] = n
      /\ delivered' = Append(delivered, i)
  BY DEF QueueInv, TypeOK, InOrder, Receive
<1>2. /\ delivered' \in Seq(Items)
      /\ Len(delivered') = i
      /\ \A n \in 1..Len(delivered') : delivered'[n] = n
  BY <1>1, LineProperties
<1>3. queued' = pushed - i
  BY <1>1 DEF QueueInv, TypeOK, CountExact, LetOut
<1>4. onDequeue' = {delivered'[n] : n \in 1..Len(delivered')}
  <2>1. onDequeue = {n : n \in 1..Len(delivered)}
    BY <1>1 DEF QueueInv, CallbacksTruthful
  <2>2. {delivered'[n] : n \in 1..Len(delivered')} = {n : n \in 1..Len(delivered')}
    BY <1>2
  <2>3. onDequeue' = onDequeue \cup {i}
    BY DEF LetOut
  <2> QED
    BY <1>1, <1>2, <2>1, <2>2, <2>3
<1>5. onAborted' = {}
  BY DEF QueueInv, CallbacksTruthful, LetOut
<1>6. /\ shifting' \in [Consumers -> {"idle", "waiting", "content", "failure", "timeout",
                                      "signal", "aborted"}]
      /\ \A d \in Consumers : shifting'[d] = "waiting" <=> d # c /\ shifting[d] = "waiting"
  BY DEF QueueInv, TypeOK, Receive
<1>7. watching' \in [Watchers -> Events \cup {"idle", "notified", "signal", "aborted"}]
  BY DEF QueueInv, TypeOK, LetOut, Notify
<1> QED
  BY <1>2, <1>3, <1>4, <1>5, <1>6, <1>7

(* A link hands its item to the head of the line, which still waits, or      *)
(* makes it ready when nobody waits.                                         *)
LEMMA LinkKeeps ==
  ASSUME NEW i \in Items
  PROVE  QueueInv /\ Link(i) => QueueInv'
<1> SUFFICES ASSUME QueueInv, Link(i) PROVE QueueInv'
  OBVIOUS
<1> USE QueueAssumption DEF QueueAssumption
<1>1. /\ i = chained + 1 /\ i <= pushed /\ chained' = i
      /\ chained' \in 0..MaxPushes
  BY DEF Link, LinkReady, QueueInv, TypeOK, Items
<1>2. CASE aborted /\ UNCHANGED <<itemVars, pending, waiting, queued, aborted, shifting, watching,
                                  toldVars>>
  <2> USE <1>1, <1>2 DEF itemVars, toldVars
  <2>1. TypeOK'
    BY DEF QueueInv, TypeOK
  <2>2. InOrder'
    BY DEF QueueInv, TypeOK, InOrder
  <2> QED
    BY <2>1, <2>2 DEF QueueInv, CountExact, NoMissedItem, WaitersInLine, CallbacksTruthful
<1>3. CASE ~aborted /\ SomebodyWaits
  <2>1. /\ waiting \in Seq(Consumers)
        /\ waiting # <<>>
        /\ pending = <<>>
        /\ waiting' = Tail(waiting)
        /\ pending' = pending
        /\ LetOut(i)
        /\ aborted' = aborted
    BY <1>3 DEF QueueInv, TypeOK, NoMissedItem, SomebodyWaits, Link, LetOut
  <2> DEFINE c == Head(waiting)
  <2>2. /\ c \in Consumers /\ c = waiting[1]
        /\ Len(waiting) > 0
        /\ waiting' \in Seq(Consumers)
        /\ Len(waiting') = Len(waiting) - 1
        /\ \A n \in 1..Len(waiting') : waiting'[n] = waiting[n + 1]
    BY <2>1, LineProperties
  <2>3. shifting[c] = "waiting"
    BY <2>1, <2>2 DEF QueueInv, WaitersInLine
  <2>4. Receive(c, i)
    BY <1>3, <2>3 DEF Link, SomebodyWaits
  <2>5. i = Len(delivered) + 1
    <3>1. Len(pending) = 0
      BY <2>1, EmptySeq
    <3> QED
      BY <1>1, <1>3, <3>1 DEF QueueInv, TypeOK, InOrder
  <2>6. /\ delivered' \in Seq(Items)
        /\ Len(delivered') = i
        /\ \A n \in 1..Len(delivered') : delivered'[n] = n
        /\ queued' = pushed - i
        /\ onDequeue' = {delivered'[n] : n \in 1..Len(delivered')}
        /\ onAborted' = {}
        /\ shifting' \in [Consumers -> {"idle", "waiting", "content", "failure", "timeout",
                                        "signal", "aborted"}]
        /\ watching' \in [Watchers -> Events \cup {"idle", "notified", "signal", "aborted"}]
        /\ \A d \in Consumers : shifting'[d] = "waiting" <=> d # c /\ shifting[d] = "waiting"
    BY <1>1, <1>3, <2>1, <2>2, <2>4, <2>5, HandOver
  <2>7. /\ pushed' = pushed /\ mapping' = mapping /\ rejected' = rejected
        /\ pushed \in 0..MaxPushes
    BY <2>1 DEF LetOut, itemVars, QueueInv, TypeOK
  <2>8. TypeOK'
    <3>1. queued' \in Nat
      BY <1>1, <2>6, <2>7 DEF Items
    <3>2. onDequeue' \subseteq Items
      BY <2>6
    <3> QED
      BY <1>1, <2>1, <2>2, <2>6, <2>7, <3>1, <3>2 DEF QueueInv, TypeOK
  <2>9. InOrder'
    <3>1. Len(pending') = 0
      BY <2>1, EmptySeq
    <3> QED
      BY <1>1, <1>3, <2>1, <2>6, <2>7, <3>1 DEF InOrder, Items
  <2>10. CountExact'
    BY <1>3, <2>1, <2>6, <2>7 DEF CountExact
  <2>11. NoMissedItem'
    BY <2>1 DEF NoMissedItem
  <2>12. WaitersInLine'
    <3>1. ASSUME NEW d \in Consumers
          PROVE  shifting'[d] = "waiting" <=> \E n \in 1..Len(waiting') : waiting'[n] = d
      <4>1. shifting[d] = "waiting" <=> \E n \in 1..Len(waiting) : waiting[n] = d
        BY DEF QueueInv, WaitersInLine
      <4>2. \A m, n \in 1..Len(waiting) : waiting[m] = waiting[n] => m = n
        BY DEF QueueInv, WaitersInLine
      <4>3. ASSUME d # c, NEW n \in 1..Len(waiting), waiting[n] = d
            PROVE  n - 1 \in 1..Len(waiting') /\ waiting'[n - 1] = d
        BY <2>1, <2>2, <4>3
      <4>4. ASSUME NEW n \in 1..Len(waiting'), waiting'[n] = d
            PROVE  d # c /\ \E m \in 1..Len(waiting) : waiting[m] = d
        <5>1. n + 1 \in 1..Len(waiting) /\ waiting[n + 1] = d /\ 1 \in 1..Len(waiting)
          BY <2>1, <2>2, <4>4
        <5> QED
          BY <2>2, <4>2, <5>1
      <4> QED
        BY <2>6, <4>1, <4>3, <4>4
    <3>2. ASSUME NEW m \in 1..Len(waiting'), NEW n \in 1..Len(waiting'), waiting'[m] = waiting'[n]
          PROVE  m = n
      <4>1. m + 1 \in 1..Len(waiting) /\ n + 1 \in 1..Len(waiting)
        BY <2>1, <2>2
      <4> QED
        BY <2>2, <3>2, <4>1 DEF QueueInv, WaitersInLine
    <3> QED
      BY <1>3, <2>1, <3>1, <3>2 DEF WaitersInLine
  <2>13. CallbacksTruthful'
    BY <2>6 DEF CallbacksTruthful
  <2> QED
    BY <2>8, <2>9, <2>10, <2>11, <2>12, <2>13 DEF QueueInv
<1>4. CASE ~aborted /\ ~SomebodyWaits
  <2>1. /\ pending \in Seq(Items)
        /\ pending' = Append(pending, i)
        /\ waiting = <<>>
        /\ UNCHANGED <<itemVars, waiting, queued, aborted, shifting, watching, toldVars>>
    BY <1>4 DEF Link, SomebodyWaits, QueueInv, TypeOK
  <2>2. /\ pending' \in Seq(Items)
        /\ Len(pending') = Len(pending) + 1
        /\ \A n \in 1..Len(pending) : pending'[n] = pending[n]
        /\ pending'[Len(pending) + 1] = i
    BY <2>1, LineProperties
  <2>3. TypeOK'
    BY <1>1, <2>1, <2>2 DEF QueueInv, TypeOK, itemVars, toldVars
  <2>4. InOrder'
    <3>1. /\ Len(delivered) \in Nat /\ Len(pending) \in Nat
          /\ chained \in Nat /\ pushed \in Nat
          /\ Len(delivered) + Len(pending) = chained
          /\ i = Len(delivered) + Len(pending) + 1
      <4>1. Len(delivered) \in Nat /\ Len(pending) \in Nat
        BY LenProperties DEF QueueInv, TypeOK
      <4>2. chained \in Nat /\ pushed \in Nat
        BY DEF QueueInv, TypeOK
      <4>3. Len(delivered) + Len(pending) = chained
        BY <1>4 DEF QueueInv, InOrder
      <4> QED
        BY <1>1, <4>1, <4>2, <4>3
    <3>2. ASSUME NEW n \in 1..Len(pending')
          PROVE  pending'[n] = Len(delivered) + n
      <4>1. CASE n \in 1..Len(pending)
        BY <2>2, <4>1 DEF QueueInv, InOrder
      <4>2. CASE n = Len(pending) + 1
        BY <2>2, <3>1, <4>2
      <4> QED
        BY <2>2, <3>1, <4>1, <4>2
    <3>3. delivered' = delivered /\ pushed' = pushed /\ onAborted' = onAborted /\ ~aborted'
      BY <1>4, <2>1 DEF itemVars, toldVars
    <3> QED
      BY <1>1, <2>2, <3>1, <3>2, <3>3 DEF QueueInv, InOrder
  <2>5. NoMissedItem'
    BY <2>1 DEF NoMissedItem
  <2> QED
    BY <2>1, <2>3, <2>4, <2>5
    DEF QueueInv, CountExact, WaitersInLine, CallbacksTruthful, itemVars, toldVars
<1> QED
  BY <1>2, <1>3, <1>4 DEF Link

(* shift rejects, takes the next ready item or joins the end of the line.    *)
LEMMA ShiftKeeps ==
  ASSUME NEW c \in Consumers
  PROVE  QueueInv /\ Shift(c) => QueueInv'
<1> SUFFICES ASSUME QueueInv, Shift(c) PROVE QueueInv'
  OBVIOUS
<1>1. shifting[c] # "waiting"
  BY DEF Shift
<1>2. CASE RejectShift(c, "signal") \/ RejectShift(c, "aborted")
  BY <1>1, <1>2, RejectShiftKeeps
<1>3. CASE ~aborted /\ pending # <<>> /\ ~RejectShift(c, "signal")
  <2> DEFINE i == Head(pending)
  <2>1. /\ pending' = Tail(pending)
        /\ LetOut(i)
        /\ Receive(c, i)
        /\ UNCHANGED <<chained, waiting>>
    BY <1>3 DEF Shift
  <2>2. /\ i \in Items /\ i = pending[1]
        /\ Len(pending) \in Nat /\ Len(pending) > 0
        /\ pending' \in Seq(Items)
        /\ Len(pending') = Len(pending) - 1
        /\ \A n \in 1..Len(pending') : pending'[n] = pending[n + 1]
    BY <1>3, <2>1, LineProperties, LenProperties DEF QueueInv, TypeOK
  <2>3. /\ Len(delivered) \in Nat /\ chained \in Nat /\ pushed \in Nat
        /\ Len(delivered) + Len(pending) = chained
        /\ chained <= pushed
        /\ i = Len(delivered) + 1
    <3>1. Len(delivered) \in Nat
      BY LenProperties DEF QueueInv, TypeOK
    <3>2. chained \in Nat /\ pushed \in Nat
      BY DEF QueueInv, TypeOK
    <3>3. /\ Len(delivered) + Len(pending) = chained
          /\ chained <= pushed
          /\ \A n \in 1..Len(pending) : pending[n] = Len(delivered) + n
      BY <1>3 DEF QueueInv, InOrder
    <3> QED
      BY <2>2, <3>1, <3>2, <3>3
  <2>4. i <= pushed
    BY <2>2, <2>3
  <2>5. /\ delivered' \in Seq(Items)
        /\ Len(delivered') = i
        /\ \A n \in 1..Len(delivered') : delivered'[n] = n
        /\ queued' = pushed - i
        /\ onDequeue' = {delivered'[n] : n \in 1..Len(delivered')}
        /\ onAborted' = {}
        /\ shifting' \in [Consumers -> {"idle", "waiting", "content", "failure", "timeout",
                                        "signal", "aborted"}]
        /\ watching' \in [Watchers -> Events \cup {"idle", "notified", "signal", "aborted"}]
        /\ \A d \in Consumers : shifting'[d] = "waiting" <=> d # c /\ shifting[d] = "waiting"
    BY <1>3, <2>1, <2>2, <2>3, <2>4, HandOver
  <2>6. /\ pushed' = pushed /\ mapping' = mapping /\ rejected' = rejected
        /\ chained' = chained /\ waiting' = waiting /\ aborted' = aborted
    BY <2>1 DEF LetOut, itemVars
  <2>7. TypeOK'
    <3>1. queued' \in Nat
      BY <2>2, <2>3, <2>4, <2>5 DEF Items
    <3>2. onDequeue' \subseteq Items
      BY <2>5
    <3> QED
      BY <2>2, <2>5, <2>6, <3>1, <3>2 DEF QueueInv, TypeOK
  <2>8. InOrder'
    <3>1. ASSUME NEW n \in 1..Len(pending')
          PROVE  pending'[n] = Len(delivered') + n
      <4>1. n + 1 \in 1..Len(pending) /\ pending'[n] = pending[n + 1]
        BY <2>2
      <4>2. pending[n + 1] = Len(delivered) + n + 1
        BY <2>3, <4>1 DEF QueueInv, InOrder
      <4>3. Len(delivered') = Len(delivered) + 1
        BY <2>3, <2>5
      <4> QED
        BY <2>3, <4>1, <4>2, <4>3
    <3>2. Len(delivered') + Len(pending') = chained'
      BY <2>2, <2>3, <2>5, <2>6
    <3>3. Len(delivered') <= chained' /\ chained' <= pushed'
      BY <2>2, <2>3, <2>5, <2>6
    <3> QED
      BY <1>3, <2>5, <2>6, <3>1, <3>2, <3>3 DEF InOrder
  <2>9. CountExact'
    BY <1>3, <2>5, <2>6 DEF CountExact
  <2>10. NoMissedItem'
    BY <1>3, <2>6 DEF QueueInv, NoMissedItem
  <2>11. WaitersInLine'
    BY <1>1, <1>3, <2>5, <2>6 DEF QueueInv, WaitersInLine
  <2>12. CallbacksTruthful'
    BY <2>5 DEF CallbacksTruthful
  <2> QED
    BY <2>7, <2>8, <2>9, <2>10, <2>11, <2>12 DEF QueueInv
<1>4. CASE ~aborted /\ pending = <<>> /\ ~RejectShift(c, "signal")
  <2>1. /\ waiting \in Seq(Consumers)
        /\ waiting' = Append(waiting, c)
        /\ shifting' = [shifting EXCEPT ![c] = "waiting"]
        /\ UNCHANGED <<itemVars, chained, pending, queued, aborted, watching, toldVars>>
    BY <1>4 DEF Shift, QueueInv, TypeOK
  <2>2. /\ Len(waiting) \in Nat
        /\ waiting' \in Seq(Consumers)
        /\ Len(waiting') = Len(waiting) + 1
        /\ \A n \in 1..Len(waiting) : waiting'[n] = waiting[n]
        /\ waiting'[Len(waiting) + 1] = c
    BY <2>1, LineProperties, LenProperties
  <2>3. TypeOK'
    BY <2>1, <2>2 DEF QueueInv, TypeOK, itemVars, toldVars
  <2>4. NoMissedItem'
    BY <1>4, <2>1 DEF NoMissedItem
  <2>5. WaitersInLine'
    <3>1. \A d \in Consumers : shifting'[d] = "waiting" <=> d = c \/ shifting[d] = "waiting"
      BY <2>1 DEF QueueInv, TypeOK
    <3>2. ASSUME NEW d
          PROVE  (\E n \in 1..Len(waiting') : waiting'[n] = d)
                   <=> d = c \/ \E n \in 1..Len(waiting) : waiting[n] = d
      BY <2>2
    <3>3. \A n \in 1..Len(waiting) : waiting[n] # c
      BY <1>1 DEF QueueInv, WaitersInLine
    <3>4. \A m, n \in 1..Len(waiting') : waiting'[m] = waiting'[n] => m = n
      <4>1. \A m, n \in 1..Len(waiting) : waiting[m] = waiting[n] => m = n
        BY DEF QueueInv, WaitersInLine
      <4> QED
        BY <2>2, <3>3, <4>1
    <3>5. \A d \in Consumers :
            shifting[d] = "waiting" <=> \E n \in 1..Len(waiting) : waiting[n] = d
      BY DEF QueueInv, WaitersInLine
    <3>6. ~aborted'
      BY <1>4, <2>1
    <3> QED
      BY <3>1, <3>2, <3>4, <3>5, <3>6 DEF WaitersInLine
  <2> QED
    BY <2>1, <2>3, <2>4, <2>5
    DEF QueueInv, InOrder, CountExact, CallbacksTruthful, itemVars, toldVars
<1> QED
  BY <1>2, <1>3, <1>4 DEF Shift

(* Whoever gives up leaves the line.                                         *)
LEMMA GiveUpKeeps ==
  ASSUME NEW c \in Consumers, NEW why \in {"timeout", "signal"}
  PROVE  QueueInv /\ GiveUp(c, why) => QueueInv'
<1> SUFFICES ASSUME QueueInv, GiveUp(c, why) PROVE QueueInv'
  OBVIOUS
<1>1. PICK n \in 1..Len(waiting) : waiting[n] = c /\ waiting' = Splice(waiting, n)
  BY DEF GiveUp, Unshift
<1>2. /\ waiting \in Seq(Consumers)
      /\ \A j, k \in 1..Len(waiting) : waiting[j] = waiting[k] => j = k
      /\ \A d \in Consumers :
           shifting[d] = "waiting" <=> \E k \in 1..Len(waiting) : waiting[k] = d
  BY DEF QueueInv, TypeOK, WaitersInLine
<1>3. /\ waiting' \in Seq(Consumers)
      /\ \A j, k \in 1..Len(waiting') : waiting'[j] = waiting'[k] => j = k
      /\ \A x : (\E k \in 1..Len(waiting') : waiting'[k] = x)
                  <=> x # c /\ \E k \in 1..Len(waiting) : waiting[k] = x
  <2> DEFINE t == Splice(waiting, n)
  <2>1. /\ t \in Seq(Consumers)
        /\ \A j, k \in 1..Len(t) : t[j] = t[k] => j = k
        /\ \A x : (\E k \in 1..Len(t) : t[k] = x)
                    <=> x # waiting[n] /\ \E k \in 1..Len(waiting) : waiting[k] = x
    <3>1. n \in 1..Len(waiting)
      BY <1>1
    <3>2. \A j, k \in 1..Len(waiting) : waiting[j] = waiting[k] => j = k
      BY <1>2
    <3>3. waiting \in Seq(Consumers)
      BY <1>2
    <3> QED
      BY <3>1, <3>2, <3>3, SpliceProperties, Zenon
  <2> HIDE DEF t
  <2>2. waiting' = t /\ waiting[n] = c
    BY <1>1 DEF t
  <2> QED
    BY <2>1, <2>2
<1>4. UNCHANGED <<itemVars, chained, pending, queued, aborted, watching, toldVars>>
  BY DEF GiveUp
<1>5. TypeOK'
  BY <1>3, <1>4 DEF QueueInv, TypeOK, GiveUp, itemVars, toldVars
<1>6. NoMissedItem'
  <2>1. waiting # <<>>
    BY <1>1, <1>2, EmptySeq
  <2> QED
    BY <1>4, <2>1 DEF QueueInv, NoMissedItem
<1>7. WaitersInLine'
  <2>1. \A d \in Consumers : shifting'[d] = "waiting" <=> d # c /\ shifting[d] = "waiting"
    BY DEF GiveUp, QueueInv, TypeOK
  <2>2. ~aborted'
    <3>1. waiting # <<>>
      BY <1>1, <1>2, EmptySeq
    <3> QED
      BY <1>4, <3>1 DEF QueueInv, WaitersInLine
  <2> QED
    BY <1>2, <1>3, <2>1, <2>2 DEF WaitersInLine
<1> QED
  BY <1>4, <1>5, <1>6, <1>7
  DEF QueueInv, InOrder, CountExact, CallbacksTruthful, itemVars, toldVars

(* The watchers move no item and no consumer.                                *)
LEMMA WatchersKeep ==
  ASSUME NEW w \in Watchers,
         (\E event \in Events : WaitFor(w, event)) \/ AbortWait(w)
  PROVE  QueueInv => QueueInv'
<1> SUFFICES ASSUME QueueInv PROVE QueueInv'
  OBVIOUS
<1>1. UNCHANGED <<itemVars, chained, pending, waiting, queued, aborted, shifting, toldVars>>
  BY DEF WaitFor, AbortWait, SetWatching
<1>2. TypeOK' /\ WaitersInLine'
  BY <1>1 DEF QueueInv, TypeOK, WaitersInLine, WaitFor, AbortWait, SetWatching, itemVars, toldVars,
     Events
<1> QED
  BY <1>1, <1>2 DEF QueueInv, InOrder, CountExact, NoMissedItem, CallbacksTruthful, itemVars,
     toldVars

(* An abort empties what is ready and rejects everybody who waits.           *)
LEMMA AbortWithKeeps == QueueInv /\ AbortWith => QueueInv'
<1> SUFFICES ASSUME QueueInv, AbortWith PROVE QueueInv'
  OBVIOUS
<1>1. /\ ~aborted /\ aborted' /\ aborted' \in BOOLEAN
      /\ queued' = 0 /\ pending' = <<>> /\ waiting' = <<>>
      /\ onAborted' = onAborted \cup {pending[n] : n \in 1..Len(pending)}
      /\ UNCHANGED <<itemVars, chained, delivered, onDequeue>>
  BY DEF AbortWith, DropPending, RejectWaiting
<1>2. pending' \in Seq(Items) /\ waiting' \in Seq(Consumers)
      /\ Len(pending') = 0 /\ Len(waiting') = 0
  BY <1>1, EmptySeq
<1>3. /\ shifting' \in [Consumers -> {"idle", "waiting", "content", "failure", "timeout",
                                      "signal", "aborted"}]
      /\ \A c \in Consumers : shifting'[c] # "waiting"
  BY DEF QueueInv, TypeOK, WaitersInLine, AbortWith, RejectWaiting
<1>4. /\ watching' \in [Watchers -> Events \cup {"idle", "notified", "signal", "aborted"}]
      /\ \A w \in Watchers : watching'[w] \notin Events
  BY DEF QueueInv, TypeOK, AbortWith, RejectWaiting, Events
<1>5. \A i \in onAborted' : i \in Items /\ i > Len(delivered)
  <2>1. Len(delivered) \in Nat /\ pending \in Seq(Items)
    BY LenProperties DEF QueueInv, TypeOK
  <2>2. \A n \in 1..Len(pending) : pending[n] \in Items /\ pending[n] = Len(delivered) + n
    BY <2>1 DEF QueueInv, InOrder
  <2> QED
    BY <1>1, <2>1, <2>2 DEF QueueInv, TypeOK, InOrder
<1>6. TypeOK'
  BY <1>1, <1>2, <1>3, <1>4, <1>5 DEF QueueInv, TypeOK, itemVars
<1>7. InOrder'
  BY <1>1, <1>2, <1>5 DEF QueueInv, InOrder, itemVars
<1>8. CountExact'
  BY <1>1 DEF CountExact
<1>9. NoMissedItem'
  BY <1>1 DEF NoMissedItem
<1>10. WaitersInLine'
  BY <1>1, <1>2, <1>3, <1>4 DEF WaitersInLine
<1>11. CallbacksTruthful'
  <2>1. Len(delivered) \in Nat /\ \A n \in 1..Len(delivered) : delivered[n] = n
    BY LenProperties DEF QueueInv, TypeOK, InOrder
  <2>2. \A i \in onDequeue : i <= Len(delivered)
    BY <2>1 DEF QueueInv, CallbacksTruthful
  <2>3. onDequeue' \cap onAborted' = {}
    BY <1>1, <1>5, <2>1, <2>2 DEF Items
  <2> QED
    BY <1>1, <2>3 DEF QueueInv, CallbacksTruthful
<1> QED
  BY <1>6, <1>7, <1>8, <1>9, <1>10, <1>11 DEF QueueInv

LEMMA NextQueueInv == QueueInv /\ [Next]_vars => QueueInv'
<1> SUFFICES ASSUME QueueInv, [Next]_vars PROVE QueueInv'
  OBVIOUS
<1>1. CASE Push
  BY <1>1, PushKeeps
<1>2. ASSUME NEW i \in Items, MapSettles(i) \/ Link(i)
      PROVE  QueueInv'
  BY <1>2, MapSettlesKeeps, LinkKeeps
<1>3. ASSUME NEW c \in Consumers, Shift(c) \/ GiveUp(c, "timeout") \/ GiveUp(c, "signal")
      PROVE  QueueInv'
  BY <1>3, ShiftKeeps, GiveUpKeeps
<1>4. ASSUME NEW w \in Watchers, (\E event \in Events : WaitFor(w, event)) \/ AbortWait(w)
      PROVE  QueueInv'
  BY <1>4, WatchersKeep
<1>5. CASE AbortWith
  BY <1>5, AbortWithKeeps
<1>6. CASE UNCHANGED vars
  BY <1>6 DEF QueueInv, TypeOK, InOrder, CountExact, NoMissedItem, WaitersInLine,
     CallbacksTruthful, vars, itemVars, toldVars
<1> QED
  BY <1>1, <1>2, <1>3, <1>4, <1>5, <1>6 DEF Next

-----------------------------------------------------------------------------
(* The inductive invariant holds in every reachable state.                   *)
THEOREM QueueCorrect == Spec => []QueueInv
<1> QED
  BY InitQueueInv, NextQueueInv, PTL DEF Spec

(* queued() is exact: it counts what was accepted and not handed out, which  *)
(* is what createDecipheredQueue compares with decryptQueueSize.             *)
THEOREM CountCorrect == Spec => []CountExact
<1>1. QueueInv => CountExact
  BY DEF QueueInv
<1> QED
  BY <1>1, QueueCorrect, PTL

(* An item and a consumer never wait for one another.                        *)
THEOREM NoMissedItemCorrect == Spec => []NoMissedItem
<1>1. QueueInv => NoMissedItem
  BY DEF QueueInv
<1> QED
  BY <1>1, QueueCorrect, PTL

(* The promises that wait are those in line, and an abort leaves none.       *)
THEOREM WaitersCorrect == Spec => []WaitersInLine
<1>1. QueueInv => WaitersInLine
  BY DEF QueueInv
<1> QED
  BY <1>1, QueueCorrect, PTL

(* onDequeue and onAborted tell the fate of an item as it is.                *)
THEOREM CallbacksCorrect == Spec => []CallbacksTruthful
<1>1. QueueInv => CallbacksTruthful
  BY DEF QueueInv
<1> QED
  BY <1>1, QueueCorrect, PTL

-----------------------------------------------------------------------------
(* An item that is handed over is the next of the abstract queue.            *)
LEMMA ReceiveTakes ==
  ASSUME QueueInv, ~aborted, NEW c, NEW i, LetOut(i), Receive(c, i),
         i = Len(delivered) + 1, Len(delivered) < pushed
  PROVE  Queue!Take
BY DEF Queue!Take, LetOut, Receive, itemVars

LEMMA StepRefines == QueueInv /\ QueueInv' /\ [Next]_vars => [Queue!FifoNext]_(Queue!fifoVars)
<1> SUFFICES ASSUME QueueInv, QueueInv', [Next]_vars
             PROVE  [Queue!FifoNext]_(Queue!fifoVars)
  OBVIOUS
<1> USE DEF Queue!FifoNext
<1> DEFINE Stutter == UNCHANGED <<pushed, delivered, aborted>>
<1>1. Stutter => UNCHANGED Queue!fifoVars
  BY DEF Queue!fifoVars
<1>2. CASE Push
  BY <1>2 DEF Push, Queue!Put, toldVars
<1>3. ASSUME NEW i \in Items, MapSettles(i)
      PROVE  Stutter
  BY <1>3 DEF MapSettles, toldVars
<1>4. ASSUME NEW i \in Items, Link(i)
      PROVE  Queue!Take \/ Stutter
  <2>1. CASE aborted \/ ~SomebodyWaits
    BY <1>4, <2>1 DEF Link, itemVars, toldVars
  <2>2. CASE ~aborted /\ SomebodyWaits
    <3>1. /\ waiting \in Seq(Consumers) /\ waiting # <<>>
          /\ pending = <<>>
          /\ i = chained + 1 /\ i <= pushed
          /\ LetOut(i)
      BY <1>4, <2>2
      DEF QueueInv, TypeOK, NoMissedItem, SomebodyWaits, Link, LinkReady
    <3>2. /\ Len(delivered) \in Nat /\ chained \in Nat /\ pushed \in Nat
          /\ Len(delivered) = chained
      <4>1. Len(delivered) \in Nat /\ Len(pending) = 0
        BY <3>1, LenProperties, EmptySeq DEF QueueInv, TypeOK
      <4>2. chained \in Nat /\ pushed \in Nat
        BY DEF QueueInv, TypeOK
      <4>3. Len(delivered) + Len(pending) = chained
        BY <2>2 DEF QueueInv, InOrder
      <4> QED
        BY <4>1, <4>2, <4>3
    <3>3. shifting[Head(waiting)] = "waiting"
      <4>1. 1 \in 1..Len(waiting) /\ Head(waiting) = waiting[1] /\ Head(waiting) \in Consumers
        BY <3>1, LineProperties, LenProperties
      <4> QED
        BY <4>1 DEF QueueInv, WaitersInLine
    <3>4. Receive(Head(waiting), i)
      BY <1>4, <2>2, <3>3 DEF Link, SomebodyWaits
    <3> QED
      BY <2>2, <3>1, <3>2, <3>4, ReceiveTakes
  <2> QED
    BY <2>1, <2>2
<1>5. ASSUME NEW c \in Consumers, Shift(c)
      PROVE  Queue!Take \/ Stutter
  <2>1. CASE pending # <<>> /\ ~aborted /\ ~RejectShift(c, "signal")
    <3>1. LetOut(Head(pending)) /\ Receive(c, Head(pending))
      BY <1>5, <2>1 DEF Shift
    <3>2. /\ Head(pending) = pending[1]
          /\ Len(pending) \in Nat /\ Len(pending) > 0
      BY <2>1, LineProperties, LenProperties DEF QueueInv, TypeOK
    <3>3. /\ Len(delivered) \in Nat /\ chained \in Nat /\ pushed \in Nat
      BY LenProperties DEF QueueInv, TypeOK
    <3>4. /\ Len(delivered) + Len(pending) = chained
          /\ chained <= pushed
          /\ Head(pending) = Len(delivered) + 1
      BY <2>1, <3>2 DEF QueueInv, InOrder
    <3> QED
      BY <2>1, <3>1, <3>2, <3>3, <3>4, ReceiveTakes
  <2>2. CASE pending = <<>> \/ aborted \/ RejectShift(c, "signal")
    BY <1>5, <2>2 DEF Shift, RejectShift, itemVars, toldVars
  <2> QED
    BY <2>1, <2>2
<1>6. ASSUME NEW c \in Consumers, GiveUp(c, "timeout") \/ GiveUp(c, "signal")
      PROVE  Stutter
  BY <1>6 DEF GiveUp, itemVars, toldVars
<1>7. ASSUME NEW w \in Watchers, (\E event \in Events : WaitFor(w, event)) \/ AbortWait(w)
      PROVE  Stutter
  BY <1>7 DEF WaitFor, AbortWait, SetWatching, itemVars, toldVars
<1>8. CASE AbortWith
  BY <1>8 DEF AbortWith, Queue!Close, itemVars
<1>9. CASE UNCHANGED vars
  BY <1>9 DEF vars, itemVars, toldVars, Queue!fifoVars
<1> QED
  BY <1>1, <1>2, <1>3, <1>4, <1>5, <1>6, <1>7, <1>8, <1>9 DEF Next

(* The queue hands out what was pushed, in the order of the pushes, each     *)
(* item once and nothing after an abort.                                     *)
THEOREM FifoImplemented == Spec => ImplementsFifo
<1>1. Init => Queue!FifoInit
  BY DEF Init, Queue!FifoInit
<1> QED
  BY <1>1, QueueCorrect, StepRefines, PTL DEF Spec, ImplementsFifo, Queue!FifoSpec

(* Every variable of the queue keeps its type, for any number of producers,   *)
(* consumers and watchers.                                                    *)
THEOREM TypesCorrect == Spec => []TypeOK
<1>1. QueueInv => TypeOK
  BY DEF QueueInv
<1> QED
  BY <1>1, QueueCorrect, PTL

=============================================================================
