----------------------------- MODULE AsyncQueue -----------------------------
(***************************************************************************)
(* consumableAsyncQueue of common/utils.ts, the queue behind every socket, *)
(* every stream and every accepted connection of the program.              *)
(*                                                                         *)
(* An item pushed goes through an asynchronous map.  The maps of several   *)
(* items run side by side and settle in any order; a chain of promises     *)
(* (operation) restores the order of the pushes: only when the map of its  *)
(* first item has settled does it hand that item to the longest waiting    *)
(* shift or, if there is none, put it into pending.  Everything else runs  *)
(* synchronously: an action is one call, timer, signal or link of the      *)
(* chain.  The n-th item accepted is the item n.                           *)
(***************************************************************************)
EXTENDS Integers, Sequences, FiniteSets

CONSTANTS
  Consumers,  (* those who call shift, each one call at a time    *)
  Watchers,   (* those who call waitFor, each one call at a time  *)
  MaxPushes   (* bound: the items ever accepted                   *)

ASSUME QueueAssumption == MaxPushes \in Nat \ {0}

VARIABLES
  pushed,     (* how many items were accepted                          *)
  mapping,    (* the items whose map has not settled                   *)
  rejected,   (* the items whose map rejected                          *)
  chained,    (* how many links of the promise chain have run          *)
  pending,    (* items ready for a shift to come                       *)
  waiting,    (* the consumers whose promise waits for an item         *)
  queued,     (* the counter behind queued()                           *)
  aborted,
  shifting,   (* per consumer: what its last shift has come to         *)
  watching,   (* per watcher: what its last waitFor has come to        *)
  delivered,  (* the items that reached a consumer, in order           *)
  onDequeue,  (* the items whose onDequeue callback was called         *)
  onAborted   (* the items whose onAborted callback was called         *)

itemVars == <<pushed, mapping, rejected>>
toldVars == <<delivered, onDequeue, onAborted>>
vars == <<itemVars, chained, pending, waiting, queued, aborted, shifting, watching, toldVars>>

Items == 1..MaxPushes
Events == {"enqueue", "dequeue"}

TypeOK ==
  /\ pushed \in 0..MaxPushes
  /\ mapping \subseteq Items
  /\ rejected \subseteq Items
  /\ chained \in 0..MaxPushes
  /\ pending \in Seq(Items)
  /\ waiting \in Seq(Consumers)
  /\ queued \in Nat
  /\ aborted \in BOOLEAN
  /\ shifting \in [Consumers -> {"idle", "waiting", "content", "failure", "timeout", "signal",
                                 "aborted"}]
  /\ watching \in [Watchers -> Events \cup {"idle", "notified", "signal", "aborted"}]
  /\ delivered \in Seq(Items)
  /\ onDequeue \subseteq Items
  /\ onAborted \subseteq Items

Init ==
  /\ pushed = 0
  /\ mapping = {}
  /\ rejected = {}
  /\ chained = 0
  /\ pending = <<>>
  /\ waiting = <<>>
  /\ queued = 0
  /\ aborted = FALSE
  /\ shifting = [c \in Consumers |-> "idle"]
  /\ watching = [w \in Watchers |-> "idle"]
  /\ delivered = <<>>
  /\ onDequeue = {}
  /\ onAborted = {}

-----------------------------------------------------------------------------
(* The listeners of an event are resolved and forgotten.                     *)
Notify(event) ==
  watching' = [w \in Watchers |-> IF watching[w] = event THEN "notified" ELSE watching[w]]

(* push: ignored once the queue is aborted, without a word to the caller.    *)
Push ==
  /\ ~aborted
  /\ pushed < MaxPushes
  /\ pushed' = pushed + 1
  /\ mapping' = mapping \cup {pushed + 1}
  /\ queued' = queued + 1
  /\ Notify("enqueue")
  /\ UNCHANGED <<rejected, chained, pending, waiting, aborted, shifting, toldVars>>

(* The map of an item settles, one way or the other.                         *)
MapSettles(i) ==
  /\ i \in mapping
  /\ mapping' = mapping \ {i}
  /\ rejected' \in {rejected, rejected \cup {i}}
  /\ UNCHANGED <<pushed, chained, pending, waiting, queued, aborted, shifting, watching, toldVars>>

-----------------------------------------------------------------------------
(* The n-th entry is taken out of a sequence (splice).                       *)
Splice(s, n) == [k \in 1..(Len(s) - 1) |-> IF k < n THEN s[k] ELSE s[k + 1]]

\* Mutant: the items that leave stay counted.
MutLetOut(i) ==
  /\ onDequeue' = onDequeue \cup {i}
  /\ Notify("dequeue")
  /\ UNCHANGED <<queued, itemVars, aborted, onAborted>>

(* What happens whenever an item leaves the queue.                           *)
LetOut(i) ==
  /\ Notify("dequeue")
  /\ queued' = queued - 1
  /\ onDequeue' = onDequeue \cup {i}
  /\ UNCHANGED <<itemVars, aborted, onAborted>>

(* The promise of a consumer's shift settles with an item.                   *)
Receive(c, i) ==
  /\ delivered' = Append(delivered, i)
  /\ shifting' = [shifting EXCEPT ![c] = IF i \in rejected THEN "failure" ELSE "content"]

\* Mutants: the order in which the maps settle is not undone; a map that
\* rejects breaks the chain.
MutLinkReady(i) == i \in 1..pushed /\ i \notin mapping /\ i > chained
MutLinkUnbroken(i) == i = chained + 1 /\ i <= pushed /\ i \notin mapping /\ i - 1 \notin rejected

(* The chain of promises has come to the item, and its map has settled.      *)
LinkReady(i) == i = chained + 1 /\ i <= pushed /\ i \notin mapping

SomebodyWaits == waiting # <<>>

(* A link of the chain.  A waiting promise that had been settled meanwhile   *)
(* would swallow the item.                                                   *)
Link(i) ==
  /\ LinkReady(i)
  /\ chained' = i
  /\ \/ /\ aborted
        /\ UNCHANGED <<itemVars, pending, waiting, queued, aborted, shifting, watching, toldVars>>
     \/ /\ ~aborted
        /\ SomebodyWaits
        /\ waiting' = Tail(waiting)
        /\ LetOut(i)
        /\ IF shifting[Head(waiting)] = "waiting"
           THEN Receive(Head(waiting), i)
           ELSE UNCHANGED <<shifting, delivered>>
        /\ UNCHANGED pending
     \/ /\ ~aborted
        /\ ~SomebodyWaits
        /\ pending' = Append(pending, i)
        /\ UNCHANGED <<itemVars, waiting, queued, aborted, shifting, watching, toldVars>>

-----------------------------------------------------------------------------
(* shift returned a promise that rejects at once.                            *)
RejectShift(c, why) ==
  /\ shifting' = [shifting EXCEPT ![c] = why]
  /\ UNCHANGED <<itemVars, chained, pending, waiting, queued, aborted, watching, toldVars>>

(* shift, with a signal that is aborted already or not.                      *)
Shift(c) ==
  /\ shifting[c] # "waiting"
  /\ \/ RejectShift(c, "signal")
     \/ /\ aborted
        /\ RejectShift(c, "aborted")
     \/ /\ ~aborted
        /\ pending # <<>>
        /\ pending' = Tail(pending)
        /\ LetOut(Head(pending))
        /\ Receive(c, Head(pending))
        /\ UNCHANGED <<chained, waiting>>
     \/ /\ ~aborted
        /\ pending = <<>>
        /\ waiting' = Append(waiting, c)
        /\ shifting' = [shifting EXCEPT ![c] = "waiting"]
        /\ UNCHANGED <<itemVars, chained, pending, queued, aborted, watching, toldVars>>

\* Mutant: the promise that was given up stays in line.
MutUnshift(c) == UNCHANGED waiting

(* The promise of a shift that is given up is taken out of line.             *)
Unshift(c) ==
  \E n \in 1..Len(waiting) : waiting[n] = c /\ waiting' = Splice(waiting, n)

(* The timer of a shift fires or its signal aborts while it waits.           *)
GiveUp(c, why) ==
  /\ shifting[c] = "waiting"
  /\ Unshift(c)
  /\ shifting' = [shifting EXCEPT ![c] = why]
  /\ UNCHANGED <<itemVars, chained, pending, queued, aborted, watching, toldVars>>

-----------------------------------------------------------------------------
SetWatching(w, state) ==
  /\ watching' = [watching EXCEPT ![w] = state]
  /\ UNCHANGED <<itemVars, chained, pending, waiting, queued, aborted, shifting, toldVars>>

(* waitFor, with a signal that is aborted already or not.                    *)
WaitFor(w, event) ==
  /\ watching[w] \notin Events
  /\ \/ SetWatching(w, "signal")
     \/ aborted /\ SetWatching(w, "aborted")
     \/ ~aborted /\ SetWatching(w, event)

AbortWait(w) == watching[w] \in Events /\ SetWatching(w, "signal")

-----------------------------------------------------------------------------
(* Every promise that waits rejects.                                         *)
RejectWaiting ==
  /\ waiting' = <<>>
  /\ shifting' = [c \in Consumers |->
                    IF \E n \in 1..Len(waiting) : waiting[n] = c THEN "aborted" ELSE shifting[c]]
  /\ watching' = [w \in Watchers |-> IF watching[w] \in Events THEN "aborted" ELSE watching[w]]

(* The items that were ready are dropped and their callbacks called; those   *)
(* still on their way are not known here.                                    *)
DropPending ==
  /\ pending' = <<>>
  /\ onAborted' = onAborted \cup {pending[n] : n \in 1..Len(pending)}

(* abortWith, by a call, by the signal of the queue or by its disposal; all  *)
(* but the first are ignored.                                                *)
AbortWith ==
  /\ ~aborted
  /\ aborted' = TRUE
  /\ queued' = 0
  /\ DropPending
  /\ RejectWaiting
  /\ UNCHANGED <<itemVars, chained, delivered, onDequeue>>

-----------------------------------------------------------------------------
Next ==
  \/ Push
  \/ \E i \in Items : MapSettles(i) \/ Link(i)
  \/ \E c \in Consumers : Shift(c) \/ GiveUp(c, "timeout") \/ GiveUp(c, "signal")
  \/ \E w \in Watchers : (\E event \in Events : WaitFor(w, event)) \/ AbortWait(w)
  \/ AbortWith

Spec == Init /\ [][Next]_vars

(* The maps settle and the event loop runs the links that are ready.         *)
Fairness == \A i \in Items : WF_vars(MapSettles(i)) /\ WF_vars(Link(i))
FairSpec == Spec /\ Fairness

-----------------------------------------------------------------------------
(* Safety.                                                                   *)

(* queued(), which the back-pressure of createDecipheredQueue relies on,     *)
(* counts exactly the items that were accepted and not handed out, those     *)
(* whose map still runs included, through timeouts, failures and aborts.     *)
CountExact == queued = IF aborted THEN 0 ELSE pushed - Len(delivered)

(* No consumer waits while an item is ready for it: push, the chain and      *)
(* shift never miss one another.                                             *)
NoMissedItem == waiting # <<>> => pending = <<>>

(* The callbacks of an item contradict neither each other nor its fate: the  *)
(* one that was dequeued reached a consumer and is never aborted, the one    *)
(* that was aborted never reaches anybody.                                   *)
CallbacksTruthful ==
  /\ onDequeue = {delivered[n] : n \in 1..Len(delivered)}
  /\ onDequeue \cap onAborted = {}
  /\ onAborted # {} => aborted

(* Items reach consumers in the order of the pushes, each exactly once and   *)
(* none after an abort, however their maps settle and whoever gives up.      *)
Queue == INSTANCE Fifo WITH accepted <- pushed, closed <- aborted

ImplementsFifo == Queue!FifoSpec

-----------------------------------------------------------------------------
(* Liveness: a consumer that waits while items are on their way is served,   *)
(* even if the map of one of them fails.                                     *)
ItemsReachWaiters ==
  \A n \in 0..MaxPushes :
    (Len(delivered) = n /\ pushed > n /\ waiting # <<>>)
      ~> (Len(delivered) > n \/ waiting = <<>> \/ aborted)

=============================================================================
