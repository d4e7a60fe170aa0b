-------------------------------- MODULE Fifo --------------------------------
(***************************************************************************)
(* What a queue of common/utils.ts promises to those who use it: items go  *)
(* to consumers in the order in which they were accepted, each one once,   *)
(* until the queue is closed, from when on nothing enters or leaves.       *)
(* Items are known by the order of their acceptance.                       *)
(***************************************************************************)
EXTENDS Integers, Sequences

VARIABLES
  accepted,   (* how many items were accepted     *)
  delivered,  (* the items handed out, in order   *)
  closed

fifoVars == <<accepted, delivered, closed>>

FifoInit ==
  /\ accepted = 0
  /\ delivered = <<>>
  /\ closed = FALSE

Put ==
  /\ ~closed
  /\ accepted' = accepted + 1
  /\ UNCHANGED <<delivered, closed>>

Take ==
  /\ ~closed
  /\ Len(delivered) < accepted
  /\ delivered' = Append(delivered, Len(delivered) + 1)
  /\ UNCHANGED <<accepted, closed>>

Close ==
  /\ closed' = TRUE
  /\ UNCHANGED <<accepted, delivered>>

FifoNext == Put \/ Take \/ Close

FifoSpec == FifoInit /\ [][FifoNext]_fifoVars

=============================================================================
