---------------------------- MODULE MailboxQueue ----------------------------
(***************************************************************************)
(* What the relay server's mailbox promises to a device, whatever its      *)
(* database does: every device has a queue of frames with deadlines. A     *)
(* frame joins it only at the tail, under a cursor never used before for   *)
(* that device, and with a deadline at most TTL ahead; it leaves only at   *)
(* its deadline, or from the head together with all that is older. So a    *)
(* device that remembers one cursor knows all it has seen, and what it has *)
(* not seen lies above it, unless it is too old.                           *)
(*                                                                         *)
(* Deadlines need not grow with the cursors: a frame that waited for the   *)
(* database may be due before one that was given a lower cursor.           *)
(***************************************************************************)
EXTENDS Naturals

CONSTANTS Devices, TTL

VARIABLES
  queued,   \* [Devices -> the frames that wait, each its cursor and its deadline]
  issued,   \* [Devices -> the last cursor given to a frame, 0 at first]
  clock

Above(S, k)  == {f \in S : f.cursor > k}
Ahead(S, t)  == {f \in S : f.expires > t}
Frame(c, e)  == [cursor |-> c, expires |-> e]

Init ==
  /\ queued = [d \in Devices |-> {}]
  /\ issued = [d \in Devices |-> 0]
  /\ clock = 0

\* A frame joins the queue of d, after what makes room for it has left the head. One
\* whose deadline is over already takes a cursor and is gone.
Put(d) ==
  /\ issued' = [issued EXCEPT ![d] = @ + 1]
  /\ \E k \in 0..issued[d], e \in 1..(clock + TTL) :
       queued' = [queued EXCEPT ![d] = Above(@, k) \cup Ahead({Frame(issued[d] + 1, e)}, clock)]
  /\ UNCHANGED clock

\* Frames leave the heads of the queues: acknowledged, or their device revoked.
Drop ==
  /\ \A d \in Devices : \E k \in 0..issued[d] : queued'[d] = Above(queued[d], k)
  /\ queued' = [d \in Devices |-> queued'[d]]
  /\ UNCHANGED <<issued, clock>>

\* Time passes, and takes the frames whose deadline it reaches.
Pass ==
  /\ clock' = clock + 1
  /\ queued' = [d \in Devices |-> Ahead(queued[d], clock')]
  /\ UNCHANGED issued

Next == Pass \/ Drop \/ \E d \in Devices : Put(d)

Spec == Init /\ [][Next]_<<queued, issued, clock>>
=============================================================================
