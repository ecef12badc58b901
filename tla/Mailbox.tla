------------------------------- MODULE Mailbox -------------------------------
(***************************************************************************)
(* What a session promises about the entries it accepts, whatever channels *)
(* and queues they pass through: two lanes, one per mode; in a lane an     *)
(* entry waits behind those accepted before it, and it leaves by being     *)
(* served in that order, once, by being withdrawn, or by the loss of       *)
(* everything that waits.                                                  *)
(***************************************************************************)
EXTENDS Naturals, Sequences

CONSTANTS
  Entry,  \* what may be accepted
  Guide   \* the entries of the lane that is served during a chain

VARIABLES
  accepted,  \* the entries accepted, in order
  served,    \* how often each entry has been served
  gone       \* the entries withdrawn or lost

vars == <<accepted, served, gone>>

Known == {accepted[i] : i \in DOMAIN accepted}
Waiting == {e \in Known : served[e] = 0 /\ e \notin gone}

SameLane(e, f) == e \in Guide <=> f \in Guide
\* What was accepted before an entry of the same lane.
Ahead(e) ==
  {f \in Known : /\ SameLane(f, e)
                 /\ \E i, j \in DOMAIN accepted : i < j /\ accepted[i] = f /\ accepted[j] = e}

Init ==
  /\ accepted = <<>>
  /\ served = [e \in Entry |-> 0]
  /\ gone = {}

\* An entry is accepted once.
Accept(e) ==
  /\ e \notin Known
  /\ accepted' = Append(accepted, e)
  /\ UNCHANGED <<served, gone>>

\* Nothing that waits in its lane is overtaken.
Serve(e) ==
  /\ e \in Waiting
  /\ Ahead(e) \cap Waiting = {}
  /\ served' = [served EXCEPT ![e] = @ + 1]
  /\ UNCHANGED <<accepted, gone>>

Withdraw(e) ==
  /\ e \in Waiting
  /\ gone' = gone \cup {e}
  /\ UNCHANGED <<accepted, served>>

LoseAll ==
  /\ gone' = gone \cup Waiting
  /\ UNCHANGED <<accepted, served>>

Next == (\E e \in Entry : Accept(e) \/ Serve(e) \/ Withdraw(e)) \/ LoseAll

Spec == Init /\ [][Next]_vars
=============================================================================
