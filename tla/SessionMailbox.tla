--------------------------- MODULE SessionMailbox ---------------------------
(***************************************************************************)
(* A session task implements a mailbox: an entry is accepted by the inbound *)
(* channel, waits there, in one of the two queues or in the batch, and is  *)
(* served when the history or the echo shows it.                           *)
(***************************************************************************)
EXTENDS SessionTask

Shown == [e \in Entry |-> TimesConsumed(e)]
Gone == removed \cup lost

Box == INSTANCE Mailbox WITH accepted <- sent, served <- Shown, gone <- Gone

\* Every step of the callers and of the task is a step of the mailbox or leaves it
\* as it is: moving an entry from the channel to a queue, a queue behind another or
\* into a batch changes nothing, and no path lets an entry overtake another of its
\* mode.
ImplementsMailbox == Box!Spec
=============================================================================
