----------------------------- MODULE MessageChannel -----------------------------
(***************************************************************************)
(* What a data link with checksums promises, without frames: a message     *)
(* may be lost, but one that is delivered is the one that was sent last,   *)
(* unchanged, and it is delivered once.                                    *)
(***************************************************************************)
EXTENDS Sequences

CONSTANT Messages

VARIABLES
  pending,   \* the message on its way, if any
  delivered  \* the messages that arrived

Init == pending = {} /\ delivered = <<>>

\* The message before that did not arrive is lost.
Send ==
  /\ pending' \in {{m} : m \in Messages} \cup {{}}
  /\ UNCHANGED delivered

Deliver ==
  /\ \E m \in pending : delivered' = Append(delivered, m)
  /\ pending' = {}

Next == Send \/ Deliver

Spec == Init /\ [][Next]_<<pending, delivered>>
================================================================================
