---------------------------- MODULE ReliableLink ----------------------------
(***************************************************************************)
(* What the connected data channel promises the layers above it: each      *)
(* direction is a stop-and-wait channel.  A PDU put into transmission is    *)
(* processed by the other end at most once and in order, nothing else is    *)
(* ever processed, and while the other end is open the next PDU starts only *)
(* when the previous one has been processed.  An end that closes processes  *)
(* and sends nothing more.                                                 *)
(***************************************************************************)
EXTENDS Integers, Sequences

CONSTANTS Central, Peripheral

VARIABLES connected, sent, rcvd

Ends == {Central, Peripheral}
Other(n) == IF n = Central THEN Peripheral ELSE Central

(* t is s with one PDU appended *)
OneMore(s, t) == Len(t) = Len(s) + 1 /\ SubSeq(t, 1, Len(s)) = s

Init ==
  /\ connected = [n \in Ends |-> TRUE]
  /\ sent = [n \in Ends |-> <<>>]
  /\ rcvd = [n \in Ends |-> <<>>]

Send(n) ==
  /\ connected[n]
  /\ connected[Other(n)] => sent[n] = rcvd[Other(n)]
  /\ OneMore(sent[n], sent'[n])
  /\ sent' = [sent EXCEPT ![n] = sent'[n]]
  /\ UNCHANGED <<connected, rcvd>>

Receive(n) ==
  /\ connected[n]
  /\ Len(rcvd[n]) < Len(sent[Other(n)])
  /\ rcvd' = [rcvd EXCEPT ![n] = Append(@, sent[Other(n)][Len(rcvd[n]) + 1])]
  /\ UNCHANGED <<connected, sent>>

Close(n) ==
  /\ connected[n]
  /\ connected' = [connected EXCEPT ![n] = FALSE]
  /\ UNCHANGED <<sent, rcvd>>

Next == \E n \in Ends : Send(n) \/ Receive(n) \/ Close(n)

Spec == Init /\ [][Next]_<<connected, sent, rcvd>>
=============================================================================
