------------------------------ MODULE Session ------------------------------
(***************************************************************************)
(* What a session of vtun promises the two devices it links, whatever      *)
(* lfd_linker(), the framing and the network do to keep the promise.       *)
(***************************************************************************)
EXTENDS Naturals, Sequences

CONSTANTS
  Ends,
  Peer(_)

VARIABLES
  reliable,  \* frames are delivered in the order they were sent, each once
  intact,    \* and as they were sent
  sent,      \* sent[e]: frames taken from the device of e, numbered from 1
  got,       \* got[e]: the frames written to the device of e; 0 is a spoilt one
  told,      \* told[e]: e was sent a signal
  open       \* open[e]: e still links its device

promise == <<reliable, intact>>
vars == <<promise, sent, got, told, open>>

Init ==
  /\ reliable \in BOOLEAN /\ intact \in BOOLEAN
  /\ sent = [e \in Ends |-> 0]
  /\ got = [e \in Ends |-> <<>>]
  /\ told = [e \in Ends |-> FALSE]
  /\ open = [e \in Ends |-> TRUE]

Send(e) ==
  /\ open[e]
  /\ sent' = [sent EXCEPT ![e] = @ + 1]
  /\ open' \in {open, [open EXCEPT ![e] = FALSE]}
  /\ UNCHANGED <<promise, got, told>>

Deliver(e) ==
  /\ open[e]
  /\ \E n \in 1 .. sent[Peer(e)] :
       /\ reliable => n = Len(got[e]) + 1
       /\ got' = [got EXCEPT ![e] = Append(@, n)]
  /\ open' \in {open, [open EXCEPT ![e] = FALSE]}
  /\ UNCHANGED <<promise, sent, told>>

\* A spoilt frame, where the session does not promise intact ones.
Spoil(e) ==
  /\ open[e] /\ ~intact
  /\ got' = [got EXCEPT ![e] = Append(@, 0)]
  /\ open' \in {open, [open EXCEPT ![e] = FALSE]}
  /\ UNCHANGED <<promise, sent, told>>

\* Or the first part of one, the last thing that an end does when told to stop.
Cut(e) ==
  /\ open[e] /\ told[e]
  /\ got' = [got EXCEPT ![e] = Append(@, 0)]
  /\ open' = [open EXCEPT ![e] = FALSE]
  /\ UNCHANGED <<promise, sent, told>>

Tell(e) ==
  /\ told' = [told EXCEPT ![e] = TRUE]
  /\ UNCHANGED <<promise, sent, got, open>>

Close(e) ==
  /\ open[e]
  /\ open' = [open EXCEPT ![e] = FALSE]
  /\ UNCHANGED <<promise, sent, got, told>>

Next ==
  \E e \in Ends :
    Send(e) \/ Deliver(e) \/ Spoil(e) \/ Cut(e) \/ Tell(e) \/ Close(e)

Spec == Init /\ [][Next]_vars
=============================================================================
