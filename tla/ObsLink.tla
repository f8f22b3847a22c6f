------------------------------- MODULE ObsLink -------------------------------
(***************************************************************************)
(* What the supervision of the OBS connection promises to commands: at any *)
(* moment there is at most one client to be had, it is the one of the      *)
(* newest connection, a client whose connection has been lost is taken     *)
(* back, and once supervision is over there is none ever again.            *)
(***************************************************************************)
CONSTANTS Session, NoSession

VARIABLES
  open,    \* the connections whose socket is open
  newest,  \* the connection being brought up, served or taken down
  handle,  \* the client commands are given
  over     \* supervision has ended for good

vars == <<open, newest, handle, over>>

Init == open = {} /\ newest = NoSession /\ handle = NoSession /\ over = FALSE

Open(s) ==
  /\ ~over /\ newest = NoSession /\ s \notin open
  /\ open' = open \union {s}
  /\ newest' = s
  /\ UNCHANGED <<handle, over>>

Close(s) ==
  /\ open' = open \ {s}
  /\ UNCHANGED <<newest, handle, over>>

HandOut ==
  /\ handle = NoSession /\ newest # NoSession
  /\ handle' = newest
  /\ UNCHANGED <<open, newest, over>>

TakeBack ==
  /\ handle' = NoSession
  /\ UNCHANGED <<open, newest, over>>

Forget ==
  /\ handle = NoSession
  /\ newest' = NoSession
  /\ over' \in {over, TRUE}
  /\ UNCHANGED <<open, handle>>

Next ==
  \/ \E s \in Session : Open(s) \/ Close(s)
  \/ HandOut \/ TakeBack \/ Forget

Spec == Init /\ [][Next]_vars

(* A lost connection's client is taken back.                               *)
FairSpec == Spec /\ WF_vars(TakeBack /\ handle \notin open)
=============================================================================
