--------------------------- MODULE MailDisposition ---------------------------
(***************************************************************************)
(* What one sieve_execute_script call promises its host, with no action    *)
(* list, loop or callback in sight: while a call is busy the message       *)
(* meets fates one at a time, never both rejected and delivered; the call  *)
(* returns, and it returns success only when the message was placed       *)
(* somewhere.  A crash may end a call at any point, and the host process  *)
(* starts again.                                                           *)
(***************************************************************************)
EXTENDS FiniteSets

VARIABLES
  state,   \* "idle", "busy", "returned" or "crashed"
  fates,   \* what has happened to the current message
  result   \* "none" until the call returns "OK" or "FAIL"

avars == <<state, fates, result>>

Fates     == {"kept", "rejected", "forwarded", "discarded", "replied", "notified"}
Delivered == {"kept", "forwarded", "replied"}
Placed    == {"kept", "rejected", "forwarded", "discarded"}

(* A fate the message may meet now: a rejection and a delivery exclude     *)
(* each other.                                                             *)
Compatible(f, fs) ==
  /\ f = "rejected" => fs \cap Delivered = {}
  /\ f \in Delivered => "rejected" \notin fs

AInit ==
  /\ state = "idle"
  /\ fates = {}
  /\ result = "none"

(* The host hands in a message.                                            *)
Call ==
  /\ state \in {"idle", "returned"}
  /\ state' = "busy" /\ fates' = {} /\ result' = "none"

(* The script is refused outright: nothing happens to the message.         *)
Refuse ==
  /\ state \in {"idle", "returned"}
  /\ state' = "returned" /\ fates' = {} /\ result' = "FAIL"

Perform(f) ==
  /\ state = "busy"
  /\ Compatible(f, fates)
  /\ fates' = fates \cup {f}
  /\ UNCHANGED <<state, result>>

(* The call returns, possibly reporting one last fate with it.             *)
Return(r) ==
  /\ state = "busy"
  /\ \E g \in {{}} \cup {{f} : f \in {x \in Fates : Compatible(x, fates)}} :
        fates' = fates \cup g
  /\ r = "OK" => fates' \cap Placed # {}
  /\ state' = "returned" /\ result' = r

Crash ==
  /\ state # "crashed"
  /\ state' = "crashed"
  /\ UNCHANGED <<fates, result>>

Recover ==
  /\ state = "crashed"
  /\ state' = "idle"
  /\ UNCHANGED <<fates, result>>

ANext ==
  \/ Call \/ Refuse \/ (\E f \in Fates : Perform(f))
  \/ (\E r \in {"OK", "FAIL"} : Return(r)) \/ Crash \/ Recover

(* A busy call always ends: returning is always possible.                  *)
ASpec == AInit /\ [][ANext]_avars /\ WF_avars(\E r \in {"OK", "FAIL"} : Return(r))

=============================================================================
