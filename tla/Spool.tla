-------------------------------- MODULE Spool --------------------------------
(***************************************************************************)
(* What the DLL and the queue directory together promise a host            *)
(* application, whatever crashes: a call either queues the whole message   *)
(* or refuses it, a queued message keeps its attachments, and it leaves    *)
(* the queue once, when somebody consumed it (drafted or dismissed) or     *)
(* because it failed validation.                                           *)
(***************************************************************************)
CONSTANTS Msgs, Invalid

VARIABLE mail   (* mail[m] : where message m is                            *)

SpoolInit == mail = [m \in Msgs |-> "new"]

Move(m, from, to) == mail[m] = from /\ mail' = [mail EXCEPT ![m] = to]

Queue(m)   == Move(m, "new", "queued")
Refuse(m)  == Move(m, "new", "refused")
Consume(m) == m \notin Invalid /\ Move(m, "queued", "consumed")
Reject(m)  == m \in Invalid /\ Move(m, "queued", "rejected")

SpoolNext == \E m \in Msgs : Queue(m) \/ Refuse(m) \/ Consume(m) \/ Reject(m)

SpoolSpec == SpoolInit /\ [][SpoolNext]_mail
=============================================================================
