------------------------------ MODULE MailOnce ------------------------------
(***************************************************************************)
(* What the mail module promises its callers (mail-v1, section 3.2),       *)
(* without spool files, processes or crashes: an idempotency key is        *)
(* delivered at most once, what was delivered under it never changes, and  *)
(* a key that was accepted answers "deduped" from then on.  A restart may  *)
(* forget a delivery, but only one that it could not read: such a key is   *)
(* free again, until it is delivered once more or a restart reads it.      *)
(* MailSpool is the mechanism and refines this module.                     *)
(***************************************************************************)
CONSTANTS Keys, Bodies, None

VARIABLES
  delivered,   \* delivered[k]: the body delivered under k, or None
  lost,        \* the keys whose delivery the last restart could not read
  accepted     \* the keys some caller has been told 202 for

onceVars == <<delivered, lost, accepted>>

OnceInit == /\ delivered = [k \in Keys |-> None] /\ lost = {}
            /\ accepted = {}

(* A message goes out for the first time under its key, or for the first   *)
(* time that is known.  The caller may never learn of it (the process dies *)
(* before it answers).                                                     *)
Deliver(k, b) == /\ delivered[k] = None \/ k \in lost
                 /\ delivered' = [delivered EXCEPT ![k] = b]
                 /\ lost' = lost \ {k}
                 /\ accepted' \in {accepted, accepted \union {k}}

(* An attempt to deliver under a forgotten key destroys what was there.    *)
Destroy(k) == /\ k \in lost
              /\ delivered' = [delivered EXCEPT ![k] = None]
              /\ lost' = lost \ {k}
              /\ UNCHANGED accepted

(* A repeated key: accepted again, nothing is sent.                        *)
Repeat(k) == /\ delivered[k] # None /\ k \notin lost
             /\ accepted' = accepted \union {k}
             /\ UNCHANGED <<delivered, lost>>

(* A restart that cannot read the deliveries of some keys.                 *)
Forget(keys) == /\ \A k \in keys : delivered[k] # None
                /\ lost' = keys
                /\ UNCHANGED <<delivered, accepted>>

OnceNext == \/ \E keys \in SUBSET Keys : Forget(keys)
            \/ \E k \in Keys : Repeat(k) \/ Destroy(k) \/ \E b \in Bodies : Deliver(k, b)

OnceSpec == OnceInit /\ [][OnceNext]_onceVars
=============================================================================
