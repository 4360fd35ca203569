----------------------------- MODULE MailSpool -----------------------------
(***************************************************************************)
(* The mail module with its spool driver: one JSON file per accepted       *)
(* message, and an idempotency table that is rebuilt from those files at   *)
(* every boot.  driver.send never suspends, so a request is one step,      *)
(* except that the write of the spool file can fail half way or the        *)
(* process can die in it.  The spool directory outlives the process; the   *)
(* settings may change from one boot to the next.                          *)
(***************************************************************************)
EXTENDS Naturals, FiniteSets

CONSTANTS
  MailKeys,       \* idempotency keys
  MailBodies,     \* message contents
  MailFails,      \* the values mail.fail takes: a subset of {"", "503", "429", "422"}
  MailDomains,    \* the values mail.domain takes: "" or a domain
  MaxRecipients,  \* MAX_RECIPIENTS
  MaxCrashes,     \* bound: how often the process dies
  None, Torn      \* no spool file; a spool file that is not whole JSON

ASSUME MailAssumption == /\ None \notin MailBodies /\ Torn \notin MailBodies /\ None # Torn
                         /\ MaxRecipients \in Nat /\ MaxCrashes \in Nat

VARIABLES
  spool,      \* spool[k]: the file of key k: None, Torn or the body it holds
  seen,       \* the keys of self._seen; {} while the process is down
  unread,     \* history: keys whose file the last boot could not read, and that
              \* have not been written to since
  mailUp,     \* the process runs
  mailCfg,    \* the settings of this boot: fail, sender, domain
  answered,   \* history: keys answered 202 and not a dry run
  mailAnswer, \* the last answer: <<status, deduped>>
  crashes

mailVars == <<spool, seen, unread, mailUp, mailCfg, answered, mailAnswer, crashes>>

(* Addresses as the policy checks read them: local part, +tag, domain.     *)
MailAddress == [local : {"bot", "eve"}, tag : {"", "x"}, domain : {"corp"}]
BotAddress == [local |-> "bot", tag |-> "", domain |-> "corp"]

MailConfigs == [fail : MailFails, sender : {None, BotAddress}, domain : MailDomains]

(* A request: recipients are a set of domains, one address for each.  One  *)
(* without a key, a recipient or the token has nothing else of interest.   *)
Request(key, from, to, more, body, dry, authorized) ==
  [key |-> key, from |-> from, to |-> to, more |-> more, body |-> body, dry |-> dry,
   authorized |-> authorized]
MailRequests ==
  {Request(k, a, {"corp"}, more, b, dry, TRUE) : k \in MailKeys, a \in MailAddress,
     more \in {{}, {"out"}, {"corp", "out"}}, b \in MailBodies, dry \in BOOLEAN}
  \union {Request(k, BotAddress, to, {}, b, FALSE, t) : k \in MailKeys \union {None},
             to \in {{}, {"corp"}}, b \in MailBodies, t \in BOOLEAN}

StripPlus(a) == [a EXCEPT !.tag = ""]

(* The wire checks: a key, at least one recipient in `to`, and not more    *)
(* than MAX_RECIPIENTS over to, cc and bcc.                                *)
ParseSend(r) == /\ r.key # None
                /\ r.to # {}
                /\ Cardinality(r.to) + Cardinality(r.more) =< MaxRecipients

(* _require_token.                                                         *)
Authorized(r) == r.authorized

Unroutable(r) == IF mailCfg.domain = "" THEN {}
                 ELSE {d \in r.to \union r.more : d # mailCfg.domain}

(* The status of a request that is refused before the table is consulted,  *)
(* or 0: the token, validation, the forced failures, the sender, then the  *)
(* recipients (all or nothing).                                            *)
Refusal(r) ==
  CASE ~Authorized(r) -> 401
    [] ~ParseSend(r) -> 400
    [] mailCfg.fail = "503" -> 503
    [] mailCfg.fail = "429" -> 429
    [] mailCfg.sender # None /\ StripPlus(r.from) # StripPlus(mailCfg.sender) -> 403
    [] mailCfg.fail = "422" \/ Unroutable(r) # {} -> 422
    [] OTHER -> 0

WholeFiles == {k \in MailKeys : spool[k] \notin {None, Torn}}

\* Variant: the table is not rebuilt.
Boot_empty == /\ ~mailUp /\ mailUp' = TRUE
              /\ mailCfg' \in MailConfigs /\ seen' = {} /\ unread' = {}
              /\ UNCHANGED <<spool, answered, mailAnswer, crashes>>

(* SpoolMailDriver.__init__: every file that can be read and parses gives  *)
(* its key back; a torn one, or one whose open or read is an OSError, is   *)
(* skipped.  Boot may come with other settings.                            *)
Boot == /\ ~mailUp /\ mailUp' = TRUE
        /\ mailCfg' \in MailConfigs
        /\ unread' \in SUBSET WholeFiles
        /\ seen' = WholeFiles \ unread'
        /\ UNCHANGED <<spool, answered, mailAnswer, crashes>>

Told(status, deduped) == mailAnswer' = <<status, deduped>>

(* Everything that leaves no trace: refusals, and a dry run that passes    *)
(* all checks.                                                             *)
SendRefused(r) == /\ mailUp /\ Refusal(r) # 0
                  /\ Told(Refusal(r), FALSE)
                  /\ UNCHANGED <<spool, seen, unread, mailUp, mailCfg, answered, crashes>>
SendDry(r) == /\ mailUp /\ Refusal(r) = 0 /\ r.dry
              /\ Told(202, FALSE)
              /\ UNCHANGED <<spool, seen, unread, mailUp, mailCfg, answered, crashes>>

SendDeduped(r) == /\ mailUp /\ Refusal(r) = 0 /\ ~r.dry /\ r.key \in seen
                  /\ Told(202, TRUE)
                  /\ answered' = answered \union {r.key}
                  /\ UNCHANGED <<spool, seen, unread, mailUp, mailCfg, crashes>>

MayWrite(r) == mailUp /\ Refusal(r) = 0 /\ ~r.dry /\ r.key \notin seen

SendDelivered(r) == /\ MayWrite(r)
                    /\ spool' = [spool EXCEPT ![r.key] = r.body]
                    /\ seen' = seen \union {r.key} /\ unread' = unread \ {r.key}
                    /\ Told(202, FALSE)
                    /\ answered' = answered \union {r.key}
                    /\ UNCHANGED <<mailUp, mailCfg, crashes>>

(* The write fails (no space, or the file cannot be opened): 503, the key  *)
(* stays free, and what is left of the file is a fragment or nothing.      *)
SendFails(r) == /\ MayWrite(r)
                /\ \/ UNCHANGED <<spool, unread>>
                   \/ spool' = [spool EXCEPT ![r.key] = Torn] /\ unread' = unread \ {r.key}
                /\ Told(503, FALSE)
                /\ UNCHANGED <<seen, mailUp, mailCfg, answered, crashes>>

(* The process dies: between requests, or in the write with any part of    *)
(* the file on disk, the whole of it included.                             *)
Die == /\ mailUp /\ crashes < MaxCrashes
       /\ mailUp' = FALSE /\ seen' = {} /\ crashes' = crashes + 1
       /\ UNCHANGED <<mailCfg, answered, mailAnswer>>

MailCrash == Die /\ UNCHANGED <<spool, unread>>

SendCrash(r) == /\ MayWrite(r) /\ Die
                /\ spool' \in {[spool EXCEPT ![r.key] = c] : c \in {Torn, r.body}}
                /\ unread' = unread \ {r.key}

MailInit == /\ spool = [k \in MailKeys |-> None] /\ seen = {} /\ unread = {}
            /\ mailUp = FALSE
            /\ mailCfg = [fail |-> "", sender |-> None, domain |-> ""]
            /\ answered = {} /\ mailAnswer = <<0, FALSE>> /\ crashes = 0

MailNext == \/ Boot
            \/ MailCrash
            \/ \E r \in MailRequests :
                  \/ SendRefused(r) \/ SendDry(r) \/ SendDeduped(r)
                  \/ SendDelivered(r) \/ SendFails(r) \/ SendCrash(r)

MailSpec == MailInit /\ [][MailNext]_mailVars

-----------------------------------------------------------------------------
(* A request answered with an error delivered nothing and used up no key:  *)
(* the caller may repeat it under the same key.                            *)
ErrorLeavesNoTrace ==
  [][mailUp' /\ mailAnswer' # mailAnswer /\ mailAnswer'[1] # 202
     => /\ seen' = seen
        /\ \A k \in MailKeys : spool'[k] # spool[k] =>
             spool'[k] = Torn /\ k \notin answered \ unread]_mailVars

(* The spool implements the promise: a file that parses is a delivery.     *)
Once == INSTANCE MailOnce
          WITH Keys <- MailKeys, Bodies <- MailBodies, accepted <- answered, lost <- unread,
               delivered <- [k \in MailKeys |-> IF spool[k] = Torn THEN None ELSE spool[k]]

(* Keyed delivery is at most once and never rewritten, save for a key      *)
(* whose file the last boot could not read: every step of the spool        *)
(* driver, crashes included, is a step of MailOnce or changes nothing a    *)
(* caller can see; and errors leave keys free.                             *)
DeliversOnce == Once!OnceSpec /\ ErrorLeavesNoTrace

(* mail-v1, section 5: "dedup survives a restart for as long as the spool  *)
(* is retained", so that every key accepted, and not torn since, is known. *)
DedupSurvives == mailUp => answered \subseteq seen
=============================================================================
