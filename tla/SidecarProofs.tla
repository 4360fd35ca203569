---------------------------- MODULE SidecarProofs ----------------------------
(***************************************************************************)
(* Proofs about the sidecar and its modules: mail (module MailSpool), SQL  *)
(* (Sql), the LLM proxy (LlmProxy), the scratch directories (Scratch) and  *)
(* the process that boots them (Sidecar), for every value of the           *)
(* constants.                                                              *)
(*                                                                         *)
(* Each part has an inductive invariant, a lemma for each kind of step     *)
(* that keeps it, and a theorem that states what MCSidecar and MCSql check *)
(* on small instances; for mail that is the refinement of MailOnce.        *)
(***************************************************************************)
EXTENDS MailSpool, Sql, LlmProxy, Scratch, Sidecar, FiniteSetTheorems, TLAPS

-----------------------------------------------------------------------------
\* Mail.

\* The spool holds a whole message for k.
Whole(k) == spool[k] \in MailBodies

\* What the idempotency table and the answers rest on: while the sidecar
\* runs, its table has exactly the keys with a whole message that its boot could
\* read; a key that a client was told 202 for has a file, whole or, after a
\* write over one that was not read, torn.
MailInv ==
  /\ spool \in [MailKeys -> MailBodies \cup {None, Torn}]
  /\ seen \subseteq MailKeys /\ answered \subseteq MailKeys /\ unread \subseteq MailKeys
  /\ mailUp => \A k \in MailKeys : k \in seen <=> Whole(k) /\ k \notin unread
  /\ \A k \in unread : Whole(k)
  /\ \A k \in answered : Whole(k) \/ spool[k] = Torn

\* A request that reaches the driver has a key and a body.
LEMMA Accepted ==
  ASSUME NEW r \in MailRequests, Refusal(r) = 0
  PROVE  r.key \in MailKeys /\ r.body \in MailBodies
PROOF
  <1>1. r.key \in MailKeys \cup {None} /\ r.body \in MailBodies
    BY DEF MailRequests, Request
  <1>2. ParseSend(r)
    BY DEF Refusal
  <1>. QED BY <1>1, <1>2 DEF ParseSend

\* A message is neither absence nor the torn remains of a crash.
LEMMA Bodies == \A b \in MailBodies : b # None /\ b # Torn
  BY MailAssumption DEF MailAssumption

\* What an answer other than 202 leaves behind: the table as it was, and of
\* the spool at most a torn file for a key nobody was told was delivered, or
\* whose delivery the boot could not read.
Trace ==
  mailUp' /\ mailAnswer' # mailAnswer /\ mailAnswer'[1] # 202
     => /\ seen' = seen
        /\ \A k \in MailKeys : spool'[k] # spool[k] => spool'[k] = Torn /\ k \notin answered \ unread

\* Writing the file of a key that is not in the table.
LEMMA WriteStep ==
  ASSUME MailInv, NEW r \in MailRequests, MayWrite(r), NEW c \in {Torn, r.body},
         spool' = [spool EXCEPT ![r.key] = c], unread' = unread \ {r.key}
  PROVE  /\ r.key \in MailKeys /\ (Whole(r.key) => r.key \in unread)
         /\ spool' \in [MailKeys -> MailBodies \cup {None, Torn}]
         /\ spool'[r.key] = c /\ \A k \in MailKeys \ {r.key} : spool'[k] = spool[k]
         /\ \A k \in answered : Whole(k)' \/ spool'[k] = Torn
         /\ \A k \in unread' : Whole(k)'
         /\ unread' \subseteq MailKeys
PROOF
  <1>1. r.key \in MailKeys /\ r.body \in MailBodies
    BY Accepted DEF MayWrite
  <1>2. Whole(r.key) => r.key \in unread
    BY <1>1 DEF MayWrite, MailInv
  <1>. QED BY <1>1, <1>2 DEF MailInv, Whole

\* The refinement mapping: the mailbox of MailOnce holds the whole messages.
Delivered == [k \in MailKeys |-> IF spool[k] = Torn THEN None ELSE spool[k]]

\* The mailbox at one key.
LEMMA DeliveredAt ==
  ASSUME NEW k \in MailKeys, MailInv
  PROVE  Delivered[k] = IF Whole(k) THEN spool[k] ELSE None
  BY Bodies DEF Delivered, Whole, MailInv

\* Writing a whole message for a key that is not in the table is the delivery
\* of MailOnce.
LEMMA DeliverStep ==
  ASSUME MailInv, NEW r \in MailRequests, MayWrite(r), spool' = [spool EXCEPT ![r.key] = r.body],
         unread' = unread \ {r.key},
         answered' \in {answered, answered \cup {r.key}}
  PROVE  Once!Deliver(r.key, r.body) /\ r.key \in MailKeys /\ r.body \in MailBodies
PROOF
  <1>1. r.key \in MailKeys /\ r.body \in MailBodies
    BY Accepted DEF MayWrite
  <1>2. (Whole(r.key) => r.key \in unread) /\ spool'[r.key] = r.body /\ \A k \in MailKeys \ {r.key} : spool'[k] = spool[k]
    BY WriteStep
  <1>3. Delivered[r.key] = None \/ r.key \in unread
    BY <1>1, <1>2, DeliveredAt
  <1>4. Delivered' = [Delivered EXCEPT ![r.key] = r.body]
    BY <1>1, <1>2, Bodies DEF Delivered
  <1>. QED BY <1>1, <1>3, <1>4 DEF Delivered, Once!Deliver

\* A torn file delivers nothing; over a message that was not read, it destroys
\* that.
LEMMA TornStep ==
  ASSUME MailInv, NEW r \in MailRequests, MayWrite(r), spool' = [spool EXCEPT ![r.key] = Torn],
         unread' = unread \ {r.key}, answered' = answered
  PROVE  (Once!Destroy(r.key) /\ r.key \in MailKeys) \/ UNCHANGED Once!onceVars
PROOF
  <1>1. r.key \in MailKeys
    BY Accepted DEF MayWrite
  <1>2. /\ (Whole(r.key) => r.key \in unread) /\ spool'[r.key] = Torn
        /\ \A k \in MailKeys \ {r.key} : spool'[k] = spool[k]
    BY WriteStep
  <1>3. Delivered' = [Delivered EXCEPT ![r.key] = None]
    BY <1>1, <1>2 DEF Delivered
  <1>4. CASE r.key \in unread
    BY <1>1, <1>3, <1>4 DEF Delivered, Once!Destroy
  <1>5. CASE r.key \notin unread
    <2>1. ~Whole(r.key) /\ unread' = unread
      BY <1>2, <1>5
    <2>2. Delivered' = Delivered
      BY <1>1, <1>2, <2>1 DEF Delivered, Whole, MailInv
    <2>. QED BY <2>1, <2>2 DEF Delivered, Once!onceVars
  <1>. QED BY <1>4, <1>5

\* Every request, a crash in the middle of a write and the restart that
\* rereads the spool keep the invariant.
LEMMA MailInvStep ==
  ASSUME MailInv, [MailNext]_mailVars
  PROVE  MailInv'
PROOF
  <1>1. CASE Boot
    <2>1. \A k \in MailKeys : k \in WholeFiles <=> Whole(k)
      BY Bodies DEF WholeFiles, Whole, MailInv
    <2>. QED BY <1>1, <2>1 DEF Boot, WholeFiles, MailInv, Whole
  <1>2. CASE MailCrash
    BY <1>2 DEF MailCrash, Die, MailInv, Whole
  <1>3. CASE UNCHANGED mailVars
    BY <1>3 DEF mailVars, MailInv, Whole
  <1>4. ASSUME NEW r \in MailRequests,
               SendRefused(r) \/ SendDry(r) \/ SendDeduped(r) \/ SendDelivered(r) \/ SendFails(r) \/ SendCrash(r)
        PROVE  MailInv'
    <2>1. CASE SendRefused(r) \/ SendDry(r)
      BY <2>1 DEF SendRefused, SendDry, MailInv, Whole
    <2>2. CASE SendDeduped(r)
      BY <2>2 DEF SendDeduped, MailInv, Whole
    <2>3. CASE SendDelivered(r)
      <3>1. /\ spool' = [spool EXCEPT ![r.key] = r.body] /\ r.body \in MailBodies /\ MayWrite(r)
            /\ unread' = unread \ {r.key}
        BY <2>3, Accepted DEF SendDelivered, MayWrite
      <3>2. /\ r.key \in MailKeys /\ spool' \in [MailKeys -> MailBodies \cup {None, Torn}]
            /\ spool'[r.key] = r.body /\ \A k \in MailKeys \ {r.key} : spool'[k] = spool[k]
            /\ \A k \in unread' : Whole(k)'
            /\ \A k \in answered : Whole(k)' \/ spool'[k] = Torn
            /\ unread' \subseteq MailKeys
        BY <3>1, WriteStep
      <3>3. /\ seen' = seen \union {r.key} /\ answered' = answered \union {r.key} /\ mailUp /\ mailUp' = mailUp
        BY <2>3 DEF SendDelivered, MayWrite
      <3>. QED BY <3>1, <3>2, <3>3 DEF MailInv, Whole
    <2>4. CASE SendFails(r)
      <3>1. CASE UNCHANGED <<spool, unread>>
        BY <2>4, <3>1 DEF SendFails, MailInv, Whole
      <3>2. CASE spool' = [spool EXCEPT ![r.key] = Torn] /\ unread' = unread \ {r.key}
        <4>1. MayWrite(r) /\ UNCHANGED <<seen, mailUp, answered>>
          BY <2>4 DEF SendFails
        <4>2. /\ r.key \in MailKeys /\ (Whole(r.key) => r.key \in unread)
              /\ spool' \in [MailKeys -> MailBodies \cup {None, Torn}]
              /\ spool'[r.key] = Torn /\ \A k \in MailKeys \ {r.key} : spool'[k] = spool[k]
              /\ \A k \in answered : Whole(k)' \/ spool'[k] = Torn
              /\ \A k \in unread' : Whole(k)'
              /\ unread' \subseteq MailKeys
          BY <3>2, <4>1, WriteStep
        <4>3. r.key \notin seen /\ ~Whole(r.key)'
          BY <4>1, <4>2, Bodies DEF MayWrite, Whole
        <4>4. mailUp' => \A k \in MailKeys : k \in seen' <=> Whole(k)' /\ k \notin unread'
          BY <3>2, <4>1, <4>2, <4>3 DEF MailInv, Whole
        <4>. QED BY <4>1, <4>2, <4>4 DEF MailInv
      <3>. QED BY <2>4, <3>1, <3>2 DEF SendFails
    <2>5. CASE SendCrash(r)
      <3>1. MayWrite(r) /\ ~mailUp' /\ seen' = {} /\ answered' = answered /\ unread' = unread \ {r.key}
        BY <2>5 DEF SendCrash, Die
      <3>2. PICK c \in {Torn, r.body} : spool' = [spool EXCEPT ![r.key] = c]
        BY <2>5 DEF SendCrash
      <3>. QED BY <3>1, <3>2, WriteStep DEF MailInv
    <2>. QED BY <1>4, <2>1, <2>2, <2>3, <2>4, <2>5
  <1>. QED BY <1>1, <1>2, <1>3, <1>4 DEF MailNext

\* Every step of the spool is a step of the promise, or none.
LEMMA OnceStep ==
  ASSUME MailInv, [MailNext]_mailVars
  PROVE  [Once!OnceNext]_(Once!onceVars)
PROOF
  <1>1. CASE UNCHANGED <<spool, unread, answered>>
    BY <1>1 DEF Delivered, Once!onceVars
  <1>2. ASSUME NEW r \in MailRequests, SendDeduped(r) PROVE Once!OnceNext
    <2>1. r.key \in MailKeys
      BY <1>2, Accepted DEF SendDeduped
    <2>2. Delivered[r.key] # None /\ r.key \notin unread
      BY <1>2, <2>1, DeliveredAt, Bodies DEF SendDeduped, MailInv, Whole
    <2>3. Once!Repeat(r.key)
      BY <1>2, <2>2 DEF SendDeduped, Delivered, Once!Repeat
    <2>. QED BY <2>1, <2>3 DEF Once!OnceNext
  <1>3. ASSUME NEW r \in MailRequests, SendDelivered(r) PROVE Once!OnceNext
    BY <1>3, DeliverStep DEF SendDelivered, Once!OnceNext
  <1>4. ASSUME NEW r \in MailRequests, SendFails(r) PROVE [Once!OnceNext]_(Once!onceVars)
    <2>1. CASE UNCHANGED <<spool, unread>>
      BY <1>1, <1>4, <2>1 DEF SendFails
    <2>2. CASE spool' = [spool EXCEPT ![r.key] = Torn] /\ unread' = unread \ {r.key}
      BY <1>4, <2>2, TornStep DEF SendFails, Once!OnceNext
    <2>. QED BY <1>4, <2>1, <2>2 DEF SendFails
  <1>5. ASSUME NEW r \in MailRequests, SendCrash(r) PROVE [Once!OnceNext]_(Once!onceVars)
    <2>1. MayWrite(r) /\ answered' = answered /\ unread' = unread \ {r.key}
      BY <1>5 DEF SendCrash, Die
    <2>2. CASE spool' = [spool EXCEPT ![r.key] = Torn]
      BY <2>1, <2>2, TornStep DEF Once!OnceNext
    <2>3. CASE spool' = [spool EXCEPT ![r.key] = r.body]
      BY <2>1, <2>3, DeliverStep DEF Once!OnceNext
    <2>. QED BY <1>5, <2>2, <2>3 DEF SendCrash
  <1>6. CASE Boot
    <2>1. unread' \in SUBSET WholeFiles /\ UNCHANGED <<spool, answered>>
      BY <1>6 DEF Boot
    <2>2. \A k \in unread' : Delivered[k] # None
      BY <2>1 DEF WholeFiles, Delivered
    <2>3. Once!Forget(unread') /\ unread' \in SUBSET MailKeys
      BY <2>1, <2>2 DEF Once!Forget, Delivered, WholeFiles
    <2>. QED BY <2>3 DEF Once!OnceNext
  <1>7. CASE MailCrash
    BY <1>1, <1>7 DEF MailCrash, Die
  <1>. QED BY <1>1, <1>2, <1>3, <1>4, <1>5, <1>6, <1>7 DEF MailNext, mailVars, SendRefused, SendDry

\* Every step has the property Trace.
LEMMA TraceStep ==
  ASSUME MailInv, [MailNext]_mailVars
  PROVE  [Trace]_mailVars
PROOF
  <1>1. ASSUME NEW r \in MailRequests, SendFails(r) PROVE Trace
    <2>1. CASE spool' = spool
      BY <1>1, <2>1 DEF SendFails, Trace
    <2>2. CASE spool' = [spool EXCEPT ![r.key] = Torn] /\ unread' = unread \ {r.key}
      <3>1. seen' = seen /\ mailUp /\ MayWrite(r)
        BY <1>1 DEF SendFails, MayWrite
      <3>2. /\ r.key \in MailKeys /\ (Whole(r.key) => r.key \in unread) /\ spool'[r.key] = Torn
            /\ \A k \in MailKeys \ {r.key} : spool'[k] = spool[k]
        BY <2>2, <3>1, WriteStep
      <3>3. \A k \in MailKeys : spool'[k] # spool[k] => spool'[k] = Torn /\ k \notin answered \ unread
        BY <3>2 DEF MailInv
      <3>. QED BY <3>1, <3>3 DEF Trace
    <2>. QED BY <1>1, <2>1, <2>2 DEF SendFails
  <1>2. ASSUME NEW r \in MailRequests, SendRefused(r) PROVE Trace
    BY <1>2 DEF SendRefused, Trace
  <1>3. ASSUME NEW r \in MailRequests, SendDry(r) \/ SendDeduped(r) \/ SendDelivered(r) PROVE Trace
    <2>1. \E d : mailAnswer' = <<202, d>>
      BY <1>3 DEF SendDry, SendDeduped, SendDelivered, Told
    <2>2. mailAnswer'[1] = 202
      BY <2>1
    <2>. QED BY <2>2 DEF Trace
  <1>4. ASSUME NEW r \in MailRequests, SendCrash(r) PROVE Trace
    BY <1>4 DEF SendCrash, Die, Trace
  <1>5. CASE Boot \/ MailCrash
    BY <1>5 DEF Boot, MailCrash, Die, Trace
  <1>. QED BY <1>1, <1>2, <1>3, <1>4, <1>5 DEF MailNext

\* The mail module implements MailOnce: however requests are repeated, fail
\* or are cut off by a crash, one message per idempotency key is delivered and
\* never replaced, unless a restart could not read its file; an answer other
\* than 202 leaves no trace.
THEOREM MailDeliversOnce == MailSpec => DeliversOnce
PROOF
  <1>1. MailInit => MailInv /\ Once!OnceInit
    BY MailAssumption DEF MailInit, MailInv, Whole, Once!OnceInit, MailAssumption
  <1>2. MailInv /\ [MailNext]_mailVars => MailInv'
    BY MailInvStep
  <1>3. MailInv /\ [MailNext]_mailVars => [Once!OnceNext]_(Once!onceVars)
    BY OnceStep
  <1>4. MailInv /\ [MailNext]_mailVars => [Trace]_mailVars
    BY TraceStep
  <1>5. MailSpec => Once!OnceSpec
    BY <1>1, <1>2, <1>3, PTL DEF MailSpec, Once!OnceSpec
  <1>6. MailSpec => ErrorLeavesNoTrace
    BY <1>1, <1>2, <1>4, PTL DEF MailSpec, ErrorLeavesNoTrace, Trace
  <1>. QED BY <1>5, <1>6 DEF DeliversOnce

-----------------------------------------------------------------------------
\* SQL.

\* The types of the file's contents and of the walks through a list of
\* migrations.
SqlTypeOK ==
  /\ ledger \in Seq(SqlNames) /\ effects \in [SqlNames -> Nat]
  /\ batches \in Seq(Nat \ {0}) /\ confirmed \subseteq DOMAIN batches /\ refused \subseteq DOMAIN batches
  /\ migrated \subseteq SqlLists
  /\ \A p \in SqlProcs : walk[p] # NoTxn => walk[p] \in [names : SqlLists, pos : Nat \ {0}]
  /\ DOMAIN walk = SqlProcs

\* The batches that were committed.
InFile == {n \in DOMAIN batches : <<n, 1>> \in rows}

\* The file holds the statements of the committed batches, and no others: the
\* confirmed ones are among them, the refused ones are not.
RowsByBatch ==
  /\ rows \subseteq Nat \X Nat
  /\ \A n, i \in Nat : <<n, i>> \in rows <=> n \in InFile /\ i \in 1 .. batches[n]
  /\ confirmed \subseteq InFile /\ refused \cap InFile = {}

\* t begins with s, elementwise.
Begins(s, t) == Len(s) =< Len(t) /\ \A i \in 1 .. Len(s) : s[i] = t[i]

\* A walk has seen its own names at the positions before its next one.
WalkFollowsLedger ==
  \A p \in SqlProcs : walk[p] # NoTxn =>
    /\ walk[p].pos =< Len(walk[p].names) + 1 /\ walk[p].pos =< Len(ledger) + 1
    /\ \A i \in 1 .. (walk[p].pos - 1) : walk[p].names[i] = ledger[i]

\* Every list that migrate returned from is the beginning of the ledger.
ListsBegin == \A names \in migrated : Begins(names, ledger)

\* The inductive invariant of the SQL module.
SqlInv == SqlTypeOK /\ RowsByBatch /\ WalkFollowsLedger /\ MigratedOnce /\ ListsBegin

\* What IsPrefix compares.
LEMMA PrefixElements ==
  ASSUME NEW S, NEW s \in Seq(S), NEW t \in Seq(S)
  PROVE  IsPrefix(s, t) <=> Begins(s, t)
PROOF
  <1>1. ASSUME Len(s) =< Len(t) PROVE SubSeq(s, 1, Len(s)) = SubSeq(t, 1, Len(s)) <=> \A i \in 1 .. Len(s) : s[i] = t[i]
    <2>1. /\ SubSeq(s, 1, Len(s)) = [i \in 1 .. Len(s) |-> s[i]]
          /\ SubSeq(t, 1, Len(s)) = [i \in 1 .. Len(s) |-> t[i]]
      BY <1>1
    <2>. QED BY <2>1
  <1>. QED BY <1>1 DEF IsPrefix, Begins

\* Every list is a sequence of names.
LEMMA ListType == \A l \in SqlLists : l \in Seq(SqlNames)
  BY SqlAssumption DEF SqlAssumption

\* A batch has at least one statement.
LEMMA BatchType ==
  ASSUME NEW b \in Batches
  PROVE  Len(b) \in Nat \ {0} /\ DOMAIN b = 1 .. Len(b)
PROOF
  <1>1. PICK n \in 1 .. MaxBatchLen : b \in [1 .. n -> Statements]
    BY DEF Batches
  <1>2. n \in Nat \ {0}
    BY <1>1, SqlAssumption DEF SqlAssumption
  <1>. QED BY <1>1, <1>2

\* A request that commits no batch and no migration leaves the invariant alone.
LEMMA UncommittedStep ==
  ASSUME SqlInv, UNCHANGED <<rows, ledger, batches, confirmed, refused, migrated>>,
         effects' \in [SqlNames -> Nat], \A m \in SqlNames \ SelfEnding : effects'[m] = effects[m],
         DOMAIN walk' = SqlProcs,
         \A p \in SqlProcs : walk'[p] \in {walk[p], NoTxn}
  PROVE  SqlInv'
PROOF
  <1>1. SqlTypeOK'
    BY DEF SqlInv, SqlTypeOK
  <1>2. RowsByBatch' /\ ListsBegin'
    BY DEF SqlInv, RowsByBatch, InFile, ListsBegin
  <1>3. WalkFollowsLedger'
    BY DEF SqlInv, WalkFollowsLedger
  <1>4. MigratedOnce'
    BY DEF SqlInv, MigratedOnce
  <1>. QED BY <1>1, <1>2, <1>3, <1>4 DEF SqlInv

\* A batch adds a number, and all its rows or none: all if it is confirmed, none
\* if it is refused.
LEMMA BatchStep ==
  ASSUME SqlInv, NEW b \in Batches, batches' = Append(batches, Len(b)),
         \/ rows' = rows /\ confirmed' = confirmed /\ refused' \subseteq refused \union {Len(batches')}
         \/ /\ Running(b) = DOMAIN b /\ rows' = rows \union BatchRows(b)
            /\ confirmed' \subseteq confirmed \union {Len(batches')} /\ refused' = refused,
         UNCHANGED <<ledger, effects, migrated>>, DOMAIN walk' = SqlProcs,
         \A p \in SqlProcs : walk'[p] \in {walk[p], NoTxn}
  PROVE  SqlInv'
PROOF
  <1>. DEFINE n == Len(batches) + 1
  <1>0. /\ batches \in Seq(Nat \ {0}) /\ confirmed \subseteq DOMAIN batches
        /\ refused \subseteq DOMAIN batches
    BY DEF SqlInv, SqlTypeOK
  <1>1. /\ batches' \in Seq(Nat \ {0}) /\ Len(batches') = n /\ n \in Nat \ {0}
        /\ DOMAIN batches = 1 .. Len(batches) /\ DOMAIN batches' = 1 .. n
        /\ batches'[n] = Len(b) /\ \A i \in DOMAIN batches : batches'[i] = batches[i]
    BY <1>0, BatchType
  <1>2. confirmed' \subseteq DOMAIN batches' /\ refused' \subseteq DOMAIN batches'
    BY <1>0, <1>1
  <1>3. SqlTypeOK'
    BY <1>1, <1>2 DEF SqlInv, SqlTypeOK
  <1>4. MigratedOnce' /\ ListsBegin'
    BY DEF SqlInv, MigratedOnce, ListsBegin
  <1>5. WalkFollowsLedger'
    BY DEF SqlInv, WalkFollowsLedger
  <1>6. RowsByBatch'
    <2>0. /\ rows \subseteq Nat \X Nat
          /\ \A m, i \in Nat : <<m, i>> \in rows <=> m \in InFile /\ i \in 1 .. batches[m]
          /\ confirmed \subseteq InFile /\ refused \cap InFile = {}
      BY DEF SqlInv, RowsByBatch
    <2>n. n \notin InFile /\ InFile \subseteq DOMAIN batches /\ \A i \in Nat : <<n, i>> \notin rows
      BY <2>0, <1>1 DEF InFile
    <2>1. CASE rows' = rows /\ confirmed' = confirmed /\ refused' \subseteq refused \union {Len(batches')}
      <3>1. InFile' = InFile
        BY <2>1, <2>n, <1>1 DEF InFile
      <3>2. \A m, i \in Nat : <<m, i>> \in rows' <=> m \in InFile' /\ i \in 1 .. batches'[m]
        BY <2>0, <2>1, <2>n, <3>1, <1>1
      <3>. QED BY <2>0, <2>1, <2>n, <3>1, <3>2, <1>1 DEF RowsByBatch
    <2>2. CASE /\ Running(b) = DOMAIN b /\ rows' = rows \union BatchRows(b)
               /\ confirmed' \subseteq confirmed \union {Len(batches')} /\ refused' = refused
      <3>1. BatchRows(b) = {<<n, i>> : i \in 1 .. Len(b)}
        BY <2>2, BatchType DEF BatchRows
      <3>2. rows' \subseteq Nat \X Nat
        BY <2>0, <2>2, <3>1, <1>1, BatchType
      <3>3. InFile' = InFile \union {n}
        <4>1. <<n, 1>> \in rows'
          BY <2>2, <3>1, BatchType
        <4>2. \A m \in DOMAIN batches : <<m, 1>> \in rows' <=> <<m, 1>> \in rows
          BY <2>2, <3>1, <1>1
        <4>. QED BY <4>1, <4>2, <1>1, <2>n DEF InFile
      <3>4. ASSUME NEW m \in Nat, NEW i \in Nat
            PROVE  <<m, i>> \in rows' <=> m \in InFile' /\ i \in 1 .. batches'[m]
        <4>1. CASE m = n
          BY <2>2, <2>n, <3>1, <3>3, <4>1, <1>1
        <4>2. CASE m # n
          <5>1. <<m, i>> \in rows' <=> <<m, i>> \in rows
            BY <2>2, <3>1, <4>2
          <5>2. m \in InFile' <=> m \in InFile
            BY <3>3, <4>2
          <5>3. m \in InFile => batches'[m] = batches[m]
            BY <2>n, <1>1
          <5>. QED BY <5>1, <5>2, <5>3, <2>0
        <4>. QED BY <4>1, <4>2
      <3>5. confirmed' \subseteq InFile' /\ refused' \cap InFile' = {}
        BY <2>0, <2>2, <3>3, <1>0, <1>1
      <3>. QED BY <3>2, <3>4, <3>5 DEF RowsByBatch
    <2>. QED BY <2>1, <2>2
  <1>. QED BY <1>3, <1>4, <1>5, <1>6 DEF SqlInv

\* A walk starts where the ledger ends, if its list goes on from there.
LEMMA StartStep ==
  ASSUME SqlInv, NEW p \in SqlProcs, NEW names \in SqlLists, CheckHistory(ledger, names),
         walk' = [walk EXCEPT ![p] = [names |-> names, pos |-> Len(ledger) + 1]],
         UNCHANGED <<rows, ledger, effects, batches, confirmed, refused, migrated>>
  PROVE  SqlInv'
PROOF
  <1>0. ledger \in Seq(SqlNames) /\ names \in Seq(SqlNames) /\ DOMAIN walk = SqlProcs
    BY ListType DEF SqlInv, SqlTypeOK
  <1>1. Begins(ledger, names)
    BY <1>0, PrefixElements DEF CheckHistory
  <1>2. /\ walk'[p] = [names |-> names, pos |-> Len(ledger) + 1]
        /\ \A q \in SqlProcs \ {p} : walk'[q] = walk[q]
    BY <1>0
  <1>3. SqlTypeOK'
    BY <1>0, <1>2 DEF SqlInv, SqlTypeOK
  <1>4. RowsByBatch' /\ MigratedOnce' /\ ListsBegin'
    BY DEF SqlInv, RowsByBatch, InFile, MigratedOnce, ListsBegin
  <1>5. WalkFollowsLedger'
    <2>1. /\ walk'[p].pos = Len(ledger) + 1 /\ walk'[p].names = names
      BY <1>2
    <2>2. /\ walk'[p].pos =< Len(walk'[p].names) + 1 /\ walk'[p].pos =< Len(ledger) + 1
          /\ \A i \in 1 .. (walk'[p].pos - 1) : walk'[p].names[i] = ledger[i]
      BY <1>0, <1>1, <2>1 DEF Begins
    <2>. QED BY <1>2, <2>2 DEF SqlInv, WalkFollowsLedger
  <1>. QED BY <1>3, <1>4, <1>5 DEF SqlInv

\* A walk that is through has its whole list in the ledger.
LEMMA DoneStep ==
  ASSUME SqlInv, NEW p \in SqlProcs, MigrateDone(p)
  PROVE  SqlInv'
PROOF
  <1>. DEFINE names == walk[p].names
  <1>0. /\ walk[p] \in [names : SqlLists, pos : Nat \ {0}] /\ ledger \in Seq(SqlNames)
        /\ DOMAIN walk = SqlProcs /\ walk[p].pos > Len(names)
    BY DEF SqlInv, SqlTypeOK, MigrateDone
  <1>1. names \in SqlLists /\ names \in Seq(SqlNames) /\ walk[p].pos \in Nat
    BY <1>0, ListType
  <1>2. Begins(names, ledger)
    BY <1>0, <1>1 DEF SqlInv, WalkFollowsLedger, Begins, MigrateDone
  <1>3. /\ UNCHANGED <<rows, ledger, effects, batches, confirmed, refused>>
        /\ migrated' = migrated \union {names}
        /\ walk' = [walk EXCEPT ![p] = NoTxn]
    BY DEF MigrateDone, EndWalk, committed
  <1>4. SqlTypeOK'
    BY <1>0, <1>1, <1>3 DEF SqlInv, SqlTypeOK
  <1>5. RowsByBatch' /\ MigratedOnce'
    BY <1>3 DEF SqlInv, RowsByBatch, InFile, MigratedOnce
  <1>6. ListsBegin'
    BY <1>2, <1>3 DEF SqlInv, ListsBegin
  <1>7. WalkFollowsLedger'
    BY <1>0, <1>3 DEF SqlInv, WalkFollowsLedger
  <1>. QED BY <1>4, <1>5, <1>6, <1>7 DEF SqlInv

\* A migration that commits is the next one of its list: another walk that got
\* there first has taken the position or the name.
LEMMA CommitStep ==
  ASSUME SqlInv, NEW p \in SqlProcs, walk[p] # NoTxn, walk[p].pos =< Len(walk[p].names),
         NEW name, name = walk[p].names[walk[p].pos], LedgerTakes(walk[p].pos, name),
         ledger' = Append(ledger, name), effects' \in [SqlNames -> Nat],
         \A m \in SqlNames \ {name} : effects'[m] = effects[m],
         name \notin SelfEnding => effects'[name] = effects[name] + 1,
         walk' = [walk EXCEPT ![p].pos = @ + 1] \/ walk' = [walk EXCEPT ![p] = NoTxn],
         UNCHANGED <<rows, batches, confirmed, refused, migrated>>
  PROVE  SqlInv'
PROOF
  <1>. DEFINE w == walk[p]
  <1>0. /\ w \in [names : SqlLists, pos : Nat \ {0}] /\ ledger \in Seq(SqlNames)
        /\ DOMAIN walk = SqlProcs /\ effects \in [SqlNames -> Nat]
    BY DEF SqlInv, SqlTypeOK
  <1>1. w.names \in SqlLists /\ w.names \in Seq(SqlNames) /\ w.pos \in Nat \ {0} /\ name \in SqlNames
    BY <1>0, ListType
  <1>2. /\ w.pos = Len(ledger) + 1 /\ name \notin ToSet(ledger)
        /\ \A i \in 1 .. Len(ledger) : w.names[i] = ledger[i]
    <2>1. walk[p].pos =< Len(ledger) + 1 /\ \A i \in 1 .. (walk[p].pos - 1) : walk[p].names[i] = ledger[i]
      BY DEF SqlInv, WalkFollowsLedger
    <2>2. Len(ledger) < walk[p].pos /\ name \notin ToSet(ledger)
      BY DEF LedgerTakes
    <2>3. Len(ledger) \in Nat
      BY <1>0
    <2>. QED BY <1>1, <2>1, <2>2, <2>3
  <1>3. /\ ledger' \in Seq(SqlNames) /\ Len(ledger') = Len(ledger) + 1 /\ ledger'[Len(ledger) + 1] = name
        /\ \A i \in 1 .. Len(ledger) : ledger'[i] = ledger[i]
    BY <1>0, <1>1
  <1>4. /\ walk'[p] # NoTxn => /\ walk'[p].names = w.names /\ walk'[p].pos = w.pos + 1
                              /\ walk'[p] \in [names : SqlLists, pos : Nat \ {0}]
        /\ DOMAIN walk' = SqlProcs /\ \A q \in SqlProcs \ {p} : walk'[q] = walk[q]
    <2>0. CASE walk' = [walk EXCEPT ![p] = NoTxn]
      BY <1>0, <2>0
    <2>a. ASSUME walk' = [walk EXCEPT ![p].pos = @ + 1]
          PROVE  /\ walk'[p].names = w.names /\ walk'[p].pos = w.pos + 1
                 /\ walk'[p] \in [names : SqlLists, pos : Nat \ {0}]
                 /\ DOMAIN walk' = SqlProcs /\ \A q \in SqlProcs \ {p} : walk'[q] = walk[q]
      <3>1. /\ walk'[p] = [walk[p] EXCEPT !.pos = @ + 1] /\ DOMAIN walk' = SqlProcs
            /\ \A q \in SqlProcs \ {p} : walk'[q] = walk[q]
        BY <1>0, <2>a
      <3>2. walk'[p].names = w.names /\ walk'[p].pos = w.pos + 1
        BY <3>1, <1>0
      <3>3. walk'[p] \in [names : SqlLists, pos : Nat \ {0}]
        <4>1. w.pos + 1 \in Nat \ {0}
          BY <1>1
        <4>2. walk'[p] = [w EXCEPT !.pos = w.pos + 1]
          BY <3>1
        <4>. QED BY <4>1, <4>2, <1>0
      <3>. QED BY <3>1, <3>2, <3>3
    <2>. QED BY <2>0, <2>a
  <1>5. SqlTypeOK'
    BY <1>0, <1>1, <1>3, <1>4 DEF SqlInv, SqlTypeOK
  <1>6. RowsByBatch'
    BY DEF SqlInv, RowsByBatch, InFile
  <1>7. ListsBegin'
    <2>. SUFFICES ASSUME NEW l \in migrated PROVE Begins(l, ledger')
      BY DEF ListsBegin
    <2>1. Begins(l, ledger) /\ l \in Seq(SqlNames)
      BY ListType DEF SqlInv, SqlTypeOK, ListsBegin
    <2>2. Len(l) \in Nat /\ Len(ledger) \in Nat /\ Len(l) =< Len(ledger)
      BY <2>1, <1>0 DEF Begins
    <2>3. \A i \in 1 .. Len(l) : i \in 1 .. Len(ledger) /\ l[i] = ledger[i]
      BY <2>1, <2>2 DEF Begins
    <2>. QED BY <2>2, <2>3, <1>3 DEF Begins
  <1>8. WalkFollowsLedger'
    <2>. SUFFICES ASSUME NEW q \in SqlProcs, walk'[q] # NoTxn
                  PROVE  /\ walk'[q].pos =< Len(walk'[q].names) + 1 /\ walk'[q].pos =< Len(ledger') + 1
                         /\ \A i \in 1 .. (walk'[q].pos - 1) : walk'[q].names[i] = ledger'[i]
      BY DEF WalkFollowsLedger
    <2>1. CASE q = p
      <3>1. Len(ledger) \in Nat /\ Len(w.names) \in Nat /\ w.pos =< Len(w.names)
        BY <1>0, <1>1
      <3>2. ASSUME NEW i \in 1 .. w.pos PROVE w.names[i] = ledger'[i]
        BY <3>1, <1>2, <1>3
      <3>. QED BY <2>1, <3>1, <3>2, <1>2, <1>3, <1>4
    <2>2. CASE q # p
      <3>1. walk'[q] = walk[q] /\ walk[q] \in [names : SqlLists, pos : Nat \ {0}]
        BY <2>2, <1>4 DEF SqlInv, SqlTypeOK
      <3>2. /\ walk[q].pos =< Len(walk[q].names) + 1 /\ walk[q].pos =< Len(ledger) + 1
            /\ \A i \in 1 .. (walk[q].pos - 1) : walk[q].names[i] = ledger[i]
        BY <3>1 DEF SqlInv, WalkFollowsLedger
      <3>. QED BY <3>1, <3>2, <1>0, <1>3
    <2>. QED BY <2>1, <2>2
  <1>9. MigratedOnce'
    <2>0. /\ DOMAIN ledger = 1 .. Len(ledger) /\ DOMAIN ledger' = 1 .. Len(ledger) + 1 /\ Len(ledger) \in Nat
          /\ \A i \in DOMAIN ledger : ledger[i] # name
      BY <1>0, <1>2, <1>3 DEF ToSet
    <2>1. IsInjective(ledger')
      BY <2>0, <1>3 DEF SqlInv, MigratedOnce, IsInjective
    <2>2. ToSet(ledger') = ToSet(ledger) \cup {name}
      BY <2>0, <1>3 DEF ToSet
    <2>3. ASSUME NEW m \in SqlNames \ SelfEnding PROVE effects'[m] = IF m \in ToSet(ledger') THEN 1 ELSE 0
      <3>1. effects[m] = IF m \in ToSet(ledger) THEN 1 ELSE 0
        BY DEF SqlInv, MigratedOnce
      <3>. QED BY <3>1, <2>2, <1>0, <1>1, <1>2
    <2>. QED BY <2>1, <2>3 DEF MigratedOnce
  <1>. QED BY <1>5, <1>6, <1>7, <1>8, <1>9 DEF SqlInv

\* An empty database satisfies it.
LEMMA SqlInitInv == SqlInit => SqlInv
PROOF
  <1>. SUFFICES ASSUME SqlInit PROVE SqlInv
    OBVIOUS
  <1>1. <<>> \in Seq(SqlNames) /\ <<>> \in Seq(Nat \ {0}) /\ DOMAIN <<>> = {}
    OBVIOUS
  <1>2. SqlTypeOK
    BY <1>1 DEF SqlInit, SqlTypeOK
  <1>3. RowsByBatch
    BY <1>1 DEF SqlInit, RowsByBatch, InFile
  <1>4. WalkFollowsLedger /\ ListsBegin
    BY DEF SqlInit, WalkFollowsLedger, ListsBegin
  <1>5. MigratedOnce
    BY <1>1 DEF SqlInit, MigratedOnce, IsInjective, ToSet
  <1>. QED BY <1>2, <1>3, <1>4, <1>5 DEF SqlInv

\* Every step of every connection, and every crash, keeps the invariant.
LEMMA SqlStepInv == SqlInv /\ [SqlNext]_sqlVars => SqlInv'
PROOF
  <1>. SUFFICES ASSUME SqlInv, [SqlNext]_sqlVars PROVE SqlInv'
    OBVIOUS
  <1>d. DOMAIN walk = SqlProcs
    BY DEF SqlInv, SqlTypeOK
  <1>e. effects \in [SqlNames -> Nat]
    BY DEF SqlInv, SqlTypeOK
  <1>s. ASSUME NEW status, SqlRefuse(status) PROVE SqlInv'
    BY <1>s, <1>d, <1>e, UncommittedStep DEF SqlRefuse, committed, history
  <1>1. ASSUME NEW p \in SqlProcs, SqlOpen(p) \/ SqlCrash(p) PROVE SqlInv'
    BY <1>1, <1>d, <1>e, UncommittedStep DEF SqlOpen, SqlCrash, SqlDies, committed, history
  <1>2. ASSUME NEW p \in SqlProcs, NEW st, Query(p, st) PROVE SqlInv'
    BY <1>2, <1>d, <1>e, <1>s, UncommittedStep DEF Query, committed, history
  <1>3. ASSUME NEW p \in SqlProcs, NEW b \in Batches, Exec(p, b) PROVE SqlInv'
    <2>1. CASE Execute(p, b)
      <3>1. /\ batches' = Append(batches, Len(b)) /\ UNCHANGED <<ledger, effects, walk, migrated>>
            /\ \/ rows' = rows /\ confirmed' = confirmed /\ refused' = refused \union {Len(batches')}
               \/ /\ Running(b) = DOMAIN b /\ rows' = rows \union BatchRows(b)
                  /\ confirmed' = confirmed \union {Len(batches')} /\ refused' = refused
        BY <2>1 DEF Execute
      <3>. QED BY <3>1, <1>d, BatchStep
    <2>2. CASE ExecuteUnanswered(p, b)
      <3>1. /\ batches' = Append(batches, Len(b)) /\ UNCHANGED <<ledger, effects, migrated>>
            /\ Running(b) = DOMAIN b /\ rows' = rows \union BatchRows(b)
            /\ confirmed' = confirmed /\ refused' = refused /\ walk' = [walk EXCEPT ![p] = NoTxn]
        BY <2>2 DEF ExecuteUnanswered, SqlDies
      <3>. QED BY <3>1, <1>d, BatchStep
    <2>. QED BY <1>3, <1>s, <2>1, <2>2 DEF Exec
  <1>4. ASSUME NEW p \in SqlProcs, NEW names \in SqlLists, MigrateStart(p, names) PROVE SqlInv'
    BY <1>4, <1>s, StartStep DEF MigrateStart, committed, history
  <1>5. ASSUME NEW p \in SqlProcs, MigrateDone(p) PROVE SqlInv'
    BY <1>5, DoneStep
  <1>6. ASSUME NEW p \in SqlProcs, NEW st, MigrateStep(p, st) PROVE SqlInv'
    <2>. DEFINE name == walk[p].names[walk[p].pos]
    <2>1. CASE /\ LedgerTakes(walk[p].pos, name) /\ ledger' = Append(ledger, name)
               /\ effects' = [effects EXCEPT ![name] = @ + 1]
               /\ walk' = [walk EXCEPT ![p].pos = @ + 1]
      <3>1. walk[p].names \in Seq(SqlNames) /\ walk[p].pos \in Nat \ {0} /\ walk[p].pos =< Len(walk[p].names)
        BY <1>6, ListType DEF SqlInv, SqlTypeOK, MigrateStep
      <3>2. name \in SqlNames
        BY <3>1
      <3>3. /\ effects' \in [SqlNames -> Nat] /\ effects'[name] = effects[name] + 1
            /\ \A m \in SqlNames \ {name} : effects'[m] = effects[m]
        BY <2>1, <3>2, <1>e
      <3>. QED BY <1>6, <2>1, <3>3, CommitStep DEF MigrateStep, history
    <2>2. CASE /\ walk' = [walk EXCEPT ![p] = NoTxn] /\ UNCHANGED <<ledger, effects>>
      BY <1>6, <2>2, <1>d, <1>e, UncommittedStep DEF MigrateStep, history
    <2>. QED BY <1>6, <2>1, <2>2 DEF MigrateStep, EndWalk
  <1>7. ASSUME NEW p \in SqlProcs, MigrateEscapes(p) PROVE SqlInv'
    <2>. DEFINE name == walk[p].names[walk[p].pos]
    <2>0. /\ walk[p] # NoTxn /\ walk[p].pos =< Len(walk[p].names) /\ name \in SelfEnding
          /\ UNCHANGED <<rows, batches, confirmed, refused, migrated>>
          /\ effects' \in {effects, [effects EXCEPT ![name] = UpToTwice(@ + 1)]}
      BY <1>7 DEF MigrateEscapes
    <2>1. walk[p].names \in Seq(SqlNames) /\ walk[p].pos \in Nat \ {0}
      BY <2>0, ListType DEF SqlInv, SqlTypeOK
    <2>2. name \in SqlNames
      BY <2>0, <2>1
    <2>3. UpToTwice(effects[name] + 1) \in Nat
      BY <2>2, <1>e DEF UpToTwice
    <2>4. /\ effects' \in [SqlNames -> Nat]
          /\ \A m \in SqlNames \ {name} : effects'[m] = effects[m]
      BY <2>0, <2>2, <2>3, <1>e
    <2>5. CASE /\ LedgerTakes(walk[p].pos, name) /\ ledger' = Append(ledger, name)
               /\ walk' = [walk EXCEPT ![p].pos = @ + 1] \/ walk' = [walk EXCEPT ![p] = NoTxn]
      BY <2>0, <2>4, <2>5, CommitStep
    <2>6. CASE walk' = [walk EXCEPT ![p] = NoTxn] /\ UNCHANGED ledger
      BY <2>0, <2>4, <2>6, <1>d, UncommittedStep
    <2>. QED BY <1>7, <2>5, <2>6 DEF MigrateEscapes, EndWalk
  <1>8. CASE UNCHANGED sqlVars
    BY <1>8, <1>d, <1>e, UncommittedStep DEF sqlVars
  <1>. QED BY <1>1, <1>2, <1>3, <1>4, <1>5, <1>6, <1>7, <1>8 DEF SqlNext

\* A batch is in the file whole or not at all: whole if it was confirmed, not at
\* all if it was refused, either if the process died before it answered.  Every
\* migration without a COMMIT or ROLLBACK of its own took effect at most once, and
\* exactly if its name is in the ledger; every list that migrate confirmed is the
\* beginning of the ledger; however many processes migrate at once and wherever
\* they crash.
THEOREM SqlIsDurable == SqlSpec => []SqlDurable
PROOF
  <1>1. SqlInv => SqlDurable
    <2>. SUFFICES ASSUME SqlInv PROVE SqlDurable
      OBVIOUS
    <2>1. BatchesAtomic
      <3>. SUFFICES ASSUME NEW n \in DOMAIN batches
                    PROVE  LET there == {i \in 1 .. batches[n] : <<n, i>> \in rows}
                           IN  /\ there \in {{}, 1 .. batches[n]}
                               /\ n \in confirmed => there # {}
                               /\ n \in refused => there = {}
        BY DEF BatchesAtomic
      <3>. DEFINE there == {i \in 1 .. batches[n] : <<n, i>> \in rows}
      <3>1. n \in Nat /\ batches[n] \in Nat \ {0}
        BY DEF SqlInv, SqlTypeOK
      <3>2. \A i \in 1 .. batches[n] : <<n, i>> \in rows <=> n \in InFile
        BY <3>1 DEF SqlInv, RowsByBatch
      <3>3. there = IF n \in InFile THEN 1 .. batches[n] ELSE {}
        BY <3>2
      <3>4. 1 \in 1 .. batches[n]
        BY <3>1
      <3>5. (n \in confirmed => n \in InFile) /\ (n \in refused => n \notin InFile)
        BY DEF SqlInv, RowsByBatch
      <3>. QED BY <3>3, <3>4, <3>5
    <2>2. AnsweredListsHold
      <3>. SUFFICES ASSUME NEW names \in migrated PROVE IsPrefix(names, ledger)
        BY DEF AnsweredListsHold
      <3>1. names \in Seq(SqlNames) /\ ledger \in Seq(SqlNames) /\ Begins(names, ledger)
        BY ListType DEF SqlInv, SqlTypeOK, ListsBegin
      <3>. QED BY <3>1, PrefixElements
    <2>. QED BY <2>1, <2>2 DEF SqlInv, SqlDurable
  <1>. QED BY <1>1, SqlInitInv, SqlStepInv, PTL DEF SqlSpec

-----------------------------------------------------------------------------
\* LLM proxy.

\* The requests that are done, but for those cut off in the middle of a stream.
Answered == {r \in ProxyRequests :
               rqAt[r] = "done" /\ client[r] \in {"synthesized", "complete", "gone"}}

\* The types of the proxy's state.
LlmTypeOK ==
  /\ rqAt \in [ProxyRequests -> {"new", "read", "sent", "body", "stream", "relay", "done"}]
  /\ upstream \in [ProxyRequests -> {"none", "open", "closed"}]
  /\ arrived \in [ProxyRequests -> {"part", "all", "lost"}]
  /\ client \in [ProxyRequests -> {"waiting", "part", "complete", "synthesized", "failed", "aborted", "gone"}]
  /\ usage \in [requests : Nat, errors : Nat]

\* A request that is not done has no whole answer, only a relayed one is cut off in
\* the middle, a whole answer was received whole, and a connection is left open by
\* a request whose client left early.
Relaying ==
  \A r \in ProxyRequests :
    /\ rqAt[r] # "done" => client[r] \in {"waiting", "part", "gone", "aborted"}
    /\ rqAt[r] \notin {"relay", "done"} => client[r] \in {"waiting", "gone"}
    /\ client[r] = "complete" => arrived[r] = "all"
    /\ rqAt[r] = "done" /\ upstream[r] = "open" => client[r] = "gone"

\* The proxy counts no more errors than requests it has answered.
ErrorsAreAnswered == usage.errors =< Cardinality(Answered)

\* The inductive invariant of the proxy.
LlmInv == LlmTypeOK /\ Relaying /\ ErrorsAreAnswered

\* A request answered now was not among those answered: their number grows by
\* one, the errors by one at most.
LEMMA AnsweredStep ==
  ASSUME LlmInv, NEW r \in ProxyRequests, rqAt[r] \in {"sent", "body"},
         NEW c \in {"synthesized", "complete"}, NEW u, Over(r, c, u),
         Count("errors") \/ UNCHANGED usage
  PROVE  ErrorsAreAnswered'
PROOF
  <1>1. Answered' = Answered \cup {r} /\ r \notin Answered
    <2>1. client[r] \in {"waiting", "gone"}
      BY DEF LlmInv, Relaying
    <2>2. client'[r] \in {"synthesized", "complete", "gone"} /\ rqAt'[r] = "done"
      BY <2>1 DEF LlmInv, LlmTypeOK, Over, Listening
    <2>3. \A q \in ProxyRequests \ {r} : client'[q] = client[q] /\ rqAt'[q] = rqAt[q]
      BY DEF LlmInv, LlmTypeOK, Over
    <2>. QED BY <2>2, <2>3 DEF Answered
  <1>2. IsFiniteSet(Answered)
    BY LlmAssumption, FS_Subset DEF LlmAssumption, Answered
  <1>3. Cardinality(Answered') = Cardinality(Answered) + 1 /\ Cardinality(Answered) \in Nat
    BY <1>1, <1>2, FS_AddElement, FS_CardinalityType
  <1>4. usage'.errors \in {usage.errors, usage.errors + 1} /\ usage.errors \in Nat
    BY DEF Count, LlmInv, LlmTypeOK
  <1>. QED BY <1>3, <1>4 DEF LlmInv, ErrorsAreAnswered

\* A step that counts no error and takes nobody's answer back.
LEMMA UncountedStep ==
  ASSUME LlmInv, NEW r \in ProxyRequests, rqAt[r] # "done", usage'.errors = usage.errors,
         \A q \in ProxyRequests \ {r} : client'[q] = client[q] /\ rqAt'[q] = rqAt[q]
  PROVE  ErrorsAreAnswered'
PROOF
  <1>1. Answered \subseteq Answered' /\ IsFiniteSet(Answered')
    BY LlmAssumption, FS_Subset DEF LlmAssumption, Answered
  <1>2. /\ Cardinality(Answered) =< Cardinality(Answered')
        /\ Cardinality(Answered) \in Nat /\ Cardinality(Answered') \in Nat
    BY <1>1, FS_Subset, FS_CardinalityType
  <1>. QED BY <1>2 DEF LlmInv, LlmTypeOK, ErrorsAreAnswered

\* A request that ends without an error counted, with a whole answer only if all
\* of it arrived, and with an open connection only if its client left early.
LEMMA OverStep ==
  ASSUME LlmInv, NEW r \in ProxyRequests, rqAt[r] # "done",
         NEW c \in {"synthesized", "complete", "failed", "aborted"}, NEW u \in {"none", "open", "closed"},
         Over(r, c, u), UNCHANGED arrived,
         c = "complete" => arrived[r] = "all",
         u = "open" => client[r] = "gone",
         usage' \in [requests : Nat, errors : Nat]
  PROVE  LlmTypeOK' /\ Relaying'
PROOF
  <1>1. LlmTypeOK'
    BY DEF LlmInv, LlmTypeOK, Over
  <1>2. /\ rqAt'[r] = "done" /\ upstream'[r] = u
        /\ client'[r] = IF Listening(r) THEN c ELSE client[r]
        /\ \A q \in ProxyRequests \ {r} :
             client'[q] = client[q] /\ rqAt'[q] = rqAt[q] /\ upstream'[q] = upstream[q]
    BY DEF LlmInv, LlmTypeOK, Over
  <1>3. Relaying'
    BY <1>2 DEF LlmInv, Relaying, Listening
  <1>. QED BY <1>1, <1>3

\* Every step of the relay, of the upstream and of the clients keeps the
\* invariant.
LEMMA LlmStepInv == LlmInv /\ [LlmNext]_llmVars => LlmInv'
PROOF
  <1>. SUFFICES ASSUME LlmInv, [LlmNext]_llmVars PROVE LlmInv'
    OBVIOUS
  <1>i. LlmTypeOK /\ Relaying /\ ErrorsAreAnswered
    BY DEF LlmInv
  <1>u. usage \in [requests : Nat, errors : Nat]
    BY <1>i DEF LlmTypeOK
  <1>c. ASSUME Count("errors") PROVE usage' \in [requests : Nat, errors : Nat]
    BY <1>c, <1>u DEF Count
  <1>o. ASSUME NEW r \in ProxyRequests, NEW c, NEW u, Over(r, c, u)
        PROVE  \A q \in ProxyRequests \ {r} : client'[q] = client[q] /\ rqAt'[q] = rqAt[q]
    BY <1>i, <1>o DEF LlmTypeOK, Over
  <1>1. ASSUME NEW r \in ProxyRequests, Forward(r) PROVE LlmInv'
    <2>1. Relaying' /\ rqAt' \in [ProxyRequests -> {"new", "read", "sent", "body", "stream", "relay", "done"}]
      BY <1>i, <1>1 DEF Forward, LlmTypeOK, Relaying
    <2>2. usage' \in [requests : Nat, errors : Nat] /\ usage'.errors = usage.errors
      BY <1>i, <1>1 DEF Forward, Count, LlmTypeOK
    <2>3. LlmTypeOK'
      BY <1>i, <1>1, <2>1, <2>2 DEF Forward, LlmTypeOK
    <2>4. \A q \in ProxyRequests \ {r} : client'[q] = client[q] /\ rqAt'[q] = rqAt[q]
      BY <1>i, <1>1 DEF Forward, LlmTypeOK
    <2>5. ErrorsAreAnswered'
      BY <1>1, <2>2, <2>4, UncountedStep DEF Forward
    <2>. QED BY <2>1, <2>3, <2>5 DEF LlmInv
  <1>2. ASSUME NEW r \in ProxyRequests, Send(r) PROVE LlmInv'
    <2>1. CASE Over(r, "failed", "none")
      <3>1. LlmTypeOK' /\ Relaying'
        BY <1>2, <1>u, <2>1, OverStep DEF Send
      <3>2. ErrorsAreAnswered'
        BY <1>2, <2>1, <1>o, UncountedStep DEF Send
      <3>. QED BY <3>1, <3>2 DEF LlmInv
    <2>2. CASE rqAt' = [rqAt EXCEPT ![r] = "sent"] /\ UNCHANGED <<upstream, client>>
      <3>1. LlmTypeOK' /\ Relaying'
        BY <1>i, <1>2, <2>2 DEF Send, LlmTypeOK, Relaying
      <3>2. \A q \in ProxyRequests \ {r} : client'[q] = client[q] /\ rqAt'[q] = rqAt[q]
        BY <1>i, <2>2 DEF LlmTypeOK
      <3>3. ErrorsAreAnswered'
        BY <1>2, <3>2, UncountedStep DEF Send
      <3>. QED BY <3>1, <3>3 DEF LlmInv
    <2>. QED BY <1>2, <2>1, <2>2 DEF Send
  <1>3. ASSUME NEW r \in ProxyRequests, HeadArrives(r) PROVE LlmInv'
    <2>1. CASE Count("errors") /\ Over(r, "synthesized", "none") /\ UNCHANGED arrived
      <3>1. LlmTypeOK' /\ Relaying'
        BY <1>3, <1>c, <2>1, OverStep DEF HeadArrives
      <3>2. ErrorsAreAnswered'
        BY <1>3, <2>1, AnsweredStep DEF HeadArrives
      <3>. QED BY <3>1, <3>2 DEF LlmInv
    <2>2. CASE Over(r, "failed", "none") /\ UNCHANGED <<arrived, usage>>
      <3>1. LlmTypeOK' /\ Relaying'
        BY <1>3, <1>u, <2>2, OverStep DEF HeadArrives
      <3>2. ErrorsAreAnswered'
        BY <1>3, <2>2, <1>o, UncountedStep DEF HeadArrives
      <3>. QED BY <3>1, <3>2 DEF LlmInv
    <2>3. CASE /\ \E kind \in {"body", "stream"} : rqAt' = [rqAt EXCEPT ![r] = kind]
               /\ upstream' = [upstream EXCEPT ![r] = "open"]
               /\ UNCHANGED <<arrived, client, usage>>
      <3>1. LlmTypeOK' /\ Relaying'
        BY <1>i, <1>3, <2>3 DEF HeadArrives, LlmTypeOK, Relaying
      <3>2. \A q \in ProxyRequests \ {r} : client'[q] = client[q] /\ rqAt'[q] = rqAt[q]
        BY <1>i, <2>3 DEF LlmTypeOK
      <3>3. ErrorsAreAnswered'
        BY <1>3, <2>3, <3>2, UncountedStep DEF HeadArrives
      <3>. QED BY <3>1, <3>3 DEF LlmInv
    <2>. QED BY <1>3, <2>1, <2>2, <2>3 DEF HeadArrives
  <1>4. ASSUME NEW r \in ProxyRequests, UpstreamEnds(r) PROVE LlmInv'
    <2>1. LlmTypeOK' /\ Relaying'
      BY <1>i, <1>4 DEF UpstreamEnds, LlmTypeOK, Relaying
    <2>2. ErrorsAreAnswered'
      BY <1>i, <1>4 DEF UpstreamEnds, ErrorsAreAnswered, Answered
    <2>. QED BY <2>1, <2>2 DEF LlmInv
  <1>5. ASSUME NEW r \in ProxyRequests, ReadBody(r) PROVE LlmInv'
    <2>1. PICK c \in {"synthesized", "complete", "failed"} :
             /\ Over(r, c, "closed") /\ (c = "complete" => arrived[r] = "all")
             /\ (c # "failed" /\ Count("errors")) \/ UNCHANGED usage
      BY <1>5 DEF ReadBody
    <2>2. LlmTypeOK' /\ Relaying'
      BY <1>5, <1>u, <1>c, <2>1, OverStep DEF ReadBody
    <2>3. ErrorsAreAnswered'
      BY <1>5, <2>1, <1>o, AnsweredStep, UncountedStep DEF ReadBody
    <2>. QED BY <2>2, <2>3 DEF LlmInv
  <1>6. ASSUME NEW r \in ProxyRequests, BeginRelay(r) \/ RelayChunk(r) \/ HangUp(r) PROVE LlmInv'
    <2>1. LlmTypeOK' /\ Relaying'
      BY <1>i, <1>6 DEF BeginRelay, RelayChunk, HangUp, Listening, LlmTypeOK, Relaying
    <2>2. /\ \A q \in ProxyRequests \ {r} : client'[q] = client[q] /\ rqAt'[q] = rqAt[q]
          /\ rqAt[r] # "done" /\ usage' = usage
      BY <1>i, <1>6 DEF BeginRelay, RelayChunk, HangUp, LlmTypeOK
    <2>3. ErrorsAreAnswered'
      BY <2>2, UncountedStep
    <2>. QED BY <2>1, <2>3 DEF LlmInv
  <1>7. ASSUME NEW r \in ProxyRequests, EndStream(r) \/ CancelStream(r) PROVE LlmInv'
    <2>1. PICK c \in {"complete", "aborted"}, u \in {"closed", "open"} :
             /\ Over(r, c, u) /\ (c = "complete" => arrived[r] = "all")
             /\ u = "open" => rqAt[r] = "stream" /\ ~Listening(r)
      BY <1>7 DEF EndStream, CancelStream
    <2>2. rqAt[r] # "done" /\ UNCHANGED <<arrived, usage>>
      BY <1>7 DEF EndStream, CancelStream
    <2>3. u = "open" => client[r] = "gone"
      BY <1>i, <2>1 DEF Relaying, Listening
    <2>4. LlmTypeOK' /\ Relaying'
      BY <1>u, <2>1, <2>2, <2>3, OverStep
    <2>5. ErrorsAreAnswered'
      BY <2>1, <2>2, <1>o, UncountedStep
    <2>. QED BY <2>4, <2>5 DEF LlmInv
  <1>8. CASE UNCHANGED llmVars
    <2>1. LlmTypeOK' /\ Relaying'
      BY <1>i, <1>8 DEF llmVars, LlmTypeOK, Relaying
    <2>2. ErrorsAreAnswered'
      BY <1>i, <1>8 DEF llmVars, ErrorsAreAnswered, Answered
    <2>. QED BY <2>1, <2>2 DEF LlmInv
  <1>. QED BY <1>1, <1>2, <1>3, <1>4, <1>5, <1>6, <1>7, <1>8 DEF LlmNext, ProxyStep

\* The relay is honest for any number of requests: what a client takes for a
\* complete response is all of the upstream's, a request that is done has
\* released its upstream connection unless its client left before the stream's
\* generator began, and no request counts more than one error.
THEOREM Relays == LlmSpec => []RelaysTruly
PROOF
  <1>1. LlmInit => LlmInv
    <2>. SUFFICES ASSUME LlmInit PROVE LlmInv
      OBVIOUS
    <2>1. LlmTypeOK /\ Relaying
      BY DEF LlmInit, LlmTypeOK, Relaying
    <2>2. Cardinality(Answered) \in Nat
      BY LlmAssumption, FS_Subset, FS_CardinalityType DEF LlmAssumption, Answered
    <2>. QED BY <2>1, <2>2 DEF LlmInit, LlmInv, ErrorsAreAnswered
  <1>2. LlmInv => RelaysTruly
    BY DEF LlmInv, Relaying, ErrorsAreAnswered, Answered, RelaysTruly
  <1>. QED BY <1>1, <1>2, LlmStepInv, PTL DEF LlmSpec

-----------------------------------------------------------------------------
\* Scratch directories.

\* The types of what is at the scratch path, of the server's record, and of
\* where each request is; a request compares what its lstat found.
ScratchTypeOK ==
  /\ object \in Objects \cup {Absent}
  /\ record \in {handed, Absent}
  /\ handing \in {"none", "made", "answered", "failed"}
  /\ userAt \in [Users -> {"idle", "ancestor", "lstat", "compare", "admitted", "rmdir", "forget"}]
  /\ looked \in [Users -> Objects \cup {Absent}]
  /\ verdict \in [Users -> {"none", "honoured", "outsider", "refused", "error", "deleted"}]
  /\ \A r \in Users : userAt[r] = "compare" => looked[r] \in Objects

\* Nobody knows the directory before /tmpdir has answered.
UnknownBefore ==
  /\ handing = "answered" => handed \in Inodes
  /\ handing # "answered" => /\ handed = Absent /\ ~dropped
                             /\ \A r \in Users : userAt[r] = "idle" /\ verdict[r] = "none"

\* A request has seen the directory handed out at the path if it passed the
\* comparison, or if the directory is there now.
Witnessed ==
  \A r \in Users :
    /\ userAt[r] # "idle" /\ Ours(object) => r \in sawOurs
    /\ userAt[r] = "compare" /\ Ours(looked[r]) => r \in sawOurs
    /\ userAt[r] \in {"admitted", "rmdir", "forget"} => r \in sawOurs

\* A dropped record is gone for good: a request that came later finds none.
GoneForGood ==
  /\ dropped => record = Absent
  /\ \A r \in Users : r \in late /\ userAt[r] # "idle" => dropped /\ userAt[r] = "ancestor"

\* As long as nothing but the directory was at the path and the server ran
\* on, the record is there and nobody is refused.
Undisturbed ==
  handing = "answered" /\ ~disturbed =>
    /\ Ours(object) /\ record = handed
    /\ \A r \in Users : /\ userAt[r] = "compare" => Ours(looked[r])
                        /\ userAt[r] # "forget"
                        /\ verdict[r] \notin {"refused", "outsider", "error", "deleted"}

\* The inductive invariant of the scratch directories.
ScratchInv == ScratchTypeOK /\ UnknownBefore /\ Witnessed /\ GoneForGood /\ Undisturbed

\* Directories, files and links are objects, and absence is none.
LEMMA ObjectTypes ==
  /\ \A u \in {"self", "other"}, i \in Inodes : Directory(u, i) \in Objects
  /\ \A k \in {"file", "link"} : NoDirectory(k) \in Objects
  /\ Absent \notin Objects
  BY ScratchAssumption DEF ScratchAssumption, Directory, NoDirectory, Objects

\* mkdtemp and the record the driver makes of it: no request knows the path
\* yet.
LEMMA HandingSteps ==
  ASSUME ScratchInv, Mkdtemp \/ RecordScratch
  PROVE  ScratchInv'
PROOF
  <1>h. ScratchTypeOK /\ UnknownBefore /\ Witnessed /\ GoneForGood /\ Undisturbed
    BY DEF ScratchInv
  <1>0. handing \in {"none", "made"} /\ handed = Absent /\ ~dropped /\ record = Absent
        /\ UNCHANGED <<userAt, looked, verdict, sawOurs, dropped, late>>
        /\ \A r \in Users : userAt[r] = "idle" /\ verdict[r] = "none"
    BY <1>h DEF Mkdtemp, RecordScratch, UnknownBefore, ScratchTypeOK
  <1>1. CASE Mkdtemp
    <2>1. object' \in Objects /\ handing' = "made" /\ handed' = Absent /\ record' = Absent
      BY <1>0, <1>1, ObjectTypes DEF Mkdtemp
    <2>2. ScratchTypeOK'
      BY <1>h, <1>0, <2>1 DEF ScratchTypeOK
    <2>3. UnknownBefore'
      BY <1>0, <2>1 DEF UnknownBefore
    <2>4. Witnessed' /\ GoneForGood' /\ Undisturbed'
      BY <1>0, <2>1 DEF Witnessed, GoneForGood, Undisturbed
    <2>. QED BY <2>2, <2>3, <2>4 DEF ScratchInv
  <1>2. CASE RecordScratch /\ handing' = "failed"
    <2>1. UNCHANGED <<object, record, handed>>
      BY <1>2 DEF RecordScratch
    <2>2. ScratchTypeOK'
      BY <1>h, <1>0, <1>2, <2>1 DEF ScratchTypeOK
    <2>3. UnknownBefore'
      BY <1>0, <1>2, <2>1 DEF UnknownBefore
    <2>4. Witnessed' /\ GoneForGood' /\ Undisturbed'
      BY <1>0, <1>2, <2>1 DEF Witnessed, GoneForGood, Undisturbed
    <2>. QED BY <2>2, <2>3, <2>4 DEF ScratchInv
  <1>3. CASE RecordScratch /\ handing' # "failed"
    <2>1. /\ handing' = "answered" /\ record' = object.ino /\ handed' = object.ino /\ object' = object
          /\ disturbed' = (object # Directory("self", object.ino)) /\ object # Absent
      BY <1>3 DEF RecordScratch
    <2>2. object \in Objects /\ object.ino \in Inodes /\ object.ino # Absent
      BY <1>h, <2>1, ScratchAssumption DEF ScratchTypeOK, Objects, ScratchAssumption
    <2>3. ScratchTypeOK'
      BY <1>h, <1>0, <2>1, <2>2 DEF ScratchTypeOK
    <2>4. UnknownBefore'
      BY <1>0, <2>1, <2>2 DEF UnknownBefore
    <2>5. Witnessed' /\ GoneForGood'
      BY <1>0, <2>1 DEF Witnessed, GoneForGood
    <2>6. Undisturbed'
      BY <1>0, <2>1, <2>2 DEF Undisturbed, Ours
    <2>. QED BY <2>3, <2>4, <2>5, <2>6 DEF ScratchInv
  <1>. QED BY <1>1, <1>2, <1>3

\* The path changes under the requests: all of those that are on their way
\* see it if what comes is the directory handed out.
LEMMA BecomesKeeps ==
  ASSUME ScratchInv, NEW o \in Objects \cup {Absent}, Becomes(o), UNCHANGED <<handed, handing>>
  PROVE  /\ object' = o
         /\ sawOurs \subseteq sawOurs'
         /\ \A r \in Users : userAt[r] # "idle" /\ Ours(o)' => r \in sawOurs'
         /\ handing = "answered" /\ ~disturbed' => ~disturbed /\ Ours(o)'
  BY DEF Becomes, Ours

\* Whatever the host's other programs do to the path.
LEMMA HostStep ==
  ASSUME ScratchInv, HostMoves
  PROVE  ScratchInv'
PROOF
  <1>h. ScratchTypeOK /\ UnknownBefore /\ Witnessed /\ GoneForGood /\ Undisturbed
    BY DEF ScratchInv
  <1>1. /\ UNCHANGED <<handed, handing, record, userAt, looked, verdict, dropped, late>>
        /\ \E o \in Objects \cup {Absent} : Becomes(o)
    BY ObjectTypes DEF HostMoves
  <1>2. PICK o \in Objects \cup {Absent} : Becomes(o)
    BY <1>1
  <1>3. /\ object' = o /\ sawOurs \subseteq sawOurs'
        /\ \A r \in Users : userAt[r] # "idle" /\ Ours(o)' => r \in sawOurs'
        /\ handing = "answered" /\ ~disturbed' => ~disturbed /\ Ours(o)'
    BY <1>1, <1>2, BecomesKeeps
  <1>4. ScratchTypeOK'
    BY <1>h, <1>1, <1>3 DEF ScratchTypeOK
  <1>5. UnknownBefore'
    BY <1>h, <1>1 DEF UnknownBefore
  <1>6. Witnessed'
    BY <1>h, <1>1, <1>3 DEF Witnessed, Ours
  <1>7. GoneForGood'
    BY <1>h, <1>1 DEF GoneForGood
  <1>8. Undisturbed'
    BY <1>h, <1>1, <1>3 DEF Undisturbed, Ours
  <1>. QED BY <1>4, <1>5, <1>6, <1>7, <1>8 DEF ScratchInv

\* A restart of the sidecar forgets the record and the requests.
LEMMA RestartStep ==
  ASSUME ScratchInv, ScratchRestart
  PROVE  ScratchInv'
PROOF
  <1>h. ScratchTypeOK /\ UnknownBefore /\ Witnessed /\ GoneForGood /\ Undisturbed
    BY DEF ScratchInv
  <1>1. /\ record' = Absent /\ userAt' = [r \in Users |-> "idle"]
        /\ looked' = [r \in Users |-> Absent] /\ verdict' = [r \in Users |-> "none"]
        /\ disturbed' = TRUE /\ UNCHANGED <<object, handed, dropped>>
        /\ handing' = IF handing = "made" THEN "failed" ELSE handing
    BY DEF ScratchRestart
  <1>2. ScratchTypeOK'
    BY <1>h, <1>1 DEF ScratchTypeOK
  <1>3. UnknownBefore'
    BY <1>h, <1>1 DEF UnknownBefore
  <1>4. Witnessed' /\ GoneForGood'
    BY <1>1 DEF Witnessed, GoneForGood
  <1>5. Undisturbed'
    BY <1>1 DEF Undisturbed
  <1>. QED BY <1>2, <1>3, <1>4, <1>5 DEF ScratchInv

\* One request moves; nothing else touches the path meanwhile.
LEMMA RequestStep ==
  ASSUME ScratchInv, NEW r \in Users,
         AskFor(r) \/ Resolve(r) \/ LstatScratch(r) \/ CompareScratch(r) \/ Admitted(r) \/ Forget(r)
  PROVE  ScratchInv'
PROOF
  <1>h. ScratchTypeOK /\ UnknownBefore /\ Witnessed /\ GoneForGood /\ Undisturbed
    BY DEF ScratchInv
  <1>0. handing = "answered" /\ handed \in Inodes /\ UNCHANGED <<object, handed, handing, disturbed>>
    BY <1>h DEF AskFor, Resolve, LstatScratch, CompareScratch, Admitted, Forget, hostVars,
         UnknownBefore
  <1>1. CASE AskFor(r)
    <2>1. /\ userAt[r] = "idle" /\ userAt' = [userAt EXCEPT ![r] = "ancestor"] /\ verdict' = [verdict EXCEPT ![r] = "none"]
          /\ sawOurs' = IF Ours(object) THEN sawOurs \union {r} ELSE sawOurs \ {r}
          /\ late' = IF dropped THEN late \union {r} ELSE late \ {r}
          /\ UNCHANGED <<record, looked, dropped>>
      BY <1>1 DEF AskFor
    <2>2. ScratchTypeOK'
      BY <1>h, <1>0, <2>1 DEF ScratchTypeOK
    <2>3. UnknownBefore'
      BY <1>0 DEF UnknownBefore
    <2>4. Witnessed'
      BY <1>h, <1>0, <2>1 DEF Witnessed, Ours, ScratchTypeOK
    <2>5. GoneForGood'
      BY <1>h, <1>0, <2>1 DEF GoneForGood, ScratchTypeOK
    <2>6. Undisturbed'
      BY <1>h, <1>0, <2>1 DEF Undisturbed, Ours, ScratchTypeOK
    <2>. QED BY <2>2, <2>3, <2>4, <2>5, <2>6 DEF ScratchInv
  <1>2. ASSUME userAt[r] # "idle", UNCHANGED <<sawOurs, late>>, record' \in {record, Absent},
               NEW v \in {"honoured", "outsider", "refused", "error", "deleted"}, Reply(r, v),
               v \in {"refused", "deleted"} => record' = Absent,
               ~disturbed => record' = record /\ v = "honoured"
        PROVE  ScratchInv'
    <2>1. \A q \in Users \ {r} : userAt'[q] = userAt[q] /\ verdict'[q] = verdict[q] /\ looked'[q] = looked[q]
      BY <1>h, <1>2 DEF ScratchTypeOK, Reply
    <2>2. userAt'[r] = "idle" /\ verdict'[r] = v
      BY <1>h, <1>2 DEF ScratchTypeOK, Reply
    <2>3. ScratchTypeOK'
      BY <1>h, <1>0, <1>2, <2>1, <2>2 DEF ScratchTypeOK, Reply
    <2>4. UnknownBefore'
      BY <1>0 DEF UnknownBefore
    <2>5. Witnessed'
      BY <1>h, <1>0, <1>2, <2>1, <2>2 DEF Witnessed, Ours
    <2>6. GoneForGood'
      BY <1>h, <1>0, <1>2, <2>1, <2>2 DEF GoneForGood, Reply
    <2>7. Undisturbed'
      BY <1>h, <1>0, <1>2, <2>1, <2>2 DEF Undisturbed, Ours
    <2>. QED BY <2>3, <2>4, <2>5, <2>6, <2>7 DEF ScratchInv
  <1>3. ASSUME userAt[r] # "idle", UNCHANGED <<sawOurs, late, record, verdict, dropped>>,
               NEW l \in {"lstat", "compare", "admitted", "rmdir"}, userAt' = [userAt EXCEPT ![r] = l],
               NEW o \in Objects \cup {Absent}, looked' = [looked EXCEPT ![r] = o],
               l = "compare" => o = object /\ o \in Objects,
               l \in {"admitted", "rmdir"} => r \in sawOurs,
               r \notin late
        PROVE  ScratchInv'
    <2>1. \A q \in Users \ {r} : userAt'[q] = userAt[q] /\ looked'[q] = looked[q]
      BY <1>h, <1>3 DEF ScratchTypeOK
    <2>2. userAt'[r] = l /\ looked'[r] = o
      BY <1>h, <1>3 DEF ScratchTypeOK
    <2>3. ScratchTypeOK'
      BY <1>h, <1>0, <1>3, <2>1, <2>2 DEF ScratchTypeOK
    <2>4. UnknownBefore'
      BY <1>0 DEF UnknownBefore
    <2>5. Witnessed'
      BY <1>h, <1>0, <1>3, <2>1, <2>2 DEF Witnessed, Ours
    <2>6. GoneForGood'
      BY <1>h, <1>0, <1>3, <2>1, <2>2 DEF GoneForGood
    <2>7. Undisturbed'
      BY <1>h, <1>0, <1>3, <2>1, <2>2 DEF Undisturbed, Ours
    <2>. QED BY <2>3, <2>4, <2>5, <2>6, <2>7 DEF ScratchInv
  <1>4. looked' = looked => looked' = [looked EXCEPT ![r] = looked[r]] /\ looked[r] \in Objects \cup {Absent}
    BY <1>h DEF ScratchTypeOK
  <1>5. r \in late /\ userAt[r] # "idle" => userAt[r] = "ancestor" /\ record = Absent
    BY <1>h DEF GoneForGood
  <1>6. CASE Resolve(r)
    <2>1. ~disturbed => ~(record = Absent \/ object = NoDirectory("link"))
      <3>1. Directory("self", handed) # NoDirectory("link")
        BY DEF Directory, NoDirectory
      <3>. QED BY <1>h, <1>0, <3>1, ScratchAssumption DEF Undisturbed, Ours, ScratchAssumption
    <2>2. userAt[r] = "ancestor" /\ UNCHANGED <<record, sawOurs, late>>
      BY <1>6 DEF Resolve
    <2>3. CASE record = Absent \/ object = NoDirectory("link")
      BY <1>2, <1>6, <2>1, <2>2, <2>3 DEF Resolve
    <2>4. CASE ~(record = Absent \/ object = NoDirectory("link"))
      <3>1. Proceed(r, "lstat")
        BY <1>6, <2>4 DEF Resolve
      <3>. QED BY <1>3, <1>4, <1>5, <2>2, <2>4, <3>1 DEF Proceed
    <2>. QED BY <2>3, <2>4
  <1>7. CASE LstatScratch(r)
    <2>1. userAt[r] = "lstat" /\ UNCHANGED <<sawOurs, late>>
      BY <1>7 DEF LstatScratch
    <2>2. CASE object = Absent
      <3>1. record' = Absent /\ Reply(r, "refused")
        BY <1>7, <2>2 DEF LstatScratch
      <3>2. disturbed
        BY <1>h, <1>0, <2>2, ObjectTypes DEF Undisturbed, Ours
      <3>. QED BY <1>2, <2>1, <3>1, <3>2
    <2>3. CASE object # Absent
      BY <1>h, <1>3, <1>5, <1>7, <2>1, <2>3 DEF LstatScratch, ScratchTypeOK
    <2>. QED BY <2>2, <2>3
  <1>8. CASE CompareScratch(r)
    <2>. DEFINE o == looked[r]
                mine == o.kind = "dir" /\ o.uid = "self"
    <2>1. userAt[r] = "compare" /\ UNCHANGED <<sawOurs, late>> /\ o \in Objects
      BY <1>h, <1>8 DEF CompareScratch, ScratchTypeOK
    <2>2. ~disturbed => mine /\ record = o.ino /\ record # Absent
      BY <1>h, <1>0, <2>1, ScratchAssumption DEF Undisturbed, Ours, Directory, ScratchAssumption
    <2>3. CASE mine /\ record = Absent
      <3>1. Reply(r, "error") /\ UNCHANGED record
        BY <1>8, <2>1, <2>3, ScratchAssumption DEF CompareScratch, ScratchAssumption, Objects
      <3>. QED BY <1>2, <2>1, <2>2, <2>3, <3>1
    <2>4. CASE mine /\ record = o.ino
      <3>0. o.ino \in Inodes /\ o.ino # Absent
        BY <2>1, ScratchAssumption DEF Objects, ScratchAssumption
      <3>1. Proceed(r, "admitted") /\ UNCHANGED record
        BY <1>8, <2>4, <3>0 DEF CompareScratch
      <3>2. o = Directory("self", handed) /\ handed # Absent
        BY <1>h, <1>0, <2>1, <2>4, <3>0, ScratchAssumption DEF ScratchTypeOK, Directory, Objects,
             ScratchAssumption
      <3>3. r \in sawOurs
        BY <1>h, <2>1, <3>2 DEF Witnessed, Ours
      <3>. QED BY <1>3, <1>4, <1>5, <2>1, <3>1, <3>3 DEF Proceed
    <2>5. CASE ~(mine /\ record \in {Absent, o.ino})
      <3>1. Reply(r, "refused") /\ record' = Absent
        BY <1>8, <2>5 DEF CompareScratch
      <3>. QED BY <1>2, <2>1, <2>2, <2>5, <3>1
    <2>. QED BY <2>3, <2>4, <2>5
  <1>9. CASE Admitted(r)
    <2>1. userAt[r] = "admitted" /\ r \in sawOurs /\ UNCHANGED <<record, sawOurs, late>>
      BY <1>h, <1>9 DEF Admitted, Witnessed
    <2>2. CASE Reply(r, "honoured")
      BY <1>2, <2>1, <2>2
    <2>3. CASE Proceed(r, "rmdir")
      BY <1>3, <1>4, <1>5, <2>1, <2>3 DEF Proceed
    <2>. QED BY <1>9, <2>2, <2>3 DEF Admitted
  <1>10. CASE Forget(r)
    <2>1. disturbed
      BY <1>h, <1>0, <1>10 DEF Undisturbed, Forget
    <2>. QED BY <1>2, <1>10, <2>1 DEF Forget
  <1>. QED BY <1>1, <1>6, <1>7, <1>8, <1>9, <1>10

\* rmdir takes the directory away, under this request and all others.
LEMMA RmdirStep ==
  ASSUME ScratchInv, NEW r \in Users, Rmdir(r)
  PROVE  ScratchInv'
PROOF
  <1>h. ScratchTypeOK /\ UnknownBefore /\ Witnessed /\ GoneForGood /\ Undisturbed
    BY DEF ScratchInv
  <1>0. /\ userAt[r] = "rmdir" /\ handing = "answered" /\ handed \in Inodes /\ r \in sawOurs /\ r \notin late
        /\ UNCHANGED <<handed, handing, record, late>>
    BY <1>h DEF Rmdir, UnknownBefore, Witnessed, GoneForGood
  <1>1. UnknownBefore'
    BY <1>0 DEF UnknownBefore
  <1>2. CASE Reply(r, "honoured") /\ UNCHANGED <<object, sawOurs, disturbed>>
    <2>1. \A q \in Users \ {r} : userAt'[q] = userAt[q] /\ verdict'[q] = verdict[q] /\ looked'[q] = looked[q]
      BY <1>h, <1>2 DEF ScratchTypeOK, Reply
    <2>2. userAt'[r] = "idle" /\ verdict'[r] = "honoured"
      BY <1>h, <1>2 DEF ScratchTypeOK, Reply
    <2>3. ScratchTypeOK'
      BY <1>h, <1>0, <1>2, <2>1, <2>2 DEF ScratchTypeOK, Reply
    <2>4. Witnessed'
      BY <1>h, <1>0, <1>2, <2>1, <2>2 DEF Witnessed, Ours
    <2>5. GoneForGood'
      BY <1>h, <1>0, <1>2, <2>1, <2>2 DEF GoneForGood, Reply
    <2>6. Undisturbed'
      BY <1>h, <1>0, <1>2, <2>1, <2>2 DEF Undisturbed, Ours
    <2>. QED BY <1>1, <2>3, <2>4, <2>5, <2>6 DEF ScratchInv
  <1>3. CASE Becomes(Absent) /\ Proceed(r, "forget")
    <2>0. ~Ours(Absent)
      BY <1>0, ObjectTypes DEF Ours
    <2>1. object' = Absent /\ sawOurs \subseteq sawOurs' /\ disturbed' /\ ~Ours(object)'
      BY <1>0, <1>3, <2>0 DEF Becomes, Ours
    <2>2. UNCHANGED <<verdict, dropped, looked>> /\ userAt' = [userAt EXCEPT ![r] = "forget"]
      BY <1>3 DEF Proceed
    <2>3. ScratchTypeOK'
      BY <1>h, <1>0, <2>1, <2>2 DEF ScratchTypeOK
    <2>4. Witnessed'
      <3>1. \A q \in Users : looked'[q] = looked[q] /\ (Ours(looked[q])' <=> Ours(looked[q]))
        BY <1>0, <2>2 DEF Ours
      <3>2. \A q \in Users \ {r} : userAt'[q] = userAt[q]
        BY <1>h, <2>2 DEF ScratchTypeOK
      <3>3. userAt'[r] = "forget"
        BY <1>h, <2>2 DEF ScratchTypeOK
      <3>. QED BY <1>h, <1>0, <2>1, <3>1, <3>2, <3>3 DEF Witnessed
    <2>5. GoneForGood'
      BY <1>h, <1>0, <2>1, <2>2 DEF GoneForGood, ScratchTypeOK
    <2>6. Undisturbed'
      BY <2>1 DEF Undisturbed
    <2>. QED BY <1>1, <2>3, <2>4, <2>5, <2>6 DEF ScratchInv
  <1>. QED BY <1>2, <1>3 DEF Rmdir

\* A request on a scratch path is admitted only if the very directory handed
\* out, by owner and inode, was at the path while the request was under way;
\* once the record was dropped no later request is admitted; and nobody is
\* refused while the directory is left alone and the server runs on.
THEOREM ScratchIdentity == ScratchSpec => []ScratchByIdentity
PROOF
  <1>1. ScratchInit => ScratchInv
    BY DEF ScratchInit, ScratchInv, ScratchTypeOK, UnknownBefore, Witnessed, GoneForGood,
         Undisturbed
  <1>2. ScratchInv /\ [ScratchNext]_scratchVars => ScratchInv'
    <2>. SUFFICES ASSUME ScratchInv, [ScratchNext]_scratchVars PROVE ScratchInv' OBVIOUS
    <2>1. CASE UNCHANGED scratchVars
      BY <2>1 DEF scratchVars, ScratchInv, ScratchTypeOK, UnknownBefore, Witnessed, GoneForGood,
           Undisturbed, Ours
    <2>. QED BY <2>1, HandingSteps, HostStep, RestartStep, RequestStep, RmdirStep DEF ScratchNext
  <1>3. ScratchInv => ScratchByIdentity
    BY DEF ScratchInv, ScratchTypeOK, UnknownBefore, Witnessed, GoneForGood, Undisturbed,
         ScratchByIdentity
  <1>. QED BY <1>1, <1>2, <1>3, PTL DEF ScratchSpec

-----------------------------------------------------------------------------
\* Boot and shutdown.

\* The types of the sidecar process: how far it has booted, and the modules
\* built, started and shut down.
SidecarTypeOK ==
  /\ boot \in {"down", "listeners", "socket", "starting", "serving", "stopping"}
  /\ built \in Seq(KnownModules) /\ started \in Seq(KnownModules) /\ closed \in Seq(KnownModules)
  /\ boots \in Nat

\* The modules that are started are the first of those built, and those shut down the
\* last of those started; nothing is shut down before the process is stopping.
InSequence ==
  /\ Len(started) =< Len(built) /\ \A i \in 1 .. Len(started) : started[i] = built[i]
  /\ Len(closed) =< Len(started) /\ \A i \in 1 .. Len(closed) : closed[i] = started[(Len(started) - i) + 1]
  /\ boot \in {"listeners", "socket"} => started = <<>>
  /\ boot \in {"listeners", "socket", "starting", "serving"} => closed = <<>>
  /\ boot = "serving" => Len(started) = Len(built)

\* A process that is up has what it has bound so far.
HoldsItsSockets ==
  /\ boot \in {"starting", "serving", "stopping"} => path = "live"
  /\ boot = "down" => bound = {}
  /\ boot = "listeners" => bound \subseteq WithListener \cap ToSet(built)
  /\ boot \in {"socket", "starting", "serving"} => bound = WithListener \cap ToSet(built)

\* What the exit of a process tells of how far it came.
ExitTells ==
  /\ boot = "stopping" => exitWith \in {"zero", "terminated", "error"}
  /\ boot = "stopping" /\ exitWith = "error" => Len(started) < Len(built)
  /\ boot = "stopping" /\ exitWith # "error" => Len(started) = Len(built)
  /\ boot = "down" /\ exitWith \in {"zero", "terminated"} => Len(started) = Len(built)
  /\ boot = "down" /\ exitWith = "two" => started = <<>>
  /\ boot = "down" /\ exitWith = "error" => started = <<>> \/ Len(started) < Len(built)
  /\ boot = "down" /\ started # <<>> /\ exitWith # "killed" =>
       Len(closed) = Len(started) /\ path = IF exitWith = "terminated" THEN "stale" ELSE "absent"

\* The inductive invariant of the sidecar's life.
SidecarInv == SidecarTypeOK /\ InSequence /\ HoldsItsSockets /\ ExitTells

\* It holds before the first boot.
LEMMA SidecarInitInv == SidecarInit => SidecarInv
PROOF
  <1>. SUFFICES ASSUME SidecarInit PROVE SidecarInv
    OBVIOUS
  <1>1. <<>> \in Seq(KnownModules) /\ Len(<<>>) = 0
    OBVIOUS
  <1>2. SidecarTypeOK
    BY <1>1 DEF SidecarInit, SidecarTypeOK
  <1>3. InSequence
    BY <1>1 DEF SidecarInit, InSequence
  <1>. QED BY <1>2, <1>3 DEF SidecarInit, SidecarInv, HoldsItsSockets, ExitTells

\* What build_enabled returns is a sequence of registered modules.
LEMMA SortedType ==
  ASSUME NEW S \in SUBSET KnownModules, NEW q \in Sorted(S)
  PROVE  q \in Seq(KnownModules)
PROOF
  <1>1. Cardinality(S) \in Nat
    BY SidecarAssumption, FS_Subset, FS_CardinalityType DEF SidecarAssumption
  <1>2. q \in [1 .. Cardinality(S) -> KnownModules]
    BY DEF Sorted
  <1>. QED BY <1>1, <1>2

\* build_enabled either refuses the configuration with exit code two or
\* starts the boot with fresh sequences.
LEMMA BuildStep ==
  ASSUME SidecarInv, Build
  PROVE  SidecarInv'
PROOF
  <1>1. boots \in Nat /\ boots' = boots + 1 /\ started' = <<>> /\ closed' = <<>> /\ path' = path
        /\ bound = {}
    BY DEF Build, SidecarInv, SidecarTypeOK, HoldsItsSockets
  <1>2. /\ built' \in Seq(KnownModules) /\ bound' = {}
        /\ \/ boot' = "down" /\ exitWith' = "two"
           \/ boot' = "listeners" /\ exitWith' = "none"
    <2>1. <<>> \in Seq(KnownModules)
      OBVIOUS
    <2>2. PICK sections \in SUBSET (KnownModules \union {UnknownModule}), enabled \in SUBSET KnownModules :
             \/ Exit("two") /\ built' = <<>>
             \/ /\ Enabled(sections, enabled)
                /\ boot' = "listeners" /\ exitWith' = "none" /\ UNCHANGED bound
      BY DEF Build
    <2>3. CASE Exit("two") /\ built' = <<>>
      BY <2>1, <2>3 DEF Exit
    <2>4. CASE /\ Enabled(sections, enabled)
               /\ boot' = "listeners" /\ exitWith' = "none" /\ UNCHANGED bound
      BY <1>1, <2>4, SortedType DEF Enabled
    <2>. QED BY <2>2, <2>3, <2>4
  <1>3. <<>> \in Seq(KnownModules) /\ Len(<<>>) = 0 /\ Len(built') \in Nat
    BY <1>2
  <1>4. SidecarTypeOK'
    BY <1>1, <1>2, <1>3 DEF SidecarTypeOK
  <1>5. InSequence'
    BY <1>1, <1>2, <1>3 DEF InSequence
  <1>6. HoldsItsSockets' /\ ExitTells'
    BY <1>1, <1>2 DEF HoldsItsSockets, ExitTells
  <1>. QED BY <1>4, <1>5, <1>6 DEF SidecarInv

\* A step that starts and shuts down nothing keeps the sequences.
LEMMA SequencesKept ==
  ASSUME SidecarInv, UNCHANGED <<built, started, closed, boots>>,
         boot' \in {"down", "stopping"} \/ boot' = boot \/ <<boot, boot'>> \in {<<"listeners", "socket">>, <<"socket", "starting">>}
  PROVE  SidecarTypeOK' /\ InSequence'
PROOF
  <1>1. SidecarTypeOK'
    BY DEF SidecarInv, SidecarTypeOK
  <1>2. InSequence'
    BY DEF SidecarInv, InSequence
  <1>. QED BY <1>1, <1>2

\* Every step of the boot, of serving, of the shutdown and every kill keeps
\* the invariant.
LEMMA SidecarStepInv == SidecarInv /\ [SidecarNext]_sidecarVars => SidecarInv'
PROOF
  <1>. SUFFICES ASSUME SidecarInv, [SidecarNext]_sidecarVars PROVE SidecarInv'
    OBVIOUS
  <1>i. SidecarTypeOK /\ InSequence /\ HoldsItsSockets /\ ExitTells
    BY DEF SidecarInv
  <1>t. /\ built \in Seq(KnownModules) /\ started \in Seq(KnownModules) /\ closed \in Seq(KnownModules)
        /\ Len(built) \in Nat /\ Len(started) \in Nat /\ Len(closed) \in Nat
    BY <1>i DEF SidecarTypeOK
  <1>1. CASE Build
    BY <1>1, BuildStep
  <1>2. CASE BindListener
    <2>1. SidecarTypeOK' /\ InSequence'
      BY <1>2, SequencesKept DEF BindListener, Exit
    <2>2. started = <<>> /\ path' = path
      BY <1>i, <1>2 DEF BindListener, InSequence
    <2>3. HoldsItsSockets'
      BY <1>i, <1>2 DEF BindListener, Exit, HoldsItsSockets
    <2>4. ExitTells'
      BY <1>i, <1>2, <2>2 DEF BindListener, Exit, ExitTells
    <2>. QED BY <2>1, <2>3, <2>4 DEF SidecarInv
  <1>3. CASE BindUds
    <2>1. SidecarTypeOK' /\ InSequence'
      BY <1>3, SequencesKept DEF BindUds, Exit, UnsafeParent
    <2>2. started = <<>>
      BY <1>i, <1>3 DEF BindUds, InSequence
    <2>3. HoldsItsSockets'
      BY <1>i, <1>3 DEF BindUds, Exit, UnsafeParent, HoldsItsSockets
    <2>4. ExitTells'
      BY <1>i, <1>3, <2>2 DEF BindUds, Exit, UnsafeParent, ExitTells
    <2>. QED BY <2>1, <2>3, <2>4 DEF SidecarInv
  <1>4. CASE Startup
    <2>0. /\ boot = "starting" /\ UNCHANGED <<built, bound, closed, path, boots>> /\ closed = <<>>
      BY <1>i, <1>4 DEF Startup, InSequence
    <2>1. CASE Len(started) + 1 > Len(built) /\ boot' = "serving" /\ UNCHANGED <<started, exitWith>>
      <3>1. SidecarTypeOK' /\ InSequence'
        BY <1>i, <1>t, <2>0, <2>1 DEF SidecarTypeOK, InSequence
      <3>2. HoldsItsSockets' /\ ExitTells'
        BY <1>i, <2>0, <2>1 DEF HoldsItsSockets, ExitTells
      <3>. QED BY <3>1, <3>2 DEF SidecarInv
    <2>2. CASE /\ Len(started) + 1 =< Len(built) /\ started' = Append(started, built[Len(started) + 1])
               /\ UNCHANGED <<boot, exitWith>>
      <3>1. built[Len(started) + 1] \in KnownModules
        BY <1>t, <2>2
      <3>2. /\ started' \in Seq(KnownModules) /\ Len(started') = Len(started) + 1
            /\ started'[Len(started) + 1] = built[Len(started) + 1]
            /\ \A i \in 1 .. Len(started) : started'[i] = started[i]
        BY <1>t, <2>2, <3>1
      <3>3. SidecarTypeOK'
        BY <1>i, <2>0, <2>2, <3>2 DEF SidecarTypeOK
      <3>4. InSequence'
        <4>1. Len(started') =< Len(built) /\ \A i \in 1 .. Len(started') : started'[i] = built[i]
          BY <1>i, <1>t, <2>2, <3>2 DEF InSequence
        <4>2. Len(closed) = 0
          BY <2>0
        <4>. QED BY <2>0, <2>2, <4>1, <4>2, <3>2, <1>t DEF InSequence
      <3>5. HoldsItsSockets' /\ ExitTells'
        BY <1>i, <2>0, <2>2 DEF HoldsItsSockets, ExitTells
      <3>. QED BY <3>3, <3>4, <3>5 DEF SidecarInv
    <2>3. CASE Len(started) + 1 =< Len(built) /\ boot' = "stopping" /\ exitWith' = "error" /\ UNCHANGED started
      <3>1. SidecarTypeOK' /\ InSequence'
        BY <2>0, <2>3, SequencesKept
      <3>2. HoldsItsSockets' /\ ExitTells'
        BY <1>i, <1>t, <2>0, <2>3 DEF HoldsItsSockets, ExitTells
      <3>. QED BY <3>1, <3>2 DEF SidecarInv
    <2>. QED BY <1>4, <2>1, <2>2, <2>3 DEF Startup
  <1>5. CASE Terminate
    <2>1. SidecarTypeOK' /\ InSequence'
      BY <1>5, SequencesKept DEF Terminate
    <2>2. HoldsItsSockets' /\ ExitTells'
      BY <1>i, <1>5 DEF Terminate, InSequence, HoldsItsSockets, ExitTells
    <2>. QED BY <2>1, <2>2 DEF SidecarInv
  <1>6. CASE Shutdown
    <2>0. boot = "stopping" /\ UNCHANGED <<built, started, boots>>
      BY <1>6 DEF Shutdown
    <2>1. CASE Unwind
      <3>1. /\ Len(closed) < Len(started) /\ closed' = Append(closed, started[Len(started) - Len(closed)])
            /\ UNCHANGED <<boot, bound, path, exitWith>>
        BY <2>1 DEF Unwind
      <3>2. started[Len(started) - Len(closed)] \in KnownModules
        BY <1>t, <3>1
      <3>3. /\ closed' \in Seq(KnownModules) /\ Len(closed') = Len(closed) + 1
            /\ closed'[Len(closed) + 1] = started[Len(started) - Len(closed)]
            /\ \A i \in 1 .. Len(closed) : closed'[i] = closed[i]
        BY <1>t, <3>1, <3>2
      <3>4. SidecarTypeOK'
        BY <1>i, <2>0, <3>1, <3>3 DEF SidecarTypeOK
      <3>5. InSequence'
        <4>1. ASSUME NEW i \in 1 .. Len(closed') PROVE closed'[i] = started[(Len(started) - i) + 1]
          <5>1. CASE i = Len(closed) + 1
            BY <5>1, <3>3, <1>t
          <5>2. CASE i \in 1 .. Len(closed)
            BY <5>2, <1>i, <3>3 DEF InSequence
          <5>. QED BY <5>1, <5>2, <3>3, <1>t
        <4>. QED BY <1>i, <1>t, <2>0, <3>1, <3>3, <4>1 DEF InSequence
      <3>6. HoldsItsSockets' /\ ExitTells'
        BY <1>i, <2>0, <3>1 DEF HoldsItsSockets, ExitTells
      <3>. QED BY <3>4, <3>5, <3>6 DEF SidecarInv
    <2>2. CASE /\ Len(closed) = Len(started)
               /\ path' = IF exitWith = "terminated" THEN "stale" ELSE "absent"
               /\ Exit(exitWith) /\ UNCHANGED closed
      <3>1. SidecarTypeOK' /\ InSequence'
        BY <2>0, <2>2, SequencesKept DEF Exit
      <3>2. HoldsItsSockets' /\ ExitTells'
        BY <1>i, <2>0, <2>2 DEF Exit, HoldsItsSockets, ExitTells
      <3>. QED BY <3>1, <3>2 DEF SidecarInv
    <2>. QED BY <1>6, <2>1, <2>2 DEF Shutdown
  <1>7. CASE Killed
    <2>1. SidecarTypeOK' /\ InSequence'
      BY <1>7, SequencesKept DEF Killed, Exit
    <2>2. HoldsItsSockets' /\ ExitTells'
      BY <1>i, <1>7 DEF Killed, Exit, HoldsItsSockets, ExitTells
    <2>. QED BY <2>1, <2>2 DEF SidecarInv
  <1>8. CASE UNCHANGED sidecarVars
    <2>1. SidecarTypeOK' /\ InSequence'
      BY <1>8, SequencesKept DEF sidecarVars
    <2>2. HoldsItsSockets' /\ ExitTells'
      BY <1>i, <1>8 DEF sidecarVars, HoldsItsSockets, ExitTells
    <2>. QED BY <2>1, <2>2 DEF SidecarInv
  <1>. QED BY <1>1, <1>2, <1>3, <1>4, <1>5, <1>6, <1>7, <1>8 DEF SidecarNext

\* Through any number of starts, signals and kills: what serves has all of its
\* modules started, all of its listeners and its own socket; a process that was
\* not killed has shut down exactly the modules it started, the last one first, and
\* leaves no socket unless SIGTERM ended it; 0 is the exit of a process that had
\* come up whole, 2 of one that had started nothing.
THEOREM Boots == SidecarSpec => []BootsAndUnwinds
PROOF
  <1>1. SidecarInv => BootsAndUnwinds
    <2>. SUFFICES ASSUME SidecarInv PROVE BootsAndUnwinds
      OBVIOUS
    <2>i. SidecarTypeOK /\ InSequence /\ HoldsItsSockets /\ ExitTells
      BY DEF SidecarInv
    <2>t. /\ built \in Seq(KnownModules) /\ started \in Seq(KnownModules) /\ closed \in Seq(KnownModules)
          /\ Len(built) \in Nat /\ Len(started) \in Nat /\ Len(closed) \in Nat
      BY <2>i DEF SidecarTypeOK
    <2>1. ASSUME Len(closed) = Len(started) PROVE closed = Reverse(started)
      <3>1. closed = [i \in 1 .. Len(started) |-> closed[i]]
        BY <2>1, <2>t
      <3>2. \A i \in 1 .. Len(started) : closed[i] = started[(Len(started) - i) + 1]
        BY <2>1, <2>i DEF InSequence
      <3>. QED BY <3>1, <3>2 DEF Reverse
    <2>2. ASSUME boot = "serving" PROVE started = built
      <3>1. Len(started) = Len(built) /\ \A i \in 1 .. Len(started) : started[i] = built[i]
        BY <2>2, <2>i DEF InSequence
      <3>. QED BY <3>1, <2>t
    <2>3. ASSUME Len(started) = Len(built) PROVE started = built
      <3>1. \A i \in 1 .. Len(started) : started[i] = built[i]
        BY <2>i DEF InSequence
      <3>. QED BY <2>3, <3>1, <2>t
    <2>. QED BY <2>i, <2>1, <2>2, <2>3 DEF HoldsItsSockets, ExitTells, BootsAndUnwinds
  <1>. QED BY <1>1, SidecarInitInv, SidecarStepInv, PTL DEF SidecarSpec

=============================================================================
