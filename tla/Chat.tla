-------------------------------- MODULE Chat --------------------------------
(***************************************************************************)
(* The chat module: the emulated surface (modules/chat/module.py) over the *)
(* in-memory driver (mock.py).  The driver's coroutines never suspend, and *)
(* the only await of a handler that does is the one for the request body,  *)
(* before it looks at anything that can go away: a request is one step,    *)
(* which ends in an answer.                                                *)
(*                                                                         *)
(* Resource ids come from one counter, as in the driver.  Time is a clock  *)
(* that advances with every write: requests of one event loop are further  *)
(* apart than the microsecond the driver tells apart.                      *)
(***************************************************************************)
EXTENDS Paging

CONSTANTS
  ChatKeys,      \* thread keys callers choose
  ChatTexts,     \* message texts
  ChatPageSize,  \* pageSize of the listing client
  ChatWrites,     \* bound on the requests that write
  NoOne          \* no thread, no key, no quote, no client

ASSUME ChatAssumption ==
  /\ ChatPageSize \in Nat \ {0} /\ ChatWrites \in Nat
  /\ ChatTexts # {} /\ NoOne \notin Nat \X Nat

VARIABLES
  spaces,     \* _spaces and _members: space -> [type, members]
  messages,   \* _messages: id -> message
  order,      \* _order: space -> ids, oldest first
  threads,    \* _threads: <<space, id>>
  threadKeys, \* _thread_keys: <<space, key>> -> thread
  roots,      \* _thread_roots: thread -> id of its first message
  reactions,  \* _reactions: message id -> ids of its reactions
  uploads,    \* _uploads: ids
  counter,    \* the last id _counter gave out
  clock,      \* time.time()
  answer,     \* whether the last answer was OK
  reader,     \* a client that has read one message and may quote it
  lister      \* a client that follows page tokens

chatState == <<spaces, messages, order, threads, threadKeys, roots, reactions, uploads, counter, clock>>
chatVars == <<chatState, answer, reader, lister>>

Drop(f, x) == [y \in DOMAIN f \ {x} |-> f[y]]
With(f, x, v) == [y \in DOMAIN f \union {x} |-> IF y = x THEN v ELSE f[y]]

SeedSpace == 0
NewText == CHOOSE t \in ChatTexts : TRUE

\* A seeded space, and one seeded message in a thread of its own.
ChatInit ==
  LET thread == <<SeedSpace, 1>>
      seed == [space |-> SeedSpace, thread |-> thread, text |-> NewText, created |-> 1,
               updated |-> 0, quoted |-> NoOne]
  IN  /\ spaces = [s \in {SeedSpace} |-> [type |-> "DIRECT_MESSAGE", members |-> {"users/u"}]]
      /\ messages = [m \in {2} |-> seed]
      /\ order = [s \in {SeedSpace} |-> <<2>>]
      /\ threads = {thread}
      /\ threadKeys = [k \in {} |-> NoOne]
      /\ roots = [t \in {thread} |-> 2]
      /\ reactions = [m \in {} |-> <<>>]
      /\ uploads = {}
      /\ counter = 2 /\ clock = 1
      /\ answer = TRUE /\ reader = NoOne /\ lister = NoOne

Tick == clock =< ChatWrites /\ clock' = clock + 1

Answer(status) == answer' = (status = "OK")
Refuse(status) == Answer(status) /\ UNCHANGED <<chatState, reader, lister>>

\* The spaces a request may name: 99 is none.
Named == DOMAIN spaces \union {99}

------------------------------------------------------------------------------
(***************************************************************************)
(* Spaces, members and uploads only ever appear.                           *)
(***************************************************************************)
CreateSpace(type) ==
  /\ Tick /\ Answer("OK")
  /\ counter' = counter + 1
  /\ spaces' = With(spaces, counter', [type |-> type, members |-> {"users/jetty"}])
  /\ order' = With(order, counter', <<>>)
  /\ UNCHANGED <<messages, threads, threadKeys, roots, reactions, uploads, reader, lister>>

\* find_direct_message: the first direct message space the user is a member of.
FindDirectMessage(user) ==
  Refuse(IF \E s \in DOMAIN spaces : spaces[s].type = "DIRECT_MESSAGE" /\ user \in spaces[s].members
           THEN "OK" ELSE "NOT_FOUND")

StoreUpload(space) ==
  /\ Tick /\ Answer("OK")
  /\ counter' = counter + 1
  /\ uploads' = uploads \union {counter'}
  /\ UNCHANGED <<spaces, messages, order, threads, threadKeys, roots, reactions, reader, lister>>

\* The upload route: a known space, then a body of at most upload_max_bytes.
UploadAttachment(space, fits) ==
  \/ space \notin DOMAIN spaces /\ Refuse("NOT_FOUND")
  \/ space \in DOMAIN spaces /\ ~fits /\ Refuse("INVALID_ARGUMENT")
  \/ space \in DOMAIN spaces /\ fits /\ StoreUpload(space)

------------------------------------------------------------------------------
(***************************************************************************)
(* Messages.                                                               *)
(***************************************************************************)
\* The bodies of a create: what a thread, a key, a quote and an attachment can
\* be, and bodies that do not parse.  A quote is of the message the client has
\* read, with the time it read; 99 is an id nobody gave out; new messages all
\* have the same text.
Plain == [thread |-> NoOne, key |-> NoOne, reply |-> "new", quote |-> NoOne,
          attachment |-> NoOne, text |-> NewText]

Creates ==
  {b \in [thread : threads \union {NoOne, <<SeedSpace, 99>>}, key : ChatKeys \union {NoOne},
          reply : {"new", "fallback", "fail"}, quote : {NoOne, reader},
          attachment : {NoOne, 99} \union uploads, text : {NewText}] :
     /\ b.thread # NoOne => b.key = NoOne   \* the key is not looked at
     /\ (b.thread = NoOne /\ b.key = NoOne) <=> b.reply = "new"   \* "new" looks at neither
     /\ b.attachment # NoOne => b.quote = NoOne /\ b.thread = NoOne}
  \union {[Plain EXCEPT !.text = ""], [Plain EXCEPT !.reply = "bogus"], [Plain EXCEPT !.attachment = 0]}

\* _parse_create.
ParseCreate(body) == body.text # "" /\ body.reply # "bogus" /\ body.attachment # 0

\* _resolve_thread: an existing thread, a new one that takes a key, a new one
\* (NoOne: _insert makes it), or "missing".
ResolveThread(space, req) ==
  LET key == <<space, req.key>>
      fresh == <<space, counter + 1>>
  IN  CASE req.reply = "new" \/ (req.thread = NoOne /\ req.key = NoOne) -> NoOne
        [] req.thread # NoOne /\ req.thread \in threads -> req.thread
        [] req.thread # NoOne /\ req.reply = "fallback" -> NoOne
        [] req.thread = NoOne /\ key \in DOMAIN threadKeys -> threadKeys[key]
        [] req.thread = NoOne /\ key \notin DOMAIN threadKeys /\ req.reply = "fallback" -> fresh
        [] OTHER -> <<"missing">>

Version(m) == IF messages[m].updated = 0 THEN messages[m].created ELSE messages[m].updated

\* Variant: edits do not count.
QuoteAccepted_created(q, thread) ==
  /\ q.name \in DOMAIN messages
  /\ q.time = messages[q.name].created
  /\ messages[q.name].thread = thread \/ roots[messages[q.name].thread] = q.name

\* _resolve_quote: the message exists, the time is that of its latest version,
\* and it is in the same thread or a root.
QuoteAccepted(q, thread) ==
  /\ q.name \in DOMAIN messages
  /\ q.time = Version(q.name)
  /\ messages[q.name].thread = thread \/ roots[messages[q.name].thread] = q.name

\* What a create does before the quote and the attachments are looked at: a key
\* that is new is bound to a thread.  Both are kept if the create is refused.
Binds(space, req) == ResolveThread(space, req) = <<space, counter + 1>>

Bound(space, req) ==
  IF Binds(space, req)
    THEN /\ threads' = threads \union {<<space, counter + 1>>}
         /\ threadKeys' = With(threadKeys, <<space, req.key>>, <<space, counter + 1>>)
    ELSE UNCHANGED <<threads, threadKeys>>

\* _insert: a thread for a message that has none, the message, and the root of
\* the thread if it is the first.
Insert(space, req, thread, last) ==
  LET own == IF thread = NoOne THEN <<space, last + 1>> ELSE thread
      id == IF thread = NoOne THEN last + 2 ELSE last + 1
      quoted == IF req.quote = NoOne THEN NoOne
                ELSE [name |-> req.quote.name, thread |-> messages[req.quote.name].thread,
                      text |-> messages[req.quote.name].text, asRead |-> req.quote.text]
  IN  /\ counter' = id
      /\ messages' = With(messages, id,
           [space |-> space, thread |-> own, text |-> req.text, created |-> clock',
            updated |-> 0, quoted |-> quoted])
      /\ order' = [order EXCEPT ![space] = Append(@, id)]
      /\ roots' = IF own \in DOMAIN roots THEN roots ELSE With(roots, own, id)
      /\ IF thread = NoOne
           THEN threads' = threads \union {own} /\ UNCHANGED threadKeys
           ELSE Bound(space, req)

\* Variant: the message is inserted before its attachments are resolved.
CreateMessage_early(space, req) ==
  LET thread == ResolveThread(space, req)
      last == IF Binds(space, req) THEN counter + 1 ELSE counter
  IN  \/ thread = <<"missing">> /\ Refuse("NOT_FOUND")
      \/ /\ thread # <<"missing">> /\ (req.quote # NoOne => QuoteAccepted(req.quote, thread))
         /\ Tick
         /\ Answer(IF req.attachment \in uploads \union {NoOne} THEN "OK" ELSE "INVALID_ARGUMENT")
         /\ Insert(space, req, thread, last)
         /\ UNCHANGED <<spaces, reactions, uploads, reader, lister>>

\* create_message of the driver.  _drive gives DriverRejects and ThreadNotFound
\* their statuses.
CreateMessage(space, req) ==
  LET thread == ResolveThread(space, req)
      last == IF Binds(space, req) THEN counter + 1 ELSE counter
      accepted == /\ req.quote # NoOne => QuoteAccepted(req.quote, thread)
                  /\ req.attachment # NoOne => req.attachment \in uploads
  IN  \/ thread = <<"missing">> /\ Refuse("NOT_FOUND")
      \/ /\ thread # <<"missing">> /\ ~accepted
         /\ Answer("INVALID_ARGUMENT")
         /\ Bound(space, req) /\ counter' = last
         /\ UNCHANGED <<spaces, messages, order, roots, reactions, uploads, clock, reader, lister>>
      \/ /\ thread # <<"missing">> /\ accepted
         /\ Tick /\ Answer("OK")
         /\ Insert(space, req, thread, last)
         /\ UNCHANGED <<spaces, reactions, uploads, reader, lister>>

\* The create route: a known space, a body that parses, the driver.
PostMessage(space, body) ==
  \/ space \notin DOMAIN spaces /\ Refuse("NOT_FOUND")
  \/ space \in DOMAIN spaces /\ ~ParseCreate(body) /\ Refuse("INVALID_ARGUMENT")
  \/ space \in DOMAIN spaces /\ ParseCreate(body) /\ CreateMessage(space, body)

\* The name spaces/<space>/messages/<m> is that of a message.
Exists(space, m) == m \in DOMAIN messages /\ messages[m].space = space

SetText(m, text) ==
  /\ Tick /\ Answer("OK")
  /\ messages' = [messages EXCEPT ![m].text = text, ![m].updated = clock']
  /\ UNCHANGED <<spaces, order, threads, threadKeys, roots, reactions, uploads, counter, reader, lister>>

\* The patch route: the mask must name text and nothing else.
PatchMessage(space, m, mask, text) ==
  \/ mask # {"text"} /\ Refuse("INVALID_ARGUMENT")
  \/ mask = {"text"} /\ ~Exists(space, m) /\ Refuse("NOT_FOUND")
  \/ mask = {"text"} /\ Exists(space, m) /\ SetText(m, text)

\* What a delete is to the client in the middle of a list.
Shrink(m) ==
  lister' = IF lister = NoOne \/ lister.done THEN lister
            ELSE [lister EXCEPT !.shrunk = @ \/ messages[m].space = lister.space,
                                !.steady = @ \ {m}]

\* Variant: the reactions of a deleted message stay.
PopMessage_reactions(m) ==
  /\ Tick /\ Answer("OK")
  /\ messages' = Drop(messages, m)
  /\ order' = [order EXCEPT ![messages[m].space] = RemoveFirst(@, m)]
  /\ Shrink(m)
  /\ UNCHANGED <<spaces, threads, threadKeys, roots, reactions, uploads, counter, reader>>

\* delete_message: the thread, its key and the name of its root stay.
PopMessage(m) ==
  /\ Tick /\ Answer("OK")
  /\ messages' = Drop(messages, m)
  /\ order' = [order EXCEPT ![messages[m].space] = RemoveFirst(@, m)]
  /\ reactions' = Drop(reactions, m)
  /\ Shrink(m)
  /\ UNCHANGED <<spaces, threads, threadKeys, roots, uploads, counter, reader>>

DeleteMessage(space, m) ==
  \/ ~Exists(space, m) /\ Refuse("NOT_FOUND")
  \/ Exists(space, m) /\ PopMessage(m)

Reactions(m) == IF m \in DOMAIN reactions THEN reactions[m] ELSE <<>>

AddReaction(m) ==
  /\ Tick /\ Answer("OK")
  /\ counter' = counter + 1
  /\ reactions' = With(reactions, m, Append(Reactions(m), counter'))
  /\ UNCHANGED <<spaces, messages, order, threads, threadKeys, roots, uploads, reader, lister>>

\* The create route looks for the message first (_require_message).
CreateReaction(space, m, emoji) ==
  \/ emoji = "" /\ Refuse("INVALID_ARGUMENT")
  \/ emoji # "" /\ ~Exists(space, m) /\ Refuse("NOT_FOUND")
  \/ emoji # "" /\ Exists(space, m) /\ AddReaction(m)

\* delete_reaction: the row goes, the list stays.
PopReaction(m, r) ==
  /\ Tick /\ Answer("OK")
  /\ reactions' = [reactions EXCEPT ![m] = RemoveFirst(@, r)]
  /\ UNCHANGED <<spaces, messages, order, threads, threadKeys, roots, uploads, counter, reader, lister>>

DeleteReaction(m, r) ==
  \/ ~Contains(Reactions(m), r) /\ Refuse("NOT_FOUND")
  \/ Contains(Reactions(m), r) /\ PopReaction(m, r)

------------------------------------------------------------------------------
(***************************************************************************)
(* Clients that read: one of the two in a behaviour, as neither affects    *)
(* the other.                                                              *)
(***************************************************************************)
\* get_message (or a list, or a search) shows a client one version of a message.
GetMessage(space, m) ==
  \/ ~Exists(space, m) /\ Refuse("NOT_FOUND")
  \/ /\ Exists(space, m) /\ Answer("OK")
     /\ lister = NoOne
     /\ reader' = [name |-> m, time |-> Version(m), text |-> messages[m].text]
     /\ UNCHANGED <<chatState, lister>>

\* list_messages: the ids a query finds, of one thread or (NoOne) all of the
\* space, sorted by creation time.
Found(space, thread) ==
  {m \in ToSet(order[space]) : thread = NoOne \/ messages[m].thread = thread}

ListRows(space, thread, descending) ==
  Listings(Found(space, thread), [m \in Found(space, thread) |-> messages[m].created], descending)

\* Variant: no token when one row is left.
ListPage_short(rows, offset) ==
  [rows |-> SubSeq(rows, offset + 1,
                   IF offset + ChatPageSize < Len(rows) THEN offset + ChatPageSize ELSE Len(rows)),
   more |-> offset + ChatPageSize + 1 < Len(rows)]

\* _paginate: the window, and whether there is a next token.
ListPage(rows, offset) ==
  [rows |-> SubSeq(rows, offset + 1,
                   IF offset + ChatPageSize < Len(rows) THEN offset + ChatPageSize ELSE Len(rows)),
   more |-> offset + ChatPageSize < Len(rows)]

\* steady, shrunk: history, what has been in the list since the client set out,
\* and whether anything of the space was deleted meanwhile.
StartList(space, thread, descending) ==
  /\ lister = NoOne /\ reader = NoOne
  /\ lister' = [space |-> space, thread |-> thread, descending |-> descending, offset |-> 0,
                seen |-> <<>>, done |-> FALSE, shrunk |-> FALSE,
                steady |-> Found(space, thread)]
  /\ Answer("OK")
  /\ UNCHANGED <<chatState, reader>>

NextList ==
  /\ lister # NoOne /\ ~lister.done
  /\ \E rows \in ListRows(lister.space, lister.thread, lister.descending) :
       LET page == ListPage(rows, lister.offset)
       IN  lister' = [lister EXCEPT !.seen = @ \o page.rows, !.done = ~page.more,
                                    !.offset = @ + ChatPageSize]
  /\ Answer("OK")
  /\ UNCHANGED <<chatState, reader>>

\* Everything a handler does to a message it is given the name of.
MessageRoutes(space, m) ==
  \/ \E text \in ChatTexts : PatchMessage(space, m, {"text"}, text)
  \/ PatchMessage(space, m, {"text", "cards"}, NewText)
  \/ DeleteMessage(space, m)
  \/ \E emoji \in {"", "+1"} : CreateReaction(space, m, emoji)
  \/ GetMessage(space, m)

ChatNext ==
  \/ \E type \in {"SPACE", "DIRECT_MESSAGE"} : CreateSpace(type)
  \/ \E user \in {"users/u", "users/v"} : FindDirectMessage(user)
  \/ \E space \in Named, fits \in BOOLEAN : UploadAttachment(space, fits)
  \/ \E space \in Named : \E body \in IF space = 99 THEN {Plain} ELSE Creates : PostMessage(space, body)
  \/ (\E m \in DOMAIN messages : MessageRoutes(messages[m].space, m)) \/ MessageRoutes(SeedSpace, 99)
  \/ \E m \in DOMAIN messages : \E r \in ToSet(Reactions(m)) \union {99} : DeleteReaction(m, r)
  \/ \E space \in DOMAIN spaces, thread \in threads \union {NoOne}, desc \in BOOLEAN :
       StartList(space, thread, desc)
  \/ NextList

ChatSpec == ChatInit /\ [][ChatNext]_chatVars

------------------------------------------------------------------------------
\* The tables agree, whatever was deleted or refused: the order of a space lists
\* exactly its messages, once each and by age; every message is in a known
\* thread that has a root no younger than it; only messages that exist have
\* reactions, and no reaction is on two.
ChatTablesAgree ==
  /\ \A s \in DOMAIN spaces :
       /\ ToSet(order[s]) = {m \in DOMAIN messages : messages[m].space = s}
       /\ \A i, j \in DOMAIN order[s] : i < j => order[s][i] < order[s][j]
  /\ \A m \in DOMAIN messages :
       LET t == messages[m].thread IN t \in DOMAIN roots /\ roots[t] =< m
  /\ DOMAIN reactions \subseteq DOMAIN messages
  /\ \A m, n \in DOMAIN reactions : m # n => ToSet(reactions[m]) \cap ToSet(reactions[n]) = {}

\* chat-v1 3.1: a quote "MUST fail if the timestamp does not match the latest
\* version".  What a message quotes is the text its author had read, however
\* the quoted message was edited between the read and the quote; and it is a
\* message of the same thread or a root, also when roots are deleted later.
QuotesWhatWasRead ==
  \A m \in DOMAIN messages :
    LET q == messages[m].quoted
    IN  q # NoOne => /\ q.text = q.asRead
                     /\ q.thread = messages[m].thread \/ roots[q.thread] = q.name

\* A thread key names one thread for good, and a thread keeps the root it first
\* had: neither a refused create nor the deletion of the root or of every
\* message moves them.
KeysAndRootsStay ==
  [][/\ \A k \in DOMAIN threadKeys : k \in DOMAIN threadKeys' /\ threadKeys'[k] = threadKeys[k]
     /\ \A t \in DOMAIN roots : t \in DOMAIN roots' /\ roots'[t] = roots[t]]_chatVars

\* An error is never half a success: a request that is refused changes nothing a
\* client can list or read, though a refused create may have opened an empty
\* thread under its key.
RefusedChangesNothing ==
  [][~answer' =>
       UNCHANGED <<spaces, messages, order, roots, reactions, uploads>>]_chatVars

\* A client that follows the page tokens of a list, in either order, of a space
\* or of a thread, gets every message that was there throughout, unless another
\* was deleted meanwhile; oldest first, it also gets none twice.
ListSeesAll ==
  lister # NoOne /\ ~lister.shrunk =>
    /\ lister.done => lister.steady \subseteq ToSet(lister.seen)
    /\ ~lister.descending => IsInjective(lister.seen)

\* What no request may do to the tables.
ChatSteps == KeysAndRootsStay /\ RefusedChangesNothing
==============================================================================
