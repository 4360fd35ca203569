---------------------------- MODULE IssueTracker -----------------------------
(***************************************************************************)
(* The issue tracker: the emulated surface (modules/issuetracker/module.py)*)
(* over the in-memory driver (mock.py).  A request is parsed by the        *)
(* surface, refused or handed to the driver; nothing in it awaits anything *)
(* between its first look at the tracker and its answer, so a request is   *)
(* one step, and one that is refused (a bad body, NOT_FOUND) or only reads *)
(* is none: it leaves the tracker as it is.  A client that follows page    *)
(* tokens takes one step a page, with other requests in between.           *)
(*                                                                         *)
(* Issues are numbered from 1 and never deleted.  The scalar fields are    *)
(* status and what CONSTANT Scalars adds; a value is good or "bad", which  *)
(* no parser accepts.  Lists without duplicates are sets.                  *)
(***************************************************************************)
EXTENDS Paging

CONSTANTS
  Scalars,      \* scalar fields of an issue, "status" among them
  Elements,     \* what is in a collection: users, hotlists
  Texts,        \* comment bodies
  PageSize,     \* pageSize of the paging client
  MaxIssues,    \* bound on the issues explored
  MaxWrites,    \* bound on the requests that write
  MaxNow,       \* bound on the clock, in microseconds
  MaxMasked     \* bound on the edits of one modify

Statuses == {"NEW", "FIXED"}
Collections == {"ccs", "hotlistIds"}

ASSUME TrackerAssumption ==
  /\ "status" \in Scalars
  /\ Scalars \cap Collections = {}
  /\ PageSize \in Nat \ {0} /\ MaxNow \in Nat

VARIABLES
  issues,    \* _issues
  comments,  \* _comments: of each issue, the bodies; the first is the description
  updates,   \* _updates: of each issue, the history, oldest first
  related,   \* _relationships: of each issue, the target issues
  pager,     \* the client that follows page tokens
  writes     \* requests explored

tracker == <<issues, comments, updates, related>>
trackerVars == <<tracker, pager, writes>>

Ids == 1 .. Len(issues)
NoPager == [kind |-> "none"]

TrackerInit ==
  /\ issues = <<>> /\ comments = <<>> /\ updates = <<>> /\ related = <<>>
  /\ pager = NoPager
  /\ writes = 0

------------------------------------------------------------------------------
(***************************************************************************)
(* The surface.                                                            *)
(***************************************************************************)
\* What a body may name: the fields below, and one that cannot be modified.
WireFields == Scalars \cup Collections \cup {"componentId"}
WireValues == Statuses \cup Elements \cup {"bad"}

Edits == [mask : {"add", "remove"}, field : WireFields, value : WireValues]

\* Variant: the surface lets a field through that the driver does not know.
SurfaceScalarsAhead == Scalars \cup {"componentId"}

\* The fields of _MODIFY_SCALARS and of _SCALAR_FIELDS.
SurfaceScalars == Scalars
DriverScalars == Scalars

\* _masked_deltas: an edit the surface accepts.
Accepted(e) ==
  \/ e.field \in SurfaceScalars /\ e.mask = "add" /\ e.value \in Statuses
  \/ e.field \in Collections /\ e.value \in Elements

\* _parse_modify: the edits of a body that is not refused.  A scalar has one value.
Bodies ==
  {b \in UNION {kSubset(k, {e \in Edits : Accepted(e)}) : k \in 0 .. MaxMasked} :
     \A x, y \in b : x.field \in SurfaceScalars /\ x.field = y.field => x = y}

------------------------------------------------------------------------------
(***************************************************************************)
(* The driver.                                                             *)
(***************************************************************************)
Latest(a, b) == IF a >= b THEN a ELSE b

\* Times are floats.  In their last place, until 2038, they count 2^-22 s, from a
\* full second here: Float(k) is the float of k microseconds, and to add 1e-6 adds
\* four, which is a little less.
Float(k) == (k * 131072 + 15625) \div 31250
Micro == 4

\* _rfc3339: the microseconds of a float, rounded.
Wire(t) == (t * 15625 + 32768) \div 65536

\* Variant: the clock is believed.
StampNow(i, now) == Float(now)

\* _touch: strictly later than the last change, whatever time.time() says.
Stamp(i, now) == Latest(Float(now), issues[i].modified + Micro)

Touched(i, now) == [issues EXCEPT ![i].modified = Stamp(i, now)]

Writes == writes < MaxWrites /\ writes' = writes + 1

Open(issue) == issue.scalar["status"] = "NEW"

\* What a write is to a client in the middle of a list of open issues: some may
\* leave it.
Noticed ==
  pager' = IF pager = NoPager \/ pager.kind # "issues" \/ pager.done THEN pager
           ELSE [pager EXCEPT
                   !.steady = {k \in @ : Open(issues'[k])},
                   !.shrunk = @ \/ \E k \in Ids : Open(issues[k]) /\ ~Open(issues'[k])]

\* create_issue, of a known component; comment 1 is the description.
CreateIssue(status, text, now) ==
  /\ Writes
  /\ Len(issues) < MaxIssues
  /\ issues' = Append(issues,
       [scalar |-> [f \in Scalars |-> status], coll |-> [c \in Collections |-> {}],
        modified |-> Float(now), description |-> text])
  /\ comments' = Append(comments, <<text>>)
  /\ updates' = Append(updates, <<>>)
  /\ related' = Append(related, {})

\* What a modify does to an issue: scalars are set, then elements added, then
\* elements removed; what changes nothing is no change.
Changes(i, edits) ==
  LET with(m, f) == {e.value : e \in {x \in edits : x.mask = m /\ x.field = f}} \cap Elements
      old == issues[i]
      sets == {e \in edits : e.field \in DriverScalars /\ old.scalar[e.field] # e.value}
  IN  [sets    |-> {[field |-> e.field, old |-> old.scalar[e.field], new |-> e.value] : e \in sets},
       added   |-> [c \in Collections |-> with("add", c) \ old.coll[c]],
       removed |-> [c \in Collections |->
                      with("remove", c) \cap (old.coll[c] \cup with("add", c))]]

NoChanges(ch) ==
  ch.sets = {} /\ \A c \in Collections : ch.added[c] = {} /\ ch.removed[c] = {}

Applied(issue, ch) ==
  [issue EXCEPT
     !.scalar = [f \in Scalars |->
        IF \E s \in ch.sets : s.field = f
          THEN (CHOOSE s \in ch.sets : s.field = f).new ELSE issue.scalar[f]],
     !.coll = [c \in Collections |-> (issue.coll[c] \cup ch.added[c]) \ ch.removed[c]]]

ScalarsOnly(sets) ==
  LET none == [c \in Collections |-> {}]
  IN  [sets |-> sets, added |-> none, removed |-> none]

\* One entry of the history; n is the number of its comment, 0 for none.
Record(i, ch, n, stamp) ==
  [updates EXCEPT ![i] = Append(@,
     [stamp |-> stamp, sets |-> ch.sets, added |-> ch.added,
      removed |-> ch.removed, comment |-> n])]

\* modify_issue.  A comment is one more touch.  A scalar the driver does not know
\* is refused when it is its turn, after the ones before it are set.
ModifyIssue(i, edits, comment, now) ==
  LET ch == Changes(i, edits)
      known == \A e \in edits : e.field \in DriverScalars \cup Collections
      n == IF comment = "none" THEN 0 ELSE Len(comments[i]) + 1
      stamp == IF n = 0 THEN Stamp(i, now) ELSE Stamp(i, now) + Micro
      idle == NoChanges(ch) /\ n = 0
  IN  /\ Writes
      /\ edits # {} \/ comment # "none"
      /\ \E done \in IF known THEN {ch.sets} ELSE SUBSET ch.sets :
           issues' = [issues EXCEPT ![i] =
             IF idle THEN @
             ELSE IF known THEN [Applied(@, ch) EXCEPT !.modified = stamp]
             ELSE Applied(@, ScalarsOnly(done))]
      /\ comments' = IF n = 0 \/ ~known THEN comments
                     ELSE [comments EXCEPT ![i] = Append(@, comment)]
      /\ updates' = IF idle \/ ~known THEN updates ELSE Record(i, ch, n, stamp)
      /\ UNCHANGED related

CreateComment(i, text, now) ==
  /\ Writes
  /\ comments' = [comments EXCEPT ![i] = Append(@, text)]
  /\ issues' = Touched(i, now)
  /\ UNCHANGED <<updates, related>>

\* update_comment: comment 1 is the description.
UpdateComment(i, n, text, now) ==
  /\ Writes
  /\ n \in 1 .. Len(comments[i])
  /\ comments' = [comments EXCEPT ![i][n] = text]
  /\ issues' = [Touched(i, now) EXCEPT ![i].description = IF n = 1 THEN text ELSE @]
  /\ UNCHANGED <<updates, related>>

\* create_relationship, of one type: unknown targets and repetitions are refused.
CreateRelationship(i, target, now) ==
  /\ Writes
  /\ target \in Ids
  /\ target \notin related[i]
  /\ related' = [related EXCEPT ![i] = @ \cup {target}]
  /\ issues' = Touched(i, now)
  /\ UNCHANGED <<comments, updates>>

\* create_hotlist_entry: an issue that is on the list stays as it is.
CreateHotlistEntry(i, h, now) ==
  /\ Writes
  /\ issues' = IF h \in issues[i].coll["hotlistIds"] THEN issues
               ELSE [Touched(i, now) EXCEPT ![i].coll["hotlistIds"] = @ \cup {h}]
  /\ UNCHANGED <<comments, updates, related>>

\* delete_hotlist_entry: NOT_FOUND unless the issue is on the list.
DeleteHotlistEntry(i, h, now) ==
  /\ Writes
  /\ h \in issues[i].coll["hotlistIds"]
  /\ issues' = [Touched(i, now) EXCEPT ![i].coll["hotlistIds"] = @ \ {h}]
  /\ UNCHANGED <<comments, updates, related>>

------------------------------------------------------------------------------
\* What a list is of: the comments and the updates of an issue, by number, and
\* the open issues (query "status:open"), by id.
Listed(kind, i) ==
  CASE kind = "comments" -> 1 .. Len(comments[i])
    [] kind = "updates" -> 1 .. Len(updates[i])
    [] kind = "issues" -> {k \in Ids : Open(issues[k])}

\* Its rows: updates newest first.
Rows(kind, i) == Listings(Listed(kind, i), [k \in Listed(kind, i) |-> k], kind = "updates")

\* Variant: the last row is forgotten.
MoreEarly(rows, offset) == offset + PageSize + 1 < Len(rows)

\* _paginate: the rows of a page, and whether there is a nextPageToken.
More(rows, offset) == offset + PageSize < Len(rows)
Window(rows, offset) ==
  SubSeq(rows, offset + 1,
         IF offset + PageSize < Len(rows) THEN offset + PageSize ELSE Len(rows))

\* A client sets out to read a whole list.  steady, shrunk: history, what has been
\* in the list since, and whether anything has left it.
StartPaging(kind, i) ==
  /\ pager = NoPager
  /\ pager' = [kind |-> kind, issue |-> i, offset |-> 0, seen |-> <<>>, done |-> FALSE,
               steady |-> Listed(kind, i), shrunk |-> FALSE]
  /\ UNCHANGED <<tracker, writes>>

NextPage ==
  /\ pager # NoPager /\ ~pager.done
  /\ \E rows \in Rows(pager.kind, pager.issue) :
       pager' = [pager EXCEPT !.seen = @ \o Window(rows, pager.offset),
                              !.offset = @ + PageSize,
                              !.done = ~More(rows, pager.offset)]
  /\ UNCHANGED <<tracker, writes>>

StopPaging ==
  /\ pager # NoPager
  /\ pager' = NoPager
  /\ UNCHANGED <<tracker, writes>>

------------------------------------------------------------------------------
\* Every write reads the clock, which may have been set back.
Write(i, now) ==
  /\ \/ \E b \in Bodies, c \in Texts \cup {"none"} : ModifyIssue(i, b, c, now)
     \/ \E t \in Texts : CreateComment(i, t, now)
     \/ \E n \in DOMAIN comments[i], t \in Texts : UpdateComment(i, n, t, now)
     \/ \E j \in 1 .. MaxIssues : CreateRelationship(i, j, now)
     \/ \E h \in Elements : CreateHotlistEntry(i, h, now) \/ DeleteHotlistEntry(i, h, now)
  /\ Noticed

Create(now) ==
  /\ \E s \in Statuses, t \in Texts : CreateIssue(s, t, now)
  /\ Noticed

TrackerNext ==
  \/ \E now \in 0 .. MaxNow : Create(now) \/ \E i \in Ids : Write(i, now)
  \/ \E kind \in {"comments", "updates"}, i \in Ids : StartPaging(kind, i)
  \/ Ids # {} /\ StartPaging("issues", 1)
  \/ NextPage \/ StopPaging

TrackerSpec == TrackerInit /\ [][TrackerNext]_trackerVars

------------------------------------------------------------------------------
Seen == {pager.seen[k] : k \in DOMAIN pager.seen}

\* A stamp that is a reading of the clock, or at most eight changes ahead of one.
NearClock(t) == \E n \in 0 .. 8, k \in 0 .. Wire(t) : t = Float(k) + n * Micro

\* mock.py of _touch: "pollers compare modifiedTime for change detection".  Whatever
\* of an issue, its comments, history and relationships changes, its stamp grows;
\* its modifiedTime never goes back, even if the clock is set back, and is another
\* one, unless nine changes or more have outrun the clock.
ModifiedTells ==
  [][\A i \in Ids :
       \/ UNCHANGED <<issues[i], comments[i], updates[i], related[i]>>
       \/ LET was == issues[i].modified
              is == issues'[i].modified
          IN  is > was /\ Wire(is) >= Wire(was) /\ (NearClock(is) => Wire(is) > Wire(was))]_trackerVars

\* "two writes within one microsecond must still differ": a change of an issue is
\* another modifiedTime, always.
EveryChangeShows ==
  [][\A i \in Ids :
       \/ UNCHANGED <<issues[i], comments[i], updates[i], related[i]>>
       \/ Wire(issues'[i].modified) > Wire(issues[i].modified)]_trackerVars

\* The entries of a history that mention a field, or an element of a collection.
Setting(h, f) == {k \in DOMAIN h : \E s \in h[k].sets : s.field = f}
Mentioning(h, c, e) == {k \in DOMAIN h : e \in h[k].added[c] \cup h[k].removed[c]}
IsLast(k, ks) == k \in ks /\ \A j \in ks : j <= k

\* The history of an issue leads to its present state: of every scalar, an entry
\* starts where the one before it ended and the last one ends at the value of
\* now; of every collection but the hotlists (whose entries have methods of
\* their own, which record nothing) the last entry about an element tells
\* whether it is there.
HistoryLeadsHere ==
  \A i \in Ids :
    LET h == updates[i]
    IN  /\ \A f \in Scalars : \A k \in Setting(h, f) : \A s \in h[k].sets :
             s.field = f =>
               /\ IsLast(k, Setting(h, f)) => s.new = issues[i].scalar[f]
               /\ \A j \in Setting(h, f) : \A r \in h[j].sets :
                    r.field = f /\ IsLast(j, Setting(h, f) \cap 1 .. k - 1) => s.old = r.new
        /\ \A e \in Elements : \A k \in Mentioning(h, "ccs", e) :
             IsLast(k, Mentioning(h, "ccs", e)) =>
               (e \in issues[i].coll["ccs"] <=> e \notin h[k].removed["ccs"])

\* What the tracker says twice is the same: the description is comment 1, and an
\* entry of the history was made with the comment it names, in this order.
Consistent ==
  \A i \in Ids :
    LET h == updates[i]
    IN  /\ issues[i].description = comments[i][1]
        /\ \A k \in DOMAIN h :
             /\ h[k].comment # 0 => h[k].comment \in 2 .. Len(comments[i])
             /\ h[k].stamp <= issues[i].modified
             /\ \A j \in 1 .. k - 1 :
                  /\ h[j].stamp < h[k].stamp
                  /\ h[k].comment # 0 => h[j].comment < h[k].comment

\* A client that follows the page tokens of a list of comments gets each comment
\* once and in order, also those that are added while it reads.
CommentsPagedOnce ==
  pager # NoPager /\ pager.kind = "comments" =>
    /\ pager.seen = [k \in 1 .. Len(pager.seen) |-> k]
    /\ pager.done => pager.steady \subseteq Seen

\* Of a history, which is listed newest first, it gets every entry there was when
\* it set out.
UpdatesPagedAll ==
  pager # NoPager /\ pager.kind = "updates" /\ pager.done => pager.steady \subseteq Seen

\* Of the issues a query finds, it gets all that match throughout, unless another
\* one stops to match meanwhile.
IssuesPagedUnlessShrunk ==
  pager # NoPager /\ pager.kind = "issues" /\ pager.done /\ ~pager.shrunk =>
    pager.steady \subseteq Seen

\* What the tracker records of an issue agrees with the issue, and with itself.
TrackerConsistent == HistoryLeadsHere /\ Consistent

\* Page tokens are offsets, and what they promise of each kind of list holds.
PagesComplete == CommentsPagedOnce /\ UpdatesPagedAll /\ IssuesPagedUnlessShrunk
==============================================================================
