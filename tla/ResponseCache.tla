----------------------------- MODULE ResponseCache -----------------------------
(***************************************************************************)
(* The response cache: middleware/redis_handler.go around the handlers,    *)
(* redis, and the two listeners of subscriber/redis.go with their handlers *)
(* in handler/default_event_handle.go.                                     *)
(*                                                                         *)
(* A GET is answered from redis if its key is there; otherwise it asks the *)
(* service and a successful response is published on the set topic.  A     *)
(* successful change publishes the keys to delete on the delete topic.     *)
(* Every message received is handled in a goroutine of its own, so any     *)
(* order is possible, and a deletion is several redis commands.  Any redis  *)
(* command may fail, messages are lost, and the gateway restarts.           *)
(*                                                                         *)
(* Each request is made once.  A response remembers, in the history field  *)
(* missed, which later changes concern the data it was computed from.      *)
(***************************************************************************)
EXTENDS CacheKeys, FiniteSets

CONSTANTS
  Requests,   \* the HTTP requests of a behaviour
  Asks,       \* what they may ask: functions from Requests
  WriterOf,   \* [Announcements -> users]
  Near,       \* [Announcements -> SUBSET Announcements], the next and the previous one
  Newest,     \* [Types -> SUBSET Announcements], those a new one is next to
  None

Menu == {f[r] : f \in Asks, r \in Requests}

\* A parameter has a segment at least; the validator accepts an announcement of one
\* of the types only, and no user's UUID is the placeholder of a side key's value.
ASSUME AskedOfMenu ==
  /\ Asks \subseteq [Requests -> Menu]
  /\ \A q \in Menu :
       /\ {q.id, q.type, q.text} \subseteq Seq(Segments) \ {<<>>}
       /\ q.op = "CreateAnnouncement" => \E t \in Types : q.type = <<t>>
       /\ q.user # Hole

VARIABLES
  req,    \* what each request asks
  pc,     \* where the request's goroutine is
  left,   \* keys DeleteKeyEventPublisher has still to publish
  resp,   \* the response to publish, or the one found in the cache
  hits,   \* the requests answered from the cache
  redis,  \* the entries of redis
  sets,   \* messages of the set topic, published or being handled
  dels,   \* messages of the delete topic, published or being handled
  due     \* history: the entries a change has made stale, whose deletions
          \* got through so far, and which nothing has removed

vars == <<req, pc, left, resp, hits, redis, sets, dels, due>>

-----------------------------------------------------------------------------
(* External: what the services accept, and which reads show what a change     *)
(* changes.  The data is that of the responses the handlers compose.          *)

\* A service knows what exists and the types there are; a student's outing is its
\* own, and who changes an outing or an announcement is its owner or its writer.
Accepts(q) ==
  /\ q.op = "CreateOuting" => q.user \in Students
  /\ q.op \in {"GetOutingInform", "GetCardAboutOuting", "TakeActionInOuting", "ModifyOuting"} =>
       \E o \in Outings : q.id = <<o>>
  /\ q.op = "TakeActionByCode" => \E o \in Outings : q.text = <<o>>
  /\ q.op = "ModifyOuting" => q.user = OwnerOf[q.id[1]]
  /\ q.op \in {"UpdateAnnouncement", "DeleteAnnouncement", "GetAnnouncementDetail"} =>
       \E a \in Announcements : q.id = <<a>>
  /\ q.op \in {"UpdateAnnouncement", "DeleteAnnouncement"} => q.user = WriterOf[q.id[1]]
  /\ q.op \in {"GetAnnouncements", "SearchAnnouncements"} => \E t \in Types : q.type = <<t>>

\* The outing a change is of: the service is sent the code of a parent, not the path.
OutingOf(q) == IF q.op = "TakeActionByCode" THEN q.text[1] ELSE q.id[1]

Lists == {"GetAnnouncements", "SearchAnnouncements"}

\* A list shows the title and the views of each announcement; the detail of one
\* shows the titles of the next and the previous one too.
Changes(q, s) ==
  CASE q.op \in {"TakeActionInOuting", "TakeActionByCode", "ModifyOuting"} ->
         \/ s.op \in {"GetOutingInform", "GetCardAboutOuting"} /\ s.id = <<OutingOf(q)>>
         \/ s.op = "GetStudentOutings" /\ s.id = <<OwnerOf[OutingOf(q)]>>
         \/ s.op = "GetOutingWithFilter"
    [] q.op = "CreateOuting" ->
         \/ s.op = "GetStudentOutings" /\ s.id = <<q.user>>
         \/ s.op = "GetOutingWithFilter"
    [] q.op \in {"CreateSchedule", "UpdateSchedule", "DeleteSchedule"} ->
         s.op = "GetSchedule"
    [] q.op = "CreateAnnouncement" ->
         \/ s.op \in Lists /\ s.type = q.type
         \/ s.op = "GetAnnouncementDetail" /\ \E a \in Newest[q.type[1]] : s.id = <<a>>
         \/ s.op = "CheckAnnouncement"
         \/ s.op = "GetMyAnnouncements" /\ s.id = <<q.user>>
    [] q.op \in {"UpdateAnnouncement", "DeleteAnnouncement"} ->
         \/ s.op \in Lists /\ s.type = <<TypeOf[q.id[1]]>>
         \/ s.op = "GetAnnouncementDetail"
              /\ \E a \in {q.id[1]} \cup Near[q.id[1]] : s.id = <<a>>
         \/ s.op = "CheckAnnouncement"
         \/ s.op = "GetMyAnnouncements" /\ s.id = <<WriterOf[q.id[1]]>>
    [] q.op = "GetAnnouncementDetail" ->   \* it is marked as read, and viewed once more
         \/ s.op \in Lists /\ s.type = <<TypeOf[q.id[1]]>>
         \/ s.op = "CheckAnnouncement" /\ s.id = <<q.user>>
         \/ s.op = "GetMyAnnouncements" /\ s.id = <<WriterOf[q.id[1]]>>
    [] OTHER -> FALSE

-----------------------------------------------------------------------------
(* Redis.                                                                   *)

\* Mutant: a response is set without an expiration.
ResponseForEver(v) == [val |-> v, side |-> None, expires |-> FALSE]

Response(v) == [val |-> v, side |-> None, expires |-> TRUE]
\* Mutant: a side key expires like a response.
SideForAMinute(text) == [val |-> None, side |-> text, expires |-> TRUE]

Side(text)  == [val |-> None, side |-> text, expires |-> FALSE]

Cached(k) == k \in DOMAIN redis /\ redis[k].val # None

SetEntry(k, e) ==
  /\ redis' = [x \in DOMAIN redis \cup {k} |-> IF x = k THEN e ELSE redis[x]]
  /\ due' = [r \in Requests |-> due[r] \ {k}]

RemoveEntry(k) ==
  /\ redis' = [x \in DOMAIN redis \ {k} |-> redis[x]]
  /\ due' = [r \in Requests |-> due[r] \ {k}]

Expire(k) ==
  /\ k \in DOMAIN redis /\ redis[k].expires
  /\ RemoveEntry(k)
  /\ UNCHANGED <<req, pc, left, resp, hits, sets, dels>>

-----------------------------------------------------------------------------
(* The middleware of one request r.                                         *)

Goto(r, label) == pc' = [pc EXCEPT ![r] = label]

\* The delete publisher runs last: it wraps the responder and the set publisher.
ToDelete(r, ok) ==
  /\ left' = [left EXCEPT ![r] = IF ok THEN DelKeys(req[r]) ELSE <<>>]
  /\ Goto(r, IF ok /\ DelKeys(req[r]) # <<>> THEN "delete" ELSE "done")

\* Mutant: a blank key is looked up like any other.
HitBlank(r) ==
  /\ pc[r] = "start"
  /\ Cached(SetKey(req[r]))
  /\ resp' = [resp EXCEPT ![r] = redis[SetKey(req[r])].val]
  /\ hits' = hits \cup {r}
  /\ ToDelete(r, TRUE)
  /\ UNCHANGED <<req, redis, sets, dels, due>>

\* ResponderIfKeyExist: the entry is the answer.
Hit(r) ==
  /\ pc[r] = "start"
  /\ SetKey(req[r]) # Blank
  /\ Cached(SetKey(req[r]))
  /\ resp' = [resp EXCEPT ![r] = redis[SetKey(req[r])].val]
  /\ hits' = hits \cup {r}
  /\ ToDelete(r, TRUE)
  /\ UNCHANGED <<req, redis, sets, dels, due>>

\* There is no entry, or the GET fails.
Miss(r) ==
  /\ pc[r] = "start"
  /\ SetKey(req[r]) # Blank
  /\ Goto(r, "service")
  /\ UNCHANGED <<req, left, resp, hits, redis, sets, dels, due>>

\* The handler's turn: at once where there is no responder, or only a blank key.
AtService(r) == pc[r] = "service" \/ (pc[r] = "start" /\ SetKey(req[r]) = Blank)

\* What the change r does to the data a response v was computed from.
Mark(r, v) == IF Changes(req[r], v.of) THEN [v EXCEPT !.missed = @ \cup {r}] ELSE v

IsRead(q) == q.op \in {"GetStudentOutings", "GetOutingInform", "GetCardAboutOuting",
                       "GetOutingWithFilter", "GetSchedule", "GetTimeTable",
                       "GetAnnouncements", "SearchAnnouncements", "GetAnnouncementDetail",
                       "CheckAnnouncement", "GetMyAnnouncements"}

\* SetResponseEventPublisher publishes the response of a read if it succeeded.
ToSet(r, ok) ==
  IF IsRead(req[r]) /\ ok THEN Goto(r, "set") /\ UNCHANGED left ELSE ToDelete(r, ok)

\* The handler calls the service, which reads or changes the data.  Its answer
\* may be an error even though the change has been made.
Serve(r, made, ok) ==
  /\ AtService(r)
  /\ made => Accepts(req[r])
  /\ ok => made
  /\ resp' = [x \in Requests |->
       IF x = r THEN IF IsRead(req[r]) THEN [of |-> req[r], ok |-> ok, missed |-> {}] ELSE None
       ELSE IF made /\ pc[x] = "set" THEN Mark(r, resp[x]) ELSE resp[x]]
  /\ IF made
     THEN /\ redis' = [k \in DOMAIN redis |->
               IF Cached(k) THEN [redis[k] EXCEPT !.val = Mark(r, @)] ELSE redis[k]]
          /\ sets' = {[m EXCEPT !.val = Mark(r, @)] : m \in sets}
          /\ due' = [due EXCEPT ![r] = {k \in DOMAIN redis \ {Blank} :
               ok /\ Cached(k) /\ Changes(req[r], redis[k].val.of)}]
     ELSE UNCHANGED <<redis, sets, due>>
  /\ ToSet(r, ok)
  /\ UNCHANGED <<req, hits, dels>>

\* PUBLISH on the set topic, under whatever key, the blank one too; it may fail.
PublishSet(r) ==
  /\ pc[r] = "set"
  /\ \/ sets' = sets \cup {[by |-> r, key |-> SetKey(req[r]), val |-> resp[r], pc |-> "set"]}
     \/ sets' = sets
  /\ resp' = [resp EXCEPT ![r] = None]
  /\ ToDelete(r, TRUE)
  /\ UNCHANGED <<req, hits, redis, dels, due>>

\* A deletion at its first redis command: the GET of a side key, or KEYS.  A key
\* that matches no expression is an error: nothing is done.
Matching(m, pattern) ==
  IF pattern = Unmatched THEN {} ELSE {[m EXCEPT !.pc = "keys", !.pattern = pattern]}

Deletion(r, key) ==
  LET m == [by |-> r, n |-> Len(left[r]), key |-> key,
            pc |-> "resolve", pattern |-> Unmatched, keys |-> {}]
  IN IF key.side = NoKey THEN Matching(m, Pattern(key.segs)) ELSE {m}

\* DeleteKeyEventPublisher publishes the next key.
PublishDelete(r) ==
  /\ pc[r] = "delete"
  /\ dels' = dels \cup Deletion(r, Head(left[r]))
  /\ left' = [left EXCEPT ![r] = Tail(@)]
  /\ Goto(r, IF Tail(left[r]) = <<>> THEN "done" ELSE "delete")
  /\ UNCHANGED <<req, resp, hits, redis, sets, due>>

\* PUBLISH fails: the remaining keys are not published.
PublishFails(r) ==
  /\ pc[r] = "delete"
  /\ left' = [left EXCEPT ![r] = <<>>]
  /\ due' = [due EXCEPT ![r] = {}]
  /\ Goto(r, "done")
  /\ UNCHANGED <<req, resp, hits, redis, sets, dels>>

-----------------------------------------------------------------------------
(* SetRedisKeyWithResponse, for a message m of the set topic.               *)

HandleSet(m) ==
  /\ m \in sets /\ m.pc = "set"
  /\ SetEntry(m.key, Response(m.val))
  /\ sets' = (sets \ {m}) \cup
       IF SideKey(m.key) # NoKey \/ IsTimetable(m.key) THEN {[m EXCEPT !.pc = "side"]} ELSE {}
  /\ UNCHANGED <<req, pc, left, resp, hits, dels>>

HandleSide(m) ==
  /\ m \in sets /\ m.pc = "side"
  /\ IF IsTimetable(m.key) THEN SetEntry(m.key, Response(m.val))
     ELSE SetEntry(SideKey(m.key), Side(SideValue(m.key)))
  /\ sets' = sets \ {m}
  /\ UNCHANGED <<req, pc, left, resp, hits, dels>>

\* A message is lost on its way, or a SET fails; without the field its side
\* key is made of, a response is cached without a side key.
SetEnds(m) ==
  /\ m \in sets
  /\ sets' = sets \ {m}
  /\ UNCHANGED <<req, pc, left, resp, hits, redis, dels, due>>

-----------------------------------------------------------------------------
(* DeleteAssociatedRedisKey, for a message m of the delete topic.           *)

Becomes(m, set) == dels' = (dels \ {m}) \cup set

\* Mutant: a side key that is not there is replaced by nothing.
ValueOrBlank(side) == IF side \in DOMAIN redis THEN redis[side].side ELSE ""

\* The side key's value, or "*" if it is not there.
Value(side) == IF side \in DOMAIN redis THEN redis[side].side ELSE Star

\* The GET of the side key may fail as well, which is taken for its absence.
ResolveKey(m) ==
  /\ m \in dels /\ m.pc = "resolve"
  /\ \E value \in {Value(m.key.side)} \cup {Star} :
       Becomes(m, Matching(m, Pattern(Resolve(m.key.segs, value))))
  /\ UNCHANGED <<req, pc, left, resp, hits, redis, sets, due>>

\* deleteRedisKeyWithPattern: KEYS, then a DEL for each.
Found(m, keys) == [m EXCEPT !.pc = "del", !.keys = keys]

FindKeys(m) ==
  /\ m \in dels /\ m.pc = "keys"
  /\ LET found == {k \in DOMAIN redis : Matches(m.pattern, k)}
     IN Becomes(m, IF found = {} THEN {} ELSE {Found(m, found)})
  /\ UNCHANGED <<req, pc, left, resp, hits, redis, sets, due>>

DeleteKey(m) ==
  /\ m \in dels /\ m.pc = "del"
  /\ \E k \in m.keys :
       /\ RemoveEntry(k)
       /\ Becomes(m, IF m.keys = {k} THEN {} ELSE {[m EXCEPT !.keys = @ \ {k}]})
  /\ UNCHANGED <<req, pc, left, resp, hits, sets>>

\* A message is lost on its way, or a KEYS or DEL fails.
DeleteEnds(m) ==
  /\ m \in dels
  /\ Becomes(m, {})
  /\ due' = [due EXCEPT ![m.by] = {}]
  /\ UNCHANGED <<req, pc, left, resp, hits, redis, sets>>

\* The gateway restarts: its goroutines and undelivered messages are gone.
Restart ==
  /\ \/ sets # {} \/ dels # {}
     \/ \E r \in Requests : pc[r] \notin {"start", "done"}
  /\ pc' = [r \in Requests |-> IF pc[r] = "start" THEN "start" ELSE "done"]
  /\ left' = [r \in Requests |-> <<>>]
  /\ sets' = {} /\ dels' = {}
  /\ due' = [r \in Requests |-> {}]
  /\ UNCHANGED <<req, resp, hits, redis>>

-----------------------------------------------------------------------------
Init ==
  /\ req \in Asks
  /\ pc = [r \in Requests |-> "start"]
  /\ left = [r \in Requests |-> <<>>]
  /\ resp = [r \in Requests |-> None]
  /\ hits = {}
  /\ redis = [k \in {} |-> None]
  /\ sets = {} /\ dels = {}
  /\ due = [r \in Requests |-> {}]

Request(r) ==
  \/ Hit(r) \/ Miss(r)
  \/ Serve(r, TRUE, TRUE) \/ Serve(r, TRUE, FALSE) \/ Serve(r, FALSE, FALSE)
  \/ PublishSet(r) \/ PublishDelete(r) \/ PublishFails(r)

SetListener == \E m \in sets : HandleSet(m) \/ HandleSide(m) \/ SetEnds(m)
DelListener == \E m \in dels : ResolveKey(m) \/ FindKeys(m) \/ DeleteKey(m) \/ DeleteEnds(m)

Next ==
  \/ \E r \in Requests : Request(r)
  \/ SetListener \/ DelListener
  \/ \E k \in DOMAIN redis : Expire(k)
  \/ Restart

Spec == Init /\ [][Next]_vars

\* Earlier requests have filled the cache: each read of these requests that is
\* cached at all is, and any side key they look up, which outlives its response, may
\* be there.
Asked     == {req[r] : r \in Requests}
Stored    == {SetKey(q) : q \in {a \in Asked : Accepts(a)}} \ {Blank}
ReadOf(k) == CHOOSE q \in Asked : Accepts(q) /\ SetKey(q) = k

Accepted == {q \in Menu : Accepts(q)}
Keys     == {SetKey(q) : q \in Accepted}
SideKeys == {SideKey(k) : k \in Keys} \ {NoKey}
LookedUp == UNION {{DelKeys(q)[i].side : i \in DOMAIN DelKeys(q)} : q \in Asked}

InitWarm ==
  /\ req \in Asks
  /\ pc = [r \in Requests |-> "start"]
  /\ left = [r \in Requests |-> <<>>]
  /\ resp = [r \in Requests |-> None]
  /\ hits = {}
  /\ \E known \in SUBSET (SideKeys \cap LookedUp) :
       redis = [k \in Stored \cup known |->
         IF k \in Stored THEN Response([of |-> ReadOf(k), ok |-> TRUE, missed |-> {}])
         ELSE Side(SideValue(CHOOSE o \in Keys : SideKey(o) = k))]
  /\ sets = {} /\ dels = {}
  /\ due = [r \in Requests |-> {}]

SpecWarm == InitWarm /\ [][Next]_vars
-----------------------------------------------------------------------------
(* Properties.                                                              *)

Values == [of : Menu, ok : BOOLEAN, missed : SUBSET Requests]

\* Every variable has its type; only the keys of the menu and their side keys
\* exist; a response always expires, a side key never does.
TypeOK ==
  /\ req \in Asks
  /\ pc \in [Requests -> {"start", "service", "set", "delete", "done"}]
  /\ \A r \in Requests : \E i \in 0..Len(DelKeys(req[r])) :
       left[r] = SubSeq(DelKeys(req[r]), i + 1, Len(DelKeys(req[r])))
  /\ \A r \in Requests : resp[r] \in Values \cup {None}
  /\ hits \subseteq Requests
  /\ DOMAIN redis \subseteq Keys \cup SideKeys
  /\ \A k \in DOMAIN redis :
       IF k \in SideKeys THEN ~ redis[k].expires ELSE redis[k] \in {Response(v) : v \in Values}
  /\ \A m \in sets : m.by \in Requests /\ m.key \in Keys /\ m.val \in Values
  /\ \A m \in dels : m.by \in Requests /\ m.keys \subseteq Keys \cup SideKeys
  /\ due \in [Requests -> SUBSET Keys]

\* What a read asks for: who asks matters only where the token names the user.
Resource(q) ==
  << q.op,
     IF q.op \in {"GetTimeTable"} \cup Lists THEN q.user
     ELSE IF q.op \in {"GetSchedule", "GetOutingWithFilter"} THEN None ELSE q.id,
     IF q.op \in Lists THEN q.type ELSE None,
     IF q.op \in {"SearchAnnouncements", "GetOutingWithFilter"} THEN q.text ELSE None,
     IF q.op \in {"GetOutingInform", "GetCardAboutOuting", "GetAnnouncementDetail",
                  "CheckAnnouncement"} THEN None ELSE q.page >>

\* The response is a successful one of the service to a request for the same resource.
Answered(r) == resp[r].ok /\ Resource(resp[r].of) = Resource(req[r])

\* The UUID and the type a key is made of have no dot.
Plain(q) ==
  /\ q.op \in {"GetOutingInform", "GetCardAboutOuting", "GetAnnouncementDetail"} => Len(q.id) = 1
  /\ q.op \in Lists => Len(q.type) = 1

\* redis_handler.go:44, "response value of redis key if exists instead request to
\* service": an answer taken from the cache answers the request.  With a dot in its path
\* a request may be answered with another resource, since keys are joined by dots.
\* Of the requests without one it holds, beside any others and for any text: none is
\* answered what is cached under the blank key, an error, or what another has asked for.
PlainHitsAnswer == \A r \in hits : Plain(req[r]) => Answered(r)

\* All the deletions request r has published have been handled.
Settled(r) == pc[r] = "done" /\ \A m \in dels : m.by # r

\* README.md:187, "for a change of a resource ... delete the caches related to it":
\* once a change's deletions are handled, none of them lost or failed, every entry
\* that was cached when the change was made, and shows what it changed, has been
\* removed or replaced.
AllStaleDeleted == \A r \in Requests : Settled(r) => due[r] = {}

\* The keys it fails for, for no API deletes them: the details of the next and the
\* previous announcement; after a view, others' lists and the writer's list; and all
\* but the filter's, if a parent's code is not that of the outing in the path.
Neglected(q, key) ==
  \/ /\ \/ q.op = "CreateAnnouncement"
        \/ q.op \in {"UpdateAnnouncement", "DeleteAnnouncement"}
             /\ key # <<"announcements">> \o q.id
     /\ IsAnnouncement(key)
  \/ /\ q.op = "GetAnnouncementDetail"
     /\ \/ Len(key) > 5 /\ key[1] = "announcements" /\ key[3] # q.user
        \/ key[1] = "writers" /\ key[2] # q.user
  \/ /\ q.op = "TakeActionByCode" /\ q.id # q.text
     /\ ~ (key[1] = "outings" /\ Len(key) > 3)

\* Of all others the keys, side keys, expressions and patterns miss none, in any
\* interleaving.
DeletionIsComplete ==
  \A r \in Requests : Settled(r) => \A key \in due[r] : Neglected(req[r], key)

\* README.md:122: a response lives a minute in redis, so whatever is lost or
\* fails, in the end no entry shows data from before a change.
StaleEntriesExpire == <>[](\A k \in DOMAIN redis : Cached(k) => redis[k].val.missed = {})

-----------------------------------------------------------------------------
(* Fairness: a goroutine that can take a step takes it, and redis expires a  *)
(* key that has an expiration.                                              *)

Fairness ==
  /\ \A r \in Requests : WF_vars(Request(r))
  /\ WF_vars(SetListener) /\ WF_vars(DelListener)
  /\ \A k \in Keys : WF_vars(Expire(k))

FairSpec == SpecWarm /\ Fairness
===============================================================================
