-------------------------- MODULE ResponseCacheProofs --------------------------
(***************************************************************************)
(* The response cache, for any requests, any data and any faults: a hit    *)
(* answers a request whose path parameters have no dot, since two such     *)
(* reads have the same key only if they ask for the same resource and what *)
(* is on its way into redis is under its own key; a change's deletions,    *)
(* once handled, miss none of the entries that show what it changed but    *)
(* the neglected ones; and only keys of reads and their side keys are ever *)
(* in redis.                                                                *)
(***************************************************************************)
EXTENDS ResponseCache, SequenceTheorems, DataInduction, TLAPS

-----------------------------------------------------------------------------
(* The keys.                                                                *)

\* What a text in the middle of a key leaves where it is.
LEMMA Joined ==
  ASSUME NEW S, NEW a \in Seq(S), NEW t \in Seq(S), NEW b \in Seq(S)
  PROVE  /\ Len(a \o t \o b) = Len(a) + Len(t) + Len(b)
         /\ \A i \in 1..Len(a) : (a \o t \o b)[i] = a[i]
         /\ \A i \in 1..Len(t) : (a \o t \o b)[Len(a) + i] = t[i]
         /\ \A i \in 1..Len(b) : (a \o t \o b)[Len(a) + Len(t) + i] = b[i]
<1> DEFINE at == a \o t
<1>1. at \in Seq(S) /\ Len(at) = Len(a) + Len(t)
      /\ \A i \in 1..Len(at) : at[i] = IF i <= Len(a) THEN a[i] ELSE t[i - Len(a)]
  BY ConcatProperties
<1> HIDE DEF at
<1>2. Len(at \o b) = Len(at) + Len(b)
      /\ \A i \in 1..Len(at) + Len(b) : (at \o b)[i] = IF i <= Len(at) THEN at[i] ELSE b[i - Len(at)]
  <2>1. at \in Seq(S)
    BY <1>1
  <2> QED
    BY <2>1, ConcatProperties
<1>3. Len(a) \in Nat /\ Len(t) \in Nat /\ Len(b) \in Nat
  OBVIOUS
<1>4. ASSUME NEW i \in 1..Len(a) PROVE (at \o b)[i] = a[i]
  BY <1>1, <1>2, <1>3
<1>5. ASSUME NEW i \in 1..Len(t) PROVE (at \o b)[Len(a) + i] = t[i]
  BY <1>1, <1>2, <1>3
<1>6. ASSUME NEW i \in 1..Len(b) PROVE (at \o b)[Len(a) + Len(t) + i] = b[i]
  <2>1. Len(at) + i \in 1..Len(at) + Len(b) /\ ~ (Len(at) + i <= Len(at)) /\ (Len(at) + i) - Len(at) = i
    BY <1>1, <1>3
  <2> QED
    BY <1>1, <1>2, <2>1
<1> QED
  BY <1>1, <1>2, <1>4, <1>5, <1>6 DEF at

FilterHead(p) == <<"outings", "filter", "start", p, "count", p, "status">>
FilterTail(p) == <<"grade", p, "group", p, "floor", p, "start_time", p, "end_time", p>>

FilterKey(t, p) == FilterHead(p) \o t \o FilterTail(p)

SearchHead(u, y) == <<"announcements", "uuid", u, "types", y, "query">>
SearchTail(p)    == <<"start", p, "count", p>>

SearchKey(u, y, t, p) == SearchHead(u, y) \o t \o SearchTail(p)

Texts == Seq(Segments) \ {<<>>}

FilterShape(k, t, p) ==
  /\ Len(t) \in Nat \ {0} /\ Len(k) = 17 + Len(t)
  /\ \A i \in 1..7 : k[i] = FilterHead(p)[i]
  /\ \A i \in 1..Len(t) : k[7 + i] = t[i]
  /\ \A i \in 1..10 : k[7 + Len(t) + i] = FilterTail(p)[i]

LEMMA FilterKeyShape ==
  ASSUME NEW t \in Texts, NEW p
  PROVE  FilterShape(FilterKey(t, p), t, p)
<1> DEFINE S == Segments \cup {"outings", "filter", "start", "count", "status", "grade", "group",
                               "floor", "start_time", "end_time", p}
           a == FilterHead(p)
           b == FilterTail(p)
<1>1. a \in Seq(S) /\ b \in Seq(S) /\ Len(a) = 7 /\ Len(b) = 10
  BY DEF FilterHead, FilterTail
<1>2. t \in Seq(S) /\ Len(t) \in Nat \ {0}
  BY DEF Texts
<1> HIDE DEF S, a, b
<1>a. a \in Seq(S) /\ b \in Seq(S) /\ t \in Seq(S)
  BY <1>1, <1>2
<1>3. /\ Len(a \o t \o b) = Len(a) + Len(t) + Len(b)
      /\ \A i \in 1..Len(a) : (a \o t \o b)[i] = a[i]
      /\ \A i \in 1..Len(t) : (a \o t \o b)[Len(a) + i] = t[i]
      /\ \A i \in 1..Len(b) : (a \o t \o b)[Len(a) + Len(t) + i] = b[i]
  BY <1>a, Joined
<1> DEFINE k == a \o t \o b
<1> HIDE DEF k
<1>4. /\ Len(k) = 7 + Len(t) + 10
      /\ \A i \in 1..7 : k[i] = a[i]
      /\ \A i \in 1..Len(t) : k[7 + i] = t[i]
      /\ \A i \in 1..10 : k[7 + Len(t) + i] = b[i]
  BY <1>1, <1>3 DEF k
<1>5. Len(k) = 17 + Len(t)
  BY <1>2, <1>4
<1> QED
  BY <1>2, <1>4, <1>5 DEF FilterKey, FilterShape, k, a, b

SearchShape(k, u, y, t, p) ==
  /\ Len(t) \in Nat \ {0} /\ Len(k) = 10 + Len(t)
  /\ \A i \in 1..6 : k[i] = SearchHead(u, y)[i]
  /\ \A i \in 1..Len(t) : k[6 + i] = t[i]
  /\ \A i \in 1..4 : k[6 + Len(t) + i] = SearchTail(p)[i]

LEMMA SearchKeyShape ==
  ASSUME NEW u, NEW y, NEW t \in Texts, NEW p
  PROVE  SearchShape(SearchKey(u, y, t, p), u, y, t, p)
<1> DEFINE S == Segments \cup {"announcements", "uuid", "types", "query", "start", "count", u, y, p}
           a == SearchHead(u, y)
           b == SearchTail(p)
<1>1. a \in Seq(S) /\ b \in Seq(S) /\ Len(a) = 6 /\ Len(b) = 4
  BY DEF SearchHead, SearchTail
<1>2. t \in Seq(S) /\ Len(t) \in Nat \ {0}
  BY DEF Texts
<1> HIDE DEF S, a, b
<1>a. a \in Seq(S) /\ b \in Seq(S) /\ t \in Seq(S)
  BY <1>1, <1>2
<1>3. /\ Len(a \o t \o b) = Len(a) + Len(t) + Len(b)
      /\ \A i \in 1..Len(a) : (a \o t \o b)[i] = a[i]
      /\ \A i \in 1..Len(t) : (a \o t \o b)[Len(a) + i] = t[i]
      /\ \A i \in 1..Len(b) : (a \o t \o b)[Len(a) + Len(t) + i] = b[i]
  BY <1>a, Joined
<1> DEFINE k == a \o t \o b
<1> HIDE DEF k
<1>4. /\ Len(k) = 6 + Len(t) + 4
      /\ \A i \in 1..6 : k[i] = a[i]
      /\ \A i \in 1..Len(t) : k[6 + i] = t[i]
      /\ \A i \in 1..4 : k[6 + Len(t) + i] = b[i]
  BY <1>1, <1>3 DEF k
<1>5. Len(k) = 10 + Len(t)
  BY <1>2, <1>4
<1> QED
  BY <1>2, <1>4, <1>5 DEF SearchKey, SearchShape, k, a, b

\* Two texts of the same length, each at its place, are the same.
LEMMA SameText ==
  ASSUME NEW s \in Texts, NEW t \in Texts, Len(s) = Len(t), \A i \in 1..Len(t) : s[i] = t[i]
  PROVE  s = t
BY SeqEqual DEF Texts

\* The key of a request without a dot in its path.
PlainKey(q) ==
  LET p == q.page
  IN CASE q.op = "GetStudentOutings" ->
            <<"students", q.user, "outings", "start", p, "count", p>>
       [] q.op = "GetOutingInform"     -> <<"outings", q.id[1]>>
       [] q.op = "GetCardAboutOuting"  -> <<"outings", q.id[1], "card">>
       [] q.op = "GetOutingWithFilter" -> FilterKey(q.text, p)
       [] q.op = "GetSchedule"  -> <<"schedules", "years", p, "months", p>>
       [] q.op = "GetTimeTable" ->
            <<"students", q.user, "timetable", "years", p, "months", p, "days", p, "count", p>>
       [] q.op = "GetAnnouncements" ->
            <<"announcements", "uuid", q.user, "types", q.type[1], "start", p, "count", p>>
       [] q.op = "SearchAnnouncements" -> SearchKey(q.user, q.type[1], q.text, p)
       [] q.op = "GetAnnouncementDetail" -> <<"announcements", q.id[1]>>
       [] q.op = "CheckAnnouncement"  -> <<"students", q.user, "announcement-check">>
       [] q.op = "GetMyAnnouncements" ->
            <<"writers", q.user, "announcements", "start", p, "count", p>>

LEMMA OneSegment ==
  ASSUME NEW t \in Texts, Len(t) = 1
  PROVE  t = <<t[1]>>
<1>1. t \in Seq(Segments) /\ <<t[1]>> \in Seq(Segments)
  BY DEF Texts
<1>2. Len(<<t[1]>>) = 1 /\ <<t[1]>>[1] = t[1]
  OBVIOUS
<1> QED
  BY <1>1, <1>2, SeqEqual

\* A segment at the end, or before the last, of a key.
LEMMA OneJoined ==
  ASSUME NEW a, NEW x, NEW b
  PROVE  <<a>> \o <<x>> = <<a, x>> /\ <<a>> \o <<x>> \o <<b>> = <<a, x, b>>
<1> DEFINE S == {a, x, b}
           k == <<a>> \o <<x>>
           l == <<a>> \o <<x>> \o <<b>>
<1>1. k \in Seq(S) /\ l \in Seq(S) /\ <<a, x>> \in Seq(S) /\ <<a, x, b>> \in Seq(S)
  OBVIOUS
<1>2. Len(k) = 2 /\ k[1] = a /\ k[2] = x
  OBVIOUS
<1>3. Len(l) = 3 /\ l[1] = a /\ l[2] = x /\ l[3] = b
  OBVIOUS
<1> HIDE DEF S, k, l
<1>4. k = <<a, x>>
  BY <1>1, <1>2, SeqEqual
<1>5. l = <<a, x, b>>
  BY <1>1, <1>3, SeqEqual
<1> QED
  BY <1>4, <1>5 DEF k, l

ListHead(u, y) == <<"announcements", "uuid", u, "types", y>>

LEMMA ListJoined ==
  ASSUME NEW u, NEW y, NEW p
  PROVE  /\ <<"announcements", "uuid", u, "types">> \o <<y>> = ListHead(u, y)
         /\ ListHead(u, y) \o <<"query">> = SearchHead(u, y)
         /\ ListHead(u, y) \o <<"start", p, "count", p>>
              = <<"announcements", "uuid", u, "types", y, "start", p, "count", p>>
<1> DEFINE S == {"announcements", "uuid", u, "types", y, "query", "start", "count", p}
           k == <<"announcements", "uuid", u, "types">> \o <<y>>
           l == ListHead(u, y) \o <<"query">>
           m == ListHead(u, y) \o <<"start", p, "count", p>>
           n == <<"announcements", "uuid", u, "types", y, "start", p, "count", p>>
<1>1. k \in Seq(S) /\ l \in Seq(S) /\ m \in Seq(S) /\ n \in Seq(S)
      /\ ListHead(u, y) \in Seq(S) /\ SearchHead(u, y) \in Seq(S)
  BY DEF ListHead, SearchHead
<1>2. Len(k) = 5 /\ Len(ListHead(u, y)) = 5 /\ \A i \in 1..5 : k[i] = ListHead(u, y)[i]
  BY DEF ListHead
<1>3. Len(l) = 6 /\ Len(SearchHead(u, y)) = 6 /\ \A i \in 1..6 : l[i] = SearchHead(u, y)[i]
  BY DEF ListHead, SearchHead
<1>4. Len(m) = 9 /\ Len(n) = 9 /\ \A i \in 1..9 : m[i] = n[i]
  BY DEF ListHead
<1> HIDE DEF S, k, l, m, n
<1>5. k = ListHead(u, y) /\ l = SearchHead(u, y) /\ m = n
  BY <1>1, <1>2, <1>3, <1>4, SeqEqual
<1> QED
  BY <1>5 DEF k, l, m, n

LEMMA MenuTexts ==
  ASSUME NEW q \in Menu
  PROVE  q.id \in Texts /\ q.type \in Texts /\ q.text \in Texts
<1>1. {q.id, q.type, q.text} \subseteq Seq(Segments) \ {<<>>}
  BY AskedOfMenu
<1> QED
  BY <1>1 DEF Texts

LEMMA KeyIsPlain ==
  ASSUME NEW q \in Menu, Plain(q), SetKey(q) # Blank
  PROVE  /\ IsRead(q) /\ SetKey(q) = PlainKey(q)
         /\ q.op \in {"GetOutingInform", "GetCardAboutOuting", "GetAnnouncementDetail"} =>
              q.id = <<q.id[1]>>
         /\ q.op \in Lists => q.type = <<q.type[1]>>
         /\ q.op \in {"GetStudentOutings", "CheckAnnouncement", "GetMyAnnouncements"} =>
              q.id = <<q.user>>
<1>0. IsRead(q)
  BY DEF SetKey, IsRead, Blank
<1>1. /\ q.op \in {"GetOutingInform", "GetCardAboutOuting", "GetAnnouncementDetail"} =>
           q.id = <<q.id[1]>>
      /\ q.op \in Lists => q.type = <<q.type[1]>>
  BY MenuTexts, OneSegment DEF Plain
<1>2. ASSUME q.op \in {"GetStudentOutings", "CheckAnnouncement", "GetMyAnnouncements"}
      PROVE  q.id = <<q.user>> /\ SetKey(q) = PlainKey(q)
  BY <1>2 DEF SetKey, PlainKey, Mine
<1>3. ASSUME q.op \in {"GetOutingInform", "GetCardAboutOuting", "GetAnnouncementDetail"}
      PROVE  SetKey(q) = PlainKey(q)
  <2>1. /\ <<"outings">> \o q.id = <<"outings", q.id[1]>>
        /\ <<"outings">> \o q.id \o <<"card">> = <<"outings", q.id[1], "card">>
        /\ <<"announcements">> \o q.id = <<"announcements", q.id[1]>>
    <3>1. q.id = <<q.id[1]>>
      BY <1>1, <1>3
    <3> DEFINE x == q.id[1]
               id == q.id
    <3> HIDE DEF x, id
    <3>2. id = <<x>>
      BY <3>1 DEF x, id
    <3>3. /\ <<"outings">> \o id = <<"outings", x>>
          /\ <<"outings">> \o id \o <<"card">> = <<"outings", x, "card">>
          /\ <<"announcements">> \o id = <<"announcements", x>>
      BY <3>2, OneJoined
    <3> QED
      BY <3>3 DEF x, id
  <2> QED
    BY <1>3, <2>1 DEF SetKey, PlainKey
<1>4. ASSUME q.op \in Lists
      PROVE  <<"announcements", "uuid", q.user, "types">> \o q.type = ListHead(q.user, q.type[1])
  <2>1. q.type = <<q.type[1]>>
    BY <1>1, <1>4
  <2> DEFINE y == q.type[1]
             type == q.type
  <2> HIDE DEF y, type
  <2>2. type = <<y>>
    BY <2>1 DEF y, type
  <2>3. <<"announcements", "uuid", q.user, "types">> \o type = ListHead(q.user, y)
    BY <2>2, ListJoined
  <2> QED
    BY <2>3 DEF y, type
<1>5. CASE q.op = "GetAnnouncements"
  <2>1. SetKey(q) = ListHead(q.user, q.type[1]) \o <<"start", q.page, "count", q.page>>
    BY <1>4, <1>5 DEF SetKey, Lists
  <2>2. PlainKey(q) = <<"announcements", "uuid", q.user, "types", q.type[1],
                        "start", q.page, "count", q.page>>
    BY <1>5 DEF PlainKey
  <2>3. SetKey(q) = PlainKey(q)
    BY <2>1, <2>2, ListJoined
  <2> QED
    BY <1>0, <1>1, <1>5, <2>3
<1>8. CASE q.op = "SearchAnnouncements"
  <2>1. SetKey(q) = ListHead(q.user, q.type[1]) \o <<"query">>
                      \o q.text \o <<"start", q.page, "count", q.page>>
    BY <1>4, <1>8 DEF SetKey, Lists
  <2>2. ListHead(q.user, q.type[1]) \o <<"query">> = SearchHead(q.user, q.type[1])
    BY ListJoined
  <2>3. SetKey(q) = PlainKey(q)
    BY <1>8, <2>1, <2>2 DEF PlainKey, SearchKey, SearchTail
  <2> QED
    BY <1>0, <1>1, <1>8, <2>3
<1>9. CASE q.op = "GetOutingWithFilter"
  <2>1. SetKey(q) = PlainKey(q)
    BY <1>9 DEF SetKey, PlainKey, FilterKey, FilterHead, FilterTail
  <2> QED
    BY <1>0, <1>1, <1>9, <2>1
<1>10. CASE q.op \in {"GetSchedule", "GetTimeTable"}
  <2>1. SetKey(q) = PlainKey(q)
    BY <1>10 DEF SetKey, PlainKey
  <2> QED
    BY <1>0, <1>1, <1>10, <2>1
<1> QED
  BY <1>0, <1>1, <1>2, <1>3, <1>5, <1>8, <1>9, <1>10 DEF IsRead, Lists

\* Which API a key that is not blank belongs to, told by its first segment,
\* the number of its segments and the sixth.
ReadOfKey(k) ==
  IF k[1] = "schedules" THEN "GetSchedule"
  ELSE IF k[1] = "writers" THEN "GetMyAnnouncements"
  ELSE IF k[1] = "outings"
  THEN CASE Len(k) = 2 -> "GetOutingInform" [] Len(k) = 3 -> "GetCardAboutOuting"
         [] OTHER -> "GetOutingWithFilter"
  ELSE IF k[1] = "students"
  THEN CASE Len(k) = 3 -> "CheckAnnouncement" [] Len(k) = 7 -> "GetStudentOutings"
         [] OTHER -> "GetTimeTable"
  ELSE IF Len(k) = 2 THEN "GetAnnouncementDetail"
  ELSE IF k[6] = "query" THEN "SearchAnnouncements" ELSE "GetAnnouncements"

LEMMA KeyIsOfRead ==
  ASSUME NEW q \in Menu, Plain(q), SetKey(q) # Blank
  PROVE  IsRead(q) /\ ReadOfKey(SetKey(q)) = q.op
<1>0. IsRead(q) /\ SetKey(q) = PlainKey(q)
  BY KeyIsPlain
<1>1. CASE q.op = "GetStudentOutings"
  BY <1>0, <1>1 DEF PlainKey, ReadOfKey
<1>2. CASE q.op = "GetOutingInform"
  BY <1>0, <1>2 DEF PlainKey, ReadOfKey
<1>3. CASE q.op = "GetCardAboutOuting"
  BY <1>0, <1>3 DEF PlainKey, ReadOfKey
<1>4. CASE q.op = "GetOutingWithFilter"
  <2> DEFINE k == FilterKey(q.text, q.page)
  <2>0. FilterShape(k, q.text, q.page)
    BY MenuTexts, FilterKeyShape
  <2>1. k[1] = "outings" /\ Len(k) # 2 /\ Len(k) # 3
    <3> HIDE DEF k
    <3>1. Len(q.text) \in Nat /\ Len(k) = 17 + Len(q.text)
          /\ \A i \in 1..7 : k[i] = FilterHead(q.page)[i]
      BY <2>0 DEF FilterShape
    <3> QED
      BY <3>1 DEF FilterHead
  <2>2. SetKey(q) = k
    BY <1>0, <1>4 DEF PlainKey
  <2> HIDE DEF k
  <2> QED
    BY <1>0, <1>4, <2>1, <2>2 DEF ReadOfKey
<1>5. CASE q.op = "GetSchedule"
  BY <1>0, <1>5 DEF PlainKey, ReadOfKey
<1>6. CASE q.op = "GetTimeTable"
  BY <1>0, <1>6 DEF PlainKey, ReadOfKey
<1>7. CASE q.op = "GetAnnouncements"
  BY <1>0, <1>7 DEF PlainKey, ReadOfKey
<1>8. CASE q.op = "SearchAnnouncements"
  <2> DEFINE k == SearchKey(q.user, q.type[1], q.text, q.page)
  <2>0. SearchShape(k, q.user, q.type[1], q.text, q.page)
    BY MenuTexts, SearchKeyShape
  <2>1. k[1] = "announcements" /\ Len(k) # 2 /\ k[6] = "query"
    <3> HIDE DEF k
    <3>1. Len(q.text) \in Nat \ {0} /\ Len(k) = 10 + Len(q.text)
          /\ \A i \in 1..6 : k[i] = SearchHead(q.user, q.type[1])[i]
      BY <2>0 DEF SearchShape
    <3> QED
      BY <3>1 DEF SearchHead
  <2>2. SetKey(q) = k
    BY <1>0, <1>8 DEF PlainKey
  <2> HIDE DEF k
  <2> QED
    BY <1>0, <1>8, <2>1, <2>2 DEF ReadOfKey
<1>9. CASE q.op = "GetAnnouncementDetail"
  BY <1>0, <1>9 DEF PlainKey, ReadOfKey
<1>10. CASE q.op = "CheckAnnouncement"
  BY <1>0, <1>10 DEF PlainKey, ReadOfKey
<1>11. CASE q.op = "GetMyAnnouncements"
  BY <1>0, <1>11 DEF PlainKey, ReadOfKey
<1> QED
  BY <1>0, <1>1, <1>2, <1>3, <1>4, <1>5, <1>6, <1>7, <1>8, <1>9, <1>10, <1>11 DEF IsRead

\* What a service accepts has no dot in its path: no such thing exists.
LEMMA AcceptedIsPlain ==
  ASSUME NEW q, Accepts(q)
  PROVE  Plain(q)
BY DEF Accepts, Plain, Lists

\* Requests without a dot in their paths that have the same key, which is not blank,
\* ask for the same resource.
LEMMA KeyNamesResource ==
  ASSUME NEW p \in Menu, NEW q \in Menu, Plain(p), Plain(q),
         SetKey(p) = SetKey(q), SetKey(q) # Blank
  PROVE  Resource(p) = Resource(q)
<1>0. /\ p.op = q.op /\ IsRead(q) /\ PlainKey(p) = PlainKey(q)
      /\ SetKey(p) = PlainKey(p) /\ SetKey(q) = PlainKey(q)
  BY KeyIsOfRead, KeyIsPlain
<1>1. CASE q.op \in {"GetStudentOutings", "CheckAnnouncement", "GetMyAnnouncements"}
  <2>1. p.id = <<p.user>> /\ q.id = <<q.user>>
    BY <1>0, <1>1, KeyIsPlain
  <2>2. p.user = q.user
    BY <1>0, <1>1 DEF PlainKey
  <2>3. q.op # "CheckAnnouncement" => p.page = q.page
    BY <1>0, <1>1 DEF PlainKey
  <2> QED
    BY <1>0, <1>1, <2>1, <2>2, <2>3 DEF Resource, Lists
<1>2. CASE q.op \in {"GetOutingInform", "GetCardAboutOuting", "GetAnnouncementDetail"}
  <2>1. p.id = <<p.id[1]>> /\ q.id = <<q.id[1]>>
    BY <1>0, <1>2, KeyIsPlain
  <2>2. p.id[1] = q.id[1]
    BY <1>0, <1>2 DEF PlainKey
  <2>3. p.id = q.id
    BY <2>1, <2>2
  <2> QED
    BY <1>0, <1>2, <2>3 DEF Resource, Lists
<1>3. CASE q.op = "GetOutingWithFilter"
  <2> DEFINE k == FilterKey(q.text, q.page)
  <2>1. FilterKey(p.text, p.page) = k
    BY <1>0, <1>3 DEF PlainKey
  <2>2. FilterShape(k, q.text, q.page) /\ FilterShape(k, p.text, p.page)
    BY <2>1, MenuTexts, FilterKeyShape
  <2> HIDE DEF k
  <2>3. Len(p.text) = Len(q.text)
    <3>1. /\ Len(p.text) \in Nat /\ Len(k) = 17 + Len(p.text)
          /\ Len(q.text) \in Nat /\ Len(k) = 17 + Len(q.text)
      BY <2>2 DEF FilterShape
    <3> QED
      BY <3>1
  <2>4. \A i \in 1..Len(q.text) : p.text[i] = q.text[i]
    BY <2>2, <2>3 DEF FilterShape
  <2>5. p.page = q.page
    BY <2>2 DEF FilterShape, FilterHead
  <2>6. p.text = q.text
    BY <2>3, <2>4, MenuTexts, SameText
  <2> QED
    BY <1>0, <1>3, <2>5, <2>6 DEF Resource, Lists
<1>4. CASE q.op = "SearchAnnouncements"
  <2> DEFINE k == SearchKey(q.user, q.type[1], q.text, q.page)
  <2>1. SearchKey(p.user, p.type[1], p.text, p.page) = k
    BY <1>0, <1>4 DEF PlainKey
  <2>2. SearchShape(k, q.user, q.type[1], q.text, q.page)
        /\ SearchShape(k, p.user, p.type[1], p.text, p.page)
    BY <2>1, MenuTexts, SearchKeyShape
  <2> HIDE DEF k
  <2>3. Len(p.text) = Len(q.text)
    <3>1. /\ Len(p.text) \in Nat /\ Len(k) = 10 + Len(p.text)
          /\ Len(q.text) \in Nat /\ Len(k) = 10 + Len(q.text)
      BY <2>2 DEF SearchShape
    <3> QED
      BY <3>1
  <2>4. \A i \in 1..Len(q.text) : p.text[i] = q.text[i]
    BY <2>2, <2>3 DEF SearchShape
  <2>5. /\ SearchHead(p.user, p.type[1])[3] = SearchHead(q.user, q.type[1])[3]
        /\ SearchHead(p.user, p.type[1])[5] = SearchHead(q.user, q.type[1])[5]
        /\ SearchTail(p.page)[2] = SearchTail(q.page)[2]
    BY <2>2, <2>3 DEF SearchShape
  <2>6. p.user = q.user /\ p.type[1] = q.type[1] /\ p.page = q.page
    BY <2>5 DEF SearchHead, SearchTail
  <2>7. p.text = q.text
    BY <2>3, <2>4, MenuTexts, SameText
  <2>8. p.type = <<p.type[1]>> /\ q.type = <<q.type[1]>>
    BY <1>0, <1>4, KeyIsPlain DEF Lists
  <2>9. p.type = q.type
    BY <2>6, <2>8
  <2> QED
    BY <1>0, <1>4, <2>6, <2>7, <2>9 DEF Resource, Lists
<1>5. CASE q.op = "GetAnnouncements"
  <2>1. p.user = q.user /\ p.type[1] = q.type[1] /\ p.page = q.page
    BY <1>0, <1>5 DEF PlainKey
  <2>2. p.type = <<p.type[1]>> /\ q.type = <<q.type[1]>>
    BY <1>0, <1>5, KeyIsPlain DEF Lists
  <2>3. p.type = q.type
    BY <2>1, <2>2
  <2> QED
    BY <1>0, <1>5, <2>1, <2>3 DEF Resource, Lists
<1>6. CASE q.op \in {"GetSchedule", "GetTimeTable"}
  BY <1>0, <1>6 DEF PlainKey, Resource, Lists
<1> QED
  BY <1>0, <1>1, <1>2, <1>3, <1>4, <1>5, <1>6 DEF IsRead

-----------------------------------------------------------------------------
(* The invariant.                                                           *)

\* The successful responses, to requests a service accepts, and those with key k.
Answers      == [of : Accepted, ok : {TRUE}, missed : SUBSET Requests]
AnswersTo(k) == {v \in Answers : SetKey(v.of) = k}

Typed ==
  /\ req \in [Requests -> Menu]
  /\ pc \in [Requests -> {"start", "service", "set", "delete", "done"}]
  /\ resp = [r \in Requests |-> resp[r]]
  /\ hits \subseteq Requests

\* An entry of redis that is a response is one to its key.
EntryOf(k, e) ==
  /\ e = [val |-> e.val, side |-> e.side, expires |-> e.expires]
  /\ e.val # None => e.val \in AnswersTo(k)

CacheIsSound == \A k \in DOMAIN redis : EntryOf(k, redis[k])

\* So is one in a message of the set topic, or about to be.
MessagesAreSound ==
  \A m \in sets :
    /\ m = [by |-> m.by, key |-> m.key, val |-> m.val, pc |-> m.pc]
    /\ m.val \in AnswersTo(m.key)

ResponsesAreSound == \A r \in Requests : pc[r] = "set" => resp[r] \in AnswersTo(SetKey(req[r]))

HitsAreSound ==
  \A r \in hits :
    /\ pc[r] \in {"delete", "done"}
    /\ resp[r] \in Answers
    /\ Plain(req[r]) => Resource(resp[r].of) = Resource(req[r])

Inv == Typed /\ CacheIsSound /\ MessagesAreSound /\ ResponsesAreSound /\ HitsAreSound

LEMMA MarkKeeps ==
  ASSUME NEW k, NEW v \in AnswersTo(k), NEW r \in Requests
  PROVE  Mark(r, v) \in AnswersTo(k)
BY DEF Mark, AnswersTo, Answers

LEMMA EntryMarked ==
  ASSUME NEW k, NEW e, EntryOf(k, e), e.val # None, NEW r \in Requests
  PROVE  EntryOf(k, [e EXCEPT !.val = Mark(r, @)])
<1>1. Mark(r, e.val) \in AnswersTo(k)
  BY MarkKeeps DEF EntryOf
<1>2. [e EXCEPT !.val = Mark(r, @)]
        = [val |-> Mark(r, e.val), side |-> e.side, expires |-> e.expires]
  BY DEF EntryOf
<1> QED
  BY <1>1, <1>2 DEF EntryOf

LEMMA MessageMarked ==
  ASSUME NEW m, m = [by |-> m.by, key |-> m.key, val |-> m.val, pc |-> m.pc],
         m.val \in AnswersTo(m.key), NEW r \in Requests, NEW n,
         n = [m EXCEPT !.val = Mark(r, @)]
  PROVE  /\ n = [by |-> n.by, key |-> n.key, val |-> n.val, pc |-> n.pc]
         /\ n.val \in AnswersTo(n.key)
<1>1. n = [by |-> m.by, key |-> m.key, val |-> Mark(r, m.val), pc |-> m.pc]
  OBVIOUS
<1>2. Mark(r, m.val) \in AnswersTo(m.key)
  BY MarkKeeps
<1> QED
  BY <1>1, <1>2

LEMMA InvInit == Init => Inv
BY AskedOfMenu DEF Init, Inv, Typed, CacheIsSound, MessagesAreSound, ResponsesAreSound, HitsAreSound

LEMMA InvInitWarm == InitWarm => Inv
<1> SUFFICES ASSUME InitWarm PROVE Inv
    OBVIOUS
<1>0. req \in [Requests -> Menu]
  BY AskedOfMenu DEF InitWarm
<1>1. \A k \in Stored : ReadOf(k) \in Accepted /\ SetKey(ReadOf(k)) = k
  BY <1>0 DEF Stored, ReadOf, Asked, Accepted
<1>2. \A k \in Stored :
        EntryOf(k, Response([of |-> ReadOf(k), ok |-> TRUE, missed |-> {}]))
  BY <1>1 DEF EntryOf, Response, AnswersTo, Answers
<1>3. \A k, text : EntryOf(k, Side(text))
  BY DEF EntryOf, Side
<1>4. CacheIsSound
  BY <1>2, <1>3 DEF InitWarm, CacheIsSound
<1> QED
  BY <1>0, <1>4 DEF InitWarm, Inv, Typed, MessagesAreSound, ResponsesAreSound, HitsAreSound

-----------------------------------------------------------------------------
(* The steps.                                                               *)

LEMMA HitStep == ASSUME Inv, NEW r \in Requests, Hit(r) PROVE Inv'
<1> USE DEF Inv
<1> DEFINE key == SetKey(req[r])
           val == redis[key].val
<1>1. val \in AnswersTo(key) /\ key # Blank
  BY DEF Hit, Cached, CacheIsSound, EntryOf
<1>2. val \in Answers /\ (Plain(req[r]) => Resource(val.of) = Resource(req[r]))
  <2>1. SetKey(val.of) = SetKey(req[r]) /\ val \in Answers
    BY <1>1 DEF AnswersTo
  <2>2. val.of \in Menu /\ Plain(val.of) /\ req[r] \in Menu
    BY <2>1, AcceptedIsPlain DEF Answers, Accepted, Typed
  <2> QED
    BY <2>1, <2>2, <1>1, KeyNamesResource
<1>3. pc'[r] \in {"delete", "done"} /\ pc' = [pc EXCEPT ![r] = pc'[r]]
  BY DEF Hit, ToDelete, Goto, Typed
<1>4. resp' = [resp EXCEPT ![r] = val] /\ hits' = hits \cup {r}
  BY DEF Hit
<1> HIDE DEF key, val
<1>5. Typed'
  BY <1>3, <1>4 DEF Hit, Typed
<1>6. HitsAreSound'
  BY <1>2, <1>3, <1>4 DEF Hit, Typed, HitsAreSound
<1>7. ResponsesAreSound'
  BY <1>3, <1>4 DEF Hit, Typed, ResponsesAreSound
<1> QED
  BY <1>5, <1>6, <1>7 DEF Hit, CacheIsSound, MessagesAreSound

LEMMA ServeStep ==
  ASSUME Inv, NEW r \in Requests, NEW made \in BOOLEAN, NEW ok \in BOOLEAN, Serve(r, made, ok)
  PROVE  Inv'
<1> USE DEF Inv
<1>1. pc[r] \in {"start", "service"} /\ r \notin hits
  BY DEF Serve, AtService, HitsAreSound
<1>2. /\ pc'[r] \in {"set", "delete", "done"}
      /\ pc' = [pc EXCEPT ![r] = pc'[r]]
      /\ pc'[r] = "set" => IsRead(req[r]) /\ ok
  BY DEF Serve, ToSet, ToDelete, Goto, Typed
<1>3. Typed'
  BY <1>2 DEF Serve, Typed
<1>4. CacheIsSound'
  <2>1. CASE made
    <3>1. DOMAIN redis' = DOMAIN redis
      BY <2>1 DEF Serve
    <3>2. ASSUME NEW k \in DOMAIN redis PROVE EntryOf(k, redis'[k])
      <4>1. EntryOf(k, redis[k])
        BY DEF CacheIsSound
      <4>2. CASE Cached(k)
        BY <2>1, <4>1, <4>2, EntryMarked DEF Serve, Cached
      <4>3. CASE ~ Cached(k)
        BY <2>1, <4>1, <4>3 DEF Serve
      <4> QED
        BY <4>2, <4>3
    <3> QED
      BY <3>1, <3>2 DEF CacheIsSound, EntryOf
  <2>2. CASE ~ made
    BY <2>2 DEF Serve, CacheIsSound, EntryOf
  <2> QED
    BY <2>1, <2>2
<1>5. MessagesAreSound'
  <2>1. CASE made
    <3> SUFFICES ASSUME NEW n \in sets'
                 PROVE  /\ n = [by |-> n.by, key |-> n.key, val |-> n.val, pc |-> n.pc]
                        /\ n.val \in AnswersTo(n.key)
        BY DEF MessagesAreSound
    <3>1. PICK m \in sets : n = [m EXCEPT !.val = Mark(r, @)]
      BY <2>1 DEF Serve
    <3> QED
      BY <3>1, MessageMarked DEF MessagesAreSound
  <2>2. CASE ~ made
    BY <2>2 DEF Serve, MessagesAreSound
  <2> QED
    BY <2>1, <2>2
<1>6. ResponsesAreSound'
  <2> SUFFICES ASSUME NEW x \in Requests, pc'[x] = "set"
               PROVE  resp'[x] \in AnswersTo(SetKey(req[x]))
      BY DEF Serve, ResponsesAreSound
  <2>1. CASE x = r
    <3>1. req[r] \in Accepted /\ ok
      BY <1>2, <2>1 DEF Serve, Typed, Accepted
    <3> QED
      BY <1>2, <2>1, <3>1 DEF Serve, Typed, AnswersTo, Answers
  <2>2. CASE x # r
    <3>1. pc[x] = "set"
      BY <1>2, <2>2 DEF Typed
    <3>2. resp[x] \in AnswersTo(SetKey(req[x]))
      BY <3>1 DEF ResponsesAreSound
    <3>3. resp'[x] = IF made THEN Mark(r, resp[x]) ELSE resp[x]
      BY <2>2, <3>1 DEF Serve
    <3> QED
      BY <3>2, <3>3, MarkKeeps
  <2> QED
    BY <2>1, <2>2
<1>7. HitsAreSound'
  BY <1>1, <1>2 DEF Serve, Typed, HitsAreSound
<1> QED
  BY <1>3, <1>4, <1>5, <1>6, <1>7

LEMMA PublishSetStep == ASSUME Inv, NEW r \in Requests, PublishSet(r) PROVE Inv'
<1> USE DEF Inv
<1>1. pc'[r] \in {"delete", "done"} /\ pc' = [pc EXCEPT ![r] = pc'[r]]
  BY DEF PublishSet, ToDelete, Goto, Typed
<1>2. Typed' /\ CacheIsSound' /\ ResponsesAreSound'
  BY <1>1 DEF PublishSet, Typed, CacheIsSound, ResponsesAreSound
<1>3. HitsAreSound'
  BY <1>1 DEF PublishSet, Typed, HitsAreSound
<1>4. MessagesAreSound'
  BY DEF PublishSet, ResponsesAreSound, MessagesAreSound
<1> QED
  BY <1>2, <1>3, <1>4

LEMMA EntrySet ==
  ASSUME CacheIsSound, NEW k, NEW e, EntryOf(k, e), SetEntry(k, e)
  PROVE  CacheIsSound'
BY DEF CacheIsSound, SetEntry, EntryOf

LEMMA MessageSteps ==
  ASSUME Inv, NEW m \in sets, HandleSet(m) \/ HandleSide(m) \/ SetEnds(m)
  PROVE  Inv'
<1> USE DEF Inv
<1>1. m.val \in AnswersTo(m.key)
      /\ m = [by |-> m.by, key |-> m.key, val |-> m.val, pc |-> m.pc]
  BY DEF MessagesAreSound
<1>2. EntryOf(m.key, Response(m.val)) /\ \A k, text : EntryOf(k, Side(text))
  BY <1>1 DEF EntryOf, Response, Side
<1>3. CacheIsSound'
  <2>1. CASE HandleSet(m)
    BY <2>1, <1>2, EntrySet DEF HandleSet
  <2>2. CASE HandleSide(m)
    BY <2>2, <1>2, EntrySet DEF HandleSide
  <2>3. CASE SetEnds(m)
    BY <2>3 DEF SetEnds, CacheIsSound, EntryOf
  <2> QED
    BY <2>1, <2>2, <2>3
<1>4. MessagesAreSound'
  <2>1. \A n \in sets' : n \in sets \/ n = [m EXCEPT !.pc = "side"]
    BY DEF HandleSet, HandleSide, SetEnds
  <2>2. [m EXCEPT !.pc = "side"] = [by |-> m.by, key |-> m.key, val |-> m.val, pc |-> "side"]
    BY <1>1
  <2> QED
    BY <1>1, <2>1, <2>2 DEF MessagesAreSound
<1>5. UNCHANGED <<req, pc, resp, hits>>
  BY DEF HandleSet, HandleSide, SetEnds
<1> QED
  BY <1>3, <1>4, <1>5 DEF Typed, ResponsesAreSound, HitsAreSound

LEMMA InvStep == Inv /\ [Next]_vars => Inv'
<1> SUFFICES ASSUME Inv, [Next]_vars PROVE Inv'
    OBVIOUS
<1> USE DEF Inv
<1>1. ASSUME NEW r \in Requests, Miss(r) PROVE Inv'
  BY <1>1 DEF Miss, Goto, Typed, CacheIsSound, MessagesAreSound, ResponsesAreSound, HitsAreSound
<1>2. ASSUME NEW r \in Requests, PublishDelete(r) \/ PublishFails(r) PROVE Inv'
  <2>1. /\ pc'[r] \in {"delete", "done"} /\ pc' = [pc EXCEPT ![r] = pc'[r]]
        /\ UNCHANGED <<req, resp, hits, redis, sets>>
    BY <1>2 DEF PublishDelete, PublishFails, Goto, Typed
  <2> QED
    BY <2>1 DEF Typed, CacheIsSound, MessagesAreSound, ResponsesAreSound, HitsAreSound
<1>3. ASSUME NEW r \in Requests, Request(r) PROVE Inv'
  BY <1>1, <1>2, <1>3, HitStep, ServeStep, PublishSetStep DEF Request
<1>4. CASE SetListener
  BY <1>4, MessageSteps DEF SetListener
<1>5. ASSUME NEW k, RemoveEntry(k), UNCHANGED <<req, pc, resp, hits, sets>> PROVE Inv'
  BY <1>5 DEF RemoveEntry, Typed, CacheIsSound, EntryOf, MessagesAreSound, ResponsesAreSound,
              HitsAreSound
<1>6. CASE DelListener
  <2>1. ASSUME NEW m \in dels, ResolveKey(m) \/ FindKeys(m) \/ DeleteEnds(m) PROVE Inv'
    <3>1. UNCHANGED <<req, pc, resp, hits, redis, sets>>
      <4>1. CASE ResolveKey(m)
        BY <4>1 DEF ResolveKey
      <4>2. CASE FindKeys(m)
        <5>1. UNCHANGED <<req, pc, left, resp, hits, redis, sets, due>>
          BY <4>2 DEF FindKeys
        <5> QED
          BY <5>1
      <4>3. CASE DeleteEnds(m)
        BY <4>3 DEF DeleteEnds
      <4> QED
        BY <2>1, <4>1, <4>2, <4>3
    <3> QED
      BY <3>1 DEF Typed, CacheIsSound, EntryOf, MessagesAreSound, ResponsesAreSound, HitsAreSound
  <2>2. ASSUME NEW m \in dels, DeleteKey(m) PROVE Inv'
    BY <2>2, <1>5 DEF DeleteKey
  <2> QED
    BY <1>6, <2>1, <2>2 DEF DelListener
<1>7. ASSUME NEW k \in DOMAIN redis, Expire(k) PROVE Inv'
  BY <1>7, <1>5 DEF Expire
<1>8. CASE Restart
  BY <1>8 DEF Restart, Typed, CacheIsSound, EntryOf, MessagesAreSound, ResponsesAreSound,
              HitsAreSound
<1>9. CASE UNCHANGED vars
  BY <1>9 DEF vars, Typed, CacheIsSound, EntryOf, MessagesAreSound, ResponsesAreSound,
              HitsAreSound
<1> QED
  BY <1>3, <1>4, <1>6, <1>7, <1>8, <1>9 DEF Next

LEMMA InvAnswers == Inv => PlainHitsAnswer
BY DEF Inv, HitsAreSound, PlainHitsAnswer, Answered, Answers

\* A request without a dot in its path that ResponderIfKeyExist answers from redis gets
\* a successful response of the service to a request for the same resource, from a
\* cache that starts empty, whatever others ask, is lost, fails or is delayed.
THEOREM PlainHitsAnswered == Spec => []PlainHitsAnswer
BY InvInit, InvStep, InvAnswers, PTL DEF Spec

\* And so it does from a cache filled before.
THEOREM PlainHitsAnsweredWarm == SpecWarm => []PlainHitsAnswer
BY InvInitWarm, InvStep, InvAnswers, PTL DEF SpecWarm

-----------------------------------------------------------------------------
(* The patterns.                                                            *)

LEMMA AfterNext ==
  ASSUME NEW segment, NEW key, Len(key) \in Nat, NEW h \in Nat, NEW j \in Nat,
         h + 1 <= j, j <= Len(key), j = h + 1 \/ segment = Star,
         segment = key[j] \/ segment \in {Star, Rest}
  PROVE  j \in After(segment, key, h)
<1>1. CASE segment = Rest
  BY <1>1 DEF After
<1>2. CASE segment # Rest /\ segment = Star
  BY <1>2 DEF After
<1>3. CASE segment # Rest /\ segment # Star
  BY <1>3 DEF After
<1> QED
  BY <1>1, <1>2, <1>3

\* Where the segment i of a pattern ends in a key if its c-th, a Star, stands for d
\* segments more than one.
Place(i, c, d) == IF i < c THEN i ELSE i + d

\* They agree in n segments, and these are all or there follows a Rest.
Fits(pattern, key, c, d, n) ==
  /\ Len(pattern) \in Nat /\ Len(key) \in Nat
  /\ c \in Nat \ {0} /\ d \in Nat /\ n \in Nat
  /\ Place(n, c, d) <= Len(key)
  /\ d = 0 \/ pattern[c] = Star
  /\ \A i \in 1..n : pattern[i] = key[Place(i, c, d)] \/ pattern[i] \in {Star, Rest}
  /\ \/ n = Len(pattern) /\ Place(n, c, d) = Len(key)
     \/ n + 1 = Len(pattern) /\ pattern[n + 1] = Rest

\* A pattern that fits a key matches it.
LEMMA StretchedMatch ==
  ASSUME NEW pattern, NEW key, NEW c, NEW d, NEW n, Fits(pattern, key, c, d, n)
  PROVE  Matches(pattern, key)
<1> USE DEF Fits
<1> DEFINE l == Len(pattern)
           F(g) == [i \in 0..l |-> IF i = 0 THEN {0}
                      ELSE UNION {After(pattern[i], key, h) : h \in g[i - 1]}]
           Agrees(g, k) == \A i \in 0..l : i <= k => g[i] = F(g)[i]
           Made == {k \in Nat : \E g : Agrees(g, k)}
<1>0. l \in Nat
  OBVIOUS
<1> HIDE DEF l
<1>1. 0 \in Made
  <2>1. Agrees([i \in 0..l |-> {0}], 0)
    BY <1>0
  <2> QED
    BY <2>1
<1>2. ASSUME NEW k \in Nat, k \in Made PROVE k + 1 \in Made
  <2>1. PICK g : Agrees(g, k)
    BY <1>2
  <2> DEFINE f == F(g)
  <2>2. ASSUME NEW i \in 0..l, i <= k + 1 PROVE f[i] = F(f)[i]
    <3>1. CASE i = 0
      BY <3>1
    <3>2. CASE i # 0
      <4>1. i - 1 \in 0..l /\ i - 1 <= k
        BY <1>0, <2>2, <3>2
      <4>2. f[i - 1] = g[i - 1]
        BY <2>1, <4>1
      <4>3. f[i] = UNION {After(pattern[i], key, h) : h \in g[i - 1]}
        BY <3>2
      <4>4. F(f)[i] = UNION {After(pattern[i], key, h) : h \in f[i - 1]}
        BY <3>2
      <4> QED
        BY <4>2, <4>3, <4>4
    <3> QED
      BY <3>1, <3>2
  <2> HIDE DEF F
  <2>3. Agrees(f, k + 1)
    BY <2>2
  <2> QED
    BY <2>3
<1> HIDE DEF Made
<1>3. l \in Made
  BY <1>0, <1>1, <1>2, Induction
<1>4. PICK g : Agrees(g, l)
  BY <1>3 DEF Made
<1>5. F(g) = F(F(g))
  <2> DEFINE f == F(g)
  <2>1. \A i \in 0..l : f[i] = g[i]
    <3> HIDE DEF F
    <3>1. \A i \in 0..l : i <= l
      BY <1>0
    <3> QED
      BY <1>4, <3>1
  <2> HIDE DEF f
  <2>2. ASSUME NEW i \in 0..l, i # 0 PROVE i - 1 \in 0..l /\ f[i - 1] = g[i - 1]
    <3>1. i - 1 \in 0..l
      BY <1>0, <2>2
    <3> QED
      BY <2>1, <3>1
  <2> HIDE DEF f
  <2>3. F(f) = F(g)
    BY <2>2
  <2> QED
    BY <2>3 DEF f
<1> DEFINE ends == CHOOSE f : f = F(f)
<1>6. ends = F(ends)
  BY <1>5
<1>7. Matches(pattern, key) <=> Len(key) \in ends[l]
  BY DEF Matches, l
<1> HIDE DEF ends
<1>8. ends[0] = {0} /\ \A i \in 1..l : ends[i] = UNION {After(pattern[i], key, h) : h \in ends[i - 1]}
  <2>1. F(ends)[0] = {0}
    BY <1>0
  <2>2. ASSUME NEW i \in 1..l
        PROVE  F(ends)[i] = UNION {After(pattern[i], key, h) : h \in ends[i - 1]}
    <3>1. i \in 0..l /\ i # 0
      BY <1>0
    <3> QED
      BY <3>1
  <2> HIDE DEF F
  <2> QED
    BY <1>6, <2>1, <2>2
<1> DEFINE at(i) == Place(i, c, d)
           Reached == {k \in Nat : k <= n => at(k) \in ends[k]}
<1>9. n <= l
  BY DEF l
<1>10. 0 \in Reached
  BY <1>8 DEF Place
<1>11. ASSUME NEW k \in Nat, k \in Reached PROVE k + 1 \in Reached
  <2> SUFFICES ASSUME k + 1 <= n PROVE at(k + 1) \in ends[k + 1]
    OBVIOUS
  <2>1. at(k) \in ends[k] /\ k + 1 \in 1..l /\ k + 1 \in 1..n
    BY <1>0, <1>9, <1>11
  <2>2. ends[k + 1] = UNION {After(pattern[k + 1], key, h) : h \in ends[k]}
    BY <1>8, <2>1
  <2>3. at(k + 1) \in After(pattern[k + 1], key, at(k))
    <3>1. pattern[k + 1] = key[at(k + 1)] \/ pattern[k + 1] \in {Star, Rest}
      BY <2>1
    <3>2. at(k) \in Nat /\ at(k + 1) \in Nat /\ at(k) + 1 <= at(k + 1) /\ at(k + 1) <= Len(key)
      BY DEF Place
    <3>3. at(k + 1) = at(k) + 1 \/ pattern[k + 1] = Star
      BY DEF Place
    <3> QED
      BY <3>1, <3>2, <3>3, AfterNext
  <2> QED
    BY <2>1, <2>2, <2>3
<1> HIDE DEF Reached
<1>12. n \in Reached
  BY <1>10, <1>11, Induction
<1>13. at(n) \in ends[n]
  BY <1>12 DEF Reached
<1>14. CASE n + 1 = l /\ pattern[n + 1] = Rest
  <2>0. n + 1 \in 1..l /\ (n + 1) - 1 = n
    BY <1>0, <1>14
  <2>1. ends[n + 1] = UNION {After(pattern[n + 1], key, h) : h \in ends[n]}
    BY <1>8, <2>0
  <2>2. Len(key) \in After(pattern[n + 1], key, at(n))
    BY <1>14 DEF After, Place
  <2> QED
    BY <1>7, <1>13, <1>14, <2>1, <2>2
<1> QED
  BY <1>7, <1>13, <1>14 DEF l

LEMMA WholeMatches ==
  ASSUME NEW pattern, NEW key, Len(pattern) \in Nat, Len(key) = Len(pattern),
         \A i \in 1..Len(pattern) : pattern[i] = key[i] \/ pattern[i] \in {Star, Rest}
  PROVE  Matches(pattern, key)
<1> DEFINE n == Len(pattern)
<1>1. n \in Nat /\ n <= Len(key) /\ n = Len(key)
  OBVIOUS
<1>2. \A i \in Nat : Place(i, 1, 0) = i
  BY DEF Place
<1>3. \A i \in 1..n : pattern[i] = key[Place(i, 1, 0)] \/ pattern[i] \in {Star, Rest}
  BY <1>1, <1>2
<1>4. Place(n, 1, 0) = Len(key) /\ Place(n, 1, 0) <= Len(key) /\ n = Len(pattern)
  BY <1>1, <1>2
<1> HIDE DEF n
<1> QED
  BY <1>1, <1>3, <1>4, StretchedMatch DEF Fits

LEMMA PrefixMatches ==
  ASSUME NEW pattern, NEW key, Len(pattern) \in Nat \ {0}, Len(key) \in Nat,
         Len(pattern) - 1 <= Len(key), pattern[Len(pattern)] = Rest,
         \A i \in 1..Len(pattern) - 1 : pattern[i] = key[i] \/ pattern[i] \in {Star, Rest}
  PROVE  Matches(pattern, key)
<1> DEFINE n == Len(pattern) - 1
<1>1. n \in Nat /\ n <= Len(key) /\ n + 1 = Len(pattern) /\ pattern[n + 1] = Rest
  OBVIOUS
<1>2. \A i \in Nat : Place(i, 1, 0) = i
  BY DEF Place
<1>3. \A i \in 1..n : pattern[i] = key[Place(i, 1, 0)] \/ pattern[i] \in {Star, Rest}
  BY <1>1, <1>2
<1>4. Place(n, 1, 0) <= Len(key)
  BY <1>1, <1>2
<1> HIDE DEF n
<1> QED
  BY <1>1, <1>3, <1>4, StretchedMatch DEF Fits

\* No key that has a segment matches the pattern without one.
LEMMA UnmatchedMatchesNone ==
  ASSUME NEW key, Len(key) \in Nat, key # <<>>
  PROVE  ~ Matches(Unmatched, key)
<1> DEFINE F(g) == [i \in 0..0 |-> IF i = 0 THEN {0}
                      ELSE UNION {After(Unmatched[i], key, h) : h \in g[i - 1]}]
           ends == CHOOSE f : f = F(f)
<1>1. F([i \in 0..0 |-> {0}]) = [i \in 0..0 |-> {0}]
  OBVIOUS
<1>2. ends = F(ends)
  BY <1>1
<1>3. Matches(Unmatched, key) <=> Len(key) \in ends[0]
  BY DEF Matches, Unmatched
<1> HIDE DEF ends
<1> QED
  BY <1>2, <1>3

\* What each form of key to delete matches of what is cached.
LEMMA StudentOutingsMatch ==
  ASSUME NEW x \in Students \cup {Star}, NEW u, x \in {u, Star}, NEW p
  PROVE  Matches(Pattern(<<"students", x, "outings">>),
                 <<"students", u, "outings", "start", p, "count", p>>)
<1> DEFINE s == <<"students", x, "outings">>
           key == <<"students", u, "outings", "start", p, "count", p>>
           pattern == Paged(s)
<1>1. Pattern(s) = pattern
  <2>1. Len(s) = 3 /\ s[1] = "students" /\ s[3] = "outings" /\ s[2] \in Students \cup {Star}
    OBVIOUS
  <2> HIDE DEF s
  <2> QED
    BY <2>1 DEF Pattern
<1>2. Len(pattern) = 7 /\ Len(key) = 7
      /\ \A i \in 1..7 : pattern[i] = key[i] \/ pattern[i] \in {Star, Rest}
  BY DEF Paged
<1> HIDE DEF pattern, key
<1>3. Matches(pattern, key)
  BY <1>2, WholeMatches
<1> QED
  BY <1>1, <1>3 DEF key

LEMMA OutingMatches ==
  ASSUME NEW o \in Outings
  PROVE  /\ Matches(Pattern(<<"outings", o>>), <<"outings", o>>)
         /\ Matches(Pattern(<<"outings", o, "card">>), <<"outings", o, "card">>)
<1>1. Pattern(<<"outings", o>>) = <<"outings", o>>
  BY DataAssumption DEF Pattern
<1>2. Pattern(<<"outings", o, "card">>) = <<"outings", o, "card">>
  BY DEF Pattern
<1>3. Matches(<<"outings", o>>, <<"outings", o>>)
  BY WholeMatches
<1>4. Matches(<<"outings", o, "card">>, <<"outings", o, "card">>)
  BY WholeMatches
<1> QED
  BY <1>1, <1>2, <1>3, <1>4

LEMMA FilterMatches ==
  ASSUME NEW t \in Texts, NEW p
  PROVE  Matches(Pattern(<<"outings", "filter">>), FilterKey(t, p))
<1> DEFINE s == <<"outings", "filter">>
           key == FilterKey(t, p)
           d == Len(t) - 1
           pattern == Paged(s) \o <<"status", Star, "grade", Star, "group", Star, "floor", Star,
                                    "start_time", Star, "end_time", Star>>
<1>1. Pattern(s) = pattern
  BY DataAssumption DEF Pattern
<1>2. /\ Len(pattern) = 18 /\ pattern[8] = Star
      /\ \A i \in 1..7 : pattern[i] = FilterHead(p)[i] \/ pattern[i] = Star
      /\ \A i \in 9..18 : pattern[i] = FilterTail(p)[i - 8] \/ pattern[i] = Star
  <2>1. pattern = <<"outings", "filter", "start", Star, "count", Star, "status", Star,
                    "grade", Star, "group", Star, "floor", Star, "start_time", Star,
                    "end_time", Star>>
    <3> DEFINE whole == <<"outings", "filter", "start", Star, "count", Star, "status", Star,
                          "grade", Star, "group", Star, "floor", Star, "start_time", Star,
                          "end_time", Star>>
               S == {"outings", "filter", "start", "count", "status", "grade", "group", "floor",
                     "start_time", "end_time", "*"}
    <3>1. Len(pattern) = 18 /\ Len(whole) = 18 /\ \A i \in 1..18 : pattern[i] = whole[i]
      BY DEF Paged
    <3>2. pattern \in Seq(S) /\ whole \in Seq(S)
      BY DEF Paged, Star
    <3> HIDE DEF pattern, whole, S
    <3>3. pattern = whole
      BY <3>1, <3>2, SeqEqual
    <3> QED
      BY <3>3 DEF whole
  <2> HIDE DEF pattern
  <2> QED
    BY <2>1 DEF FilterHead, FilterTail
<1>3. FilterShape(key, t, p)
  BY FilterKeyShape
<1> HIDE DEF pattern, key
<1>4. /\ Len(t) \in Nat \ {0} /\ Len(key) = 17 + Len(t)
      /\ \A i \in 1..7 : key[i] = FilterHead(p)[i]
      /\ \A i \in 1..10 : key[7 + Len(t) + i] = FilterTail(p)[i]
  BY <1>3 DEF FilterShape
<1>5. d \in Nat /\ Place(18, 8, d) = Len(key) /\ Place(18, 8, d) <= Len(key)
  BY <1>4 DEF Place
<1>6. ASSUME NEW i \in 1..18
      PROVE  pattern[i] = key[Place(i, 8, d)] \/ pattern[i] \in {Star, Rest}
  <2>1. CASE i \in 1..7
    <3>1. Place(i, 8, d) = i
      BY <2>1 DEF Place
    <3> QED
      BY <1>2, <1>4, <2>1, <3>1
  <2>2. CASE i = 8
    BY <1>2, <2>2
  <2>3. CASE i \in 9..18
    <3>1. Place(i, 8, d) = 7 + Len(t) + (i - 8) /\ i - 8 \in 1..10
      BY <1>4, <2>3 DEF Place
    <3>2. key[Place(i, 8, d)] = FilterTail(p)[i - 8]
      BY <1>4, <3>1
    <3> QED
      BY <1>2, <2>3, <3>2
  <2> QED
    BY <2>1, <2>2, <2>3
<1>7. Matches(pattern, key)
  <2> HIDE DEF d
  <2>1. 18 = Len(pattern) /\ Len(pattern) \in Nat /\ Len(key) \in Nat
        /\ 8 \in Nat /\ 8 # 0 /\ 18 \in Nat
    BY <1>2, <1>4
  <2>2. \A i \in 1..18 : pattern[i] = key[Place(i, 8, d)] \/ pattern[i] \in {Star, Rest}
    BY <1>6
  <2>3. Fits(pattern, key, 8, d, 18)
    BY <1>2, <1>5, <2>1, <2>2 DEF Fits
  <2> QED
    BY <2>3, StretchedMatch
<1> QED
  BY <1>1, <1>7 DEF key

LEMMA SchedulesMatch ==
  ASSUME NEW p
  PROVE  Matches(Pattern(<<"schedules">>), <<"schedules", "years", p, "months", p>>)
<1>1. Pattern(<<"schedules">>) = <<"schedules", Rest>>
  BY DEF Pattern
<1>2. Matches(<<"schedules", Rest>>, <<"schedules", "years", p, "months", p>>)
  <2> DEFINE key == <<"schedules", "years", p, "months", p>>
             pattern == <<"schedules", Rest>>
  <2>1. Len(key) = 5 /\ Len(pattern) = 2 /\ pattern[2] = Rest /\ pattern[1] = key[1]
    OBVIOUS
  <2> HIDE DEF key, pattern
  <2>2. \A i \in 1..1 : pattern[i] = key[i] \/ pattern[i] \in {Star, Rest}
    BY <2>1
  <2>3. /\ Len(pattern) \in Nat \ {0} /\ Len(key) \in Nat /\ Len(pattern) - 1 <= Len(key)
        /\ Len(pattern) - 1 = 1 /\ pattern[Len(pattern)] = Rest
    BY <2>1
  <2>4. Matches(pattern, key)
    BY <2>2, <2>3, PrefixMatches
  <2> QED
    BY <2>4 DEF key, pattern
<1> QED
  BY <1>1, <1>2

\* The key of a list of announcements, or of a search in one.
InList(k, u, type) ==
  /\ Len(k) \in Nat /\ Len(k) > 5
  /\ k[1] = "announcements" /\ k[2] = "uuid" /\ k[3] = u /\ k[4] = "types" /\ k[5] = type

LEMMA ListsAreLists ==
  ASSUME NEW s \in Menu, Plain(s), s.op \in Lists, SetKey(s) # Blank
  PROVE  InList(SetKey(s), s.user, s.type[1])
<1>1. SetKey(s) = PlainKey(s)
  BY KeyIsPlain
<1>2. CASE s.op = "GetAnnouncements"
  BY <1>1, <1>2 DEF PlainKey, InList
<1>3. CASE s.op = "SearchAnnouncements"
  <2> DEFINE k == SetKey(s)
  <2>1. SearchShape(k, s.user, s.type[1], s.text, s.page)
    BY <1>1, <1>3, MenuTexts, SearchKeyShape DEF PlainKey
  <2> HIDE DEF k
  <2>2. Len(s.text) \in Nat \ {0} /\ Len(k) = 10 + Len(s.text)
        /\ \A i \in 1..6 : k[i] = SearchHead(s.user, s.type[1])[i]
    BY <2>1 DEF SearchShape
  <2>3. InList(k, s.user, s.type[1])
    BY <2>2 DEF SearchHead, InList
  <2> QED
    BY <2>3 DEF k
<1> QED
  BY <1>2, <1>3 DEF Lists

LEMMA AnnouncementsMatch ==
  ASSUME NEW x, NEW u, x \in {u, Star}, NEW t \in Types \cup {Star}, NEW type, t \in {type, Star},
         NEW k, InList(k, u, type)
  PROVE  Matches(Pattern(<<"announcements", "uuid", x, "types", t>>), k)
<1> DEFINE s == <<"announcements", "uuid", x, "types", t>>
           pattern == Append(s, Rest)
<1>1. Pattern(s) = pattern
  BY DEF Pattern
<1>2. Len(k) \in Nat /\ Len(k) >= 5
  BY DEF InList
<1>3. k[1] = "announcements" /\ k[2] = "uuid" /\ k[3] = u /\ k[4] = "types" /\ k[5] = type
  BY DEF InList
<1>4. Len(pattern) = 6 /\ pattern[6] = Rest
      /\ \A i \in 1..5 : pattern[i] = k[i] \/ pattern[i] \in {Star, Rest}
  BY <1>3
<1> HIDE DEF pattern
<1>5. Len(pattern) \in Nat \ {0} /\ Len(pattern) - 1 <= Len(k) /\ pattern[Len(pattern)] = Rest
  BY <1>2, <1>4
<1>6. \A i \in 1..Len(pattern) - 1 : pattern[i] = k[i] \/ pattern[i] \in {Star, Rest}
  BY <1>4
<1>7. Matches(pattern, k)
  BY <1>2, <1>5, <1>6, PrefixMatches
<1> QED
  BY <1>1, <1>7

LEMMA AnnouncementMatches ==
  ASSUME NEW a \in Announcements
  PROVE  Matches(Pattern(<<"announcements", a>>), <<"announcements", a>>)
<1>1. Pattern(<<"announcements", a>>) = <<"announcements", a>>
  BY DEF Pattern
<1> QED
  BY <1>1, WholeMatches

LEMMA CheckMatches ==
  ASSUME NEW x, NEW u, x \in {u, Star}
  PROVE  Matches(Pattern(<<"students", x, "announcement-check">>),
                 <<"students", u, "announcement-check">>)
<1>1. Pattern(<<"students", x, "announcement-check">>) = <<"students", x, "announcement-check">>
  BY DEF Pattern
<1>2. Matches(<<"students", x, "announcement-check">>, <<"students", u, "announcement-check">>)
  BY WholeMatches
<1> QED
  BY <1>1, <1>2

LEMMA WritersMatch ==
  ASSUME NEW u, NEW p
  PROVE  Matches(Pattern(<<"writers", u, "announcements">>),
                 <<"writers", u, "announcements", "start", p, "count", p>>)
<1> DEFINE s == <<"writers", u, "announcements">>
           key == <<"writers", u, "announcements", "start", p, "count", p>>
           pattern == Paged(s)
<1>1. Pattern(s) = pattern
  BY DEF Pattern
<1>2. Len(pattern) = 7 /\ Len(key) = 7
      /\ \A i \in 1..7 : pattern[i] = key[i] \/ pattern[i] \in {Star, Rest}
  BY DEF Paged
<1> HIDE DEF pattern, key
<1>3. Matches(pattern, key)
  BY <1>2, WholeMatches
<1> QED
  BY <1>1, <1>3 DEF key

-----------------------------------------------------------------------------
(* What a change deletes.                                                   *)

\* The values a side key has.
SideValues(side) ==
  {OwnerOf[o] : o \in {x \in Outings : OwnerKey(<<x>>) = side}}
    \cup {TypeOf[a] : a \in {x \in Announcements : TypeKey(<<x>>) = side}}

\* The patterns a key to delete may be turned into.
Patterns(d) ==
  IF d.side = NoKey THEN {Pattern(d.segs)}
  ELSE {Pattern(Resolve(d.segs, v)) : v \in SideValues(d.side) \cup {Star}}

Sides == {OwnerKey(<<o>>) : o \in Outings} \cup {TypeKey(<<a>>) : a \in Announcements}

LEMMA SideKeyOfOne ==
  ASSUME NEW x
  PROVE  OwnerKey(<<x>>) = <<"outings", x, "student_uuid">>
         /\ TypeKey(<<x>>) = <<"announcements", x, "type">>
<1>1. /\ <<"outings">> \o <<x>> \o <<"student_uuid">> = <<"outings", x, "student_uuid">>
      /\ <<"announcements">> \o <<x>> \o <<"type">> = <<"announcements", x, "type">>
  BY OneJoined
<1> QED
  BY <1>1, Zenon DEF OwnerKey, TypeKey

LEMMA SideValuesOfOne ==
  /\ \A o \in Outings : SideValues(OwnerKey(<<o>>)) = {OwnerOf[o]} /\ OwnerKey(<<o>>) # NoKey
                        /\ OwnerOf[o] \in Students
  /\ \A a \in Announcements : SideValues(TypeKey(<<a>>)) = {TypeOf[a]} /\ TypeKey(<<a>>) # NoKey
                              /\ TypeOf[a] \in Types
<1>1. ASSUME NEW x, NEW y
      PROVE  /\ OwnerKey(<<x>>) = OwnerKey(<<y>>) => x = y
             /\ TypeKey(<<x>>) = TypeKey(<<y>>) => x = y
             /\ OwnerKey(<<x>>) # TypeKey(<<y>>)
  <2>1. /\ OwnerKey(<<x>>) = <<"outings", x, "student_uuid">>
        /\ OwnerKey(<<y>>) = <<"outings", y, "student_uuid">>
        /\ TypeKey(<<x>>) = <<"announcements", x, "type">>
        /\ TypeKey(<<y>>) = <<"announcements", y, "type">>
    BY SideKeyOfOne
  <2>2. /\ <<"outings", x, "student_uuid">> = <<"outings", y, "student_uuid">> => x = y
        /\ <<"announcements", x, "type">> = <<"announcements", y, "type">> => x = y
        /\ <<"outings", x, "student_uuid">> # <<"announcements", y, "type">>
    OBVIOUS
  <2> QED
    BY <2>1, <2>2
<1>2. ASSUME NEW o \in Outings
      PROVE  SideValues(OwnerKey(<<o>>)) = {OwnerOf[o]} /\ OwnerKey(<<o>>) # NoKey
             /\ OwnerOf[o] \in Students
  <2>1. OwnerKey(<<o>>) # NoKey
    BY DataAssumption, Zenon
  <2>2. OwnerOf[o] \in Students
    BY DataAssumption
  <2>3. {x \in Outings : OwnerKey(<<x>>) = OwnerKey(<<o>>)} = {o}
    BY <1>1
  <2>4. {x \in Announcements : TypeKey(<<x>>) = OwnerKey(<<o>>)} = {}
    BY <1>1
  <2> QED
    BY <2>1, <2>2, <2>3, <2>4 DEF SideValues
<1>3. ASSUME NEW a \in Announcements
      PROVE  SideValues(TypeKey(<<a>>)) = {TypeOf[a]} /\ TypeKey(<<a>>) # NoKey
             /\ TypeOf[a] \in Types
  <2>1. TypeKey(<<a>>) # NoKey
    BY DataAssumption, Zenon
  <2>2. TypeOf[a] \in Types
    BY DataAssumption
  <2>3. {x \in Outings : OwnerKey(<<x>>) = TypeKey(<<a>>)} = {}
    BY <1>1
  <2>4. {x \in Announcements : TypeKey(<<x>>) = TypeKey(<<a>>)} = {a}
    BY <1>1
  <2> QED
    BY <2>1, <2>2, <2>3, <2>4 DEF SideValues
<1> QED
  BY <1>2, <1>3

\* Deleting d removes k, whatever the side key gives.
Reaches(d, k) ==
  /\ d.side \in Sides \cup {NoKey}
  /\ \A pattern \in Patterns(d) : Matches(pattern, k)

\* One of the keys to delete does.
AnyReaches(ds, k) == \E i \in DOMAIN ds : Reaches(ds[i], k)

LEMMA AnyOf ==
  /\ \A k, a : Reaches(a, k) => AnyReaches(<<a>>, k)
  /\ \A k, a, b : Reaches(a, k) \/ Reaches(b, k) => AnyReaches(<<a, b>>, k)
  /\ \A k, a, b, c :
       Reaches(a, k) \/ Reaches(b, k) \/ Reaches(c, k) => AnyReaches(<<a, b, c>>, k)
  /\ \A k, a, b, c, d :
       Reaches(a, k) \/ Reaches(b, k) \/ Reaches(c, k) \/ Reaches(d, k) =>
         AnyReaches(<<a, b, c, d>>, k)
<1>1. \A k, a : Reaches(a, k) => AnyReaches(<<a>>, k)
  BY DEF AnyReaches
<1>2. \A k, a, b : Reaches(a, k) \/ Reaches(b, k) => AnyReaches(<<a, b>>, k)
  BY DEF AnyReaches
<1>3. \A k, a, b, c :
        Reaches(a, k) \/ Reaches(b, k) \/ Reaches(c, k) => AnyReaches(<<a, b, c>>, k)
  BY DEF AnyReaches
<1>4. \A k, a, b, c, d :
        Reaches(a, k) \/ Reaches(b, k) \/ Reaches(c, k) \/ Reaches(d, k) =>
          AnyReaches(<<a, b, c, d>>, k)
  BY DEF AnyReaches
<1> QED
  BY <1>1, <1>2, <1>3, <1>4

LEMMA LitReaches ==
  ASSUME NEW segs, NEW k, Matches(Pattern(segs), k)
  PROVE  Reaches(Lit(segs), k)
BY DEF Reaches, Patterns, Lit, Sides

LEMMA HoleIsNoName ==
  /\ Hole # "students" /\ Hole # "outings"
  /\ Hole # "announcements" /\ Hole # "uuid" /\ Hole # "types" /\ Hole # Star
BY Zenon DEF Hole, Star

\* The owner's outings, whatever the side key of the outing gives.
LEMMA OwnersOutingsReached ==
  ASSUME NEW o \in Outings, NEW p
  PROVE  Reaches(With(<<"students", Hole, "outings">>, OwnerKey(<<o>>)),
                 <<"students", OwnerOf[o], "outings", "start", p, "count", p>>)
<1> DEFINE segs == <<"students", Hole, "outings">>
           k == <<"students", OwnerOf[o], "outings", "start", p, "count", p>>
           side == OwnerKey(<<o>>)
<1>1. SideValues(side) = {OwnerOf[o]} /\ side # NoKey /\ OwnerOf[o] \in Students
      /\ side \in Sides
  BY SideValuesOfOne DEF Sides
<1>2. \A v : Resolve(segs, v) = <<"students", v, "outings">>
  BY HoleIsNoName DEF Resolve
<1> HIDE DEF segs, side
<1>3. \A v \in {OwnerOf[o], Star} : Matches(Pattern(<<"students", v, "outings">>), k)
  BY <1>1, StudentOutingsMatch
<1> HIDE DEF k
<1>4. \A v \in {OwnerOf[o], Star} : Matches(Pattern(Resolve(segs, v)), k)
  BY <1>2, <1>3
<1>5. Reaches(With(segs, side), k)
  BY <1>1, <1>4 DEF Reaches, Patterns, With
<1> QED
  BY <1>5 DEF segs, k, side

\* The lists of announcements of a type, whatever the side key of one gives.
LEMMA TypesListsReached ==
  ASSUME NEW a \in Announcements, NEW x, x # Hole, NEW u, x \in {u, Star}, NEW k,
         InList(k, u, TypeOf[a])
  PROVE  Reaches(With(<<"announcements", "uuid", x, "types", Hole>>, TypeKey(<<a>>)), k)
<1> DEFINE segs == <<"announcements", "uuid", x, "types", Hole>>
           side == TypeKey(<<a>>)
<1>1. SideValues(side) = {TypeOf[a]} /\ side # NoKey /\ TypeOf[a] \in Types /\ side \in Sides
  BY SideValuesOfOne DEF Sides
<1>2. \A v : Resolve(segs, v) = <<"announcements", "uuid", x, "types", v>>
  BY HoleIsNoName DEF Resolve
<1> HIDE DEF segs, side
<1>3. \A v \in {TypeOf[a], Star} :
        Matches(Pattern(<<"announcements", "uuid", x, "types", v>>), k)
  BY <1>1, AnnouncementsMatch
<1>4. \A v \in {TypeOf[a], Star} : Matches(Pattern(Resolve(segs, v)), k)
  BY <1>2, <1>3
<1>5. Reaches(With(segs, side), k)
  BY <1>1, <1>4 DEF Reaches, Patterns, With
<1> QED
  BY <1>5 DEF segs, side

\* The key of a read a service accepts.
LEMMA KeyOfAccepted ==
  ASSUME NEW s \in Accepted, SetKey(s) # Blank
  PROVE  /\ SetKey(s) = PlainKey(s) /\ IsRead(s)
         /\ s.op = "GetOutingWithFilter" => SetKey(s) = FilterKey(s.text, s.page)
         /\ s.op \in {"GetStudentOutings", "CheckAnnouncement", "GetMyAnnouncements"} =>
              s.id = <<s.user>>
         /\ s.op \in Lists => InList(SetKey(s), s.user, s.type[1])
         /\ s.op \in {"GetOutingInform", "GetCardAboutOuting"} =>
              s.id = <<s.id[1]>> /\ s.id[1] \in Outings
         /\ s.op = "GetAnnouncementDetail" => s.id = <<s.id[1]>> /\ s.id[1] \in Announcements
<1>1. s \in Menu /\ Accepts(s) /\ Plain(s)
  BY AcceptedIsPlain DEF Accepted
<1>2. /\ SetKey(s) = PlainKey(s) /\ IsRead(s)
      /\ s.op \in {"GetStudentOutings", "CheckAnnouncement", "GetMyAnnouncements"} =>
           s.id = <<s.user>>
  BY <1>1, KeyIsPlain
<1>3. s.op = "GetOutingWithFilter" => SetKey(s) = FilterKey(s.text, s.page)
  BY <1>2 DEF PlainKey
<1>4. s.op \in Lists => InList(SetKey(s), s.user, s.type[1])
  BY <1>1, ListsAreLists
<1>5. ASSUME s.op \in {"GetOutingInform", "GetCardAboutOuting"}
      PROVE  s.id = <<s.id[1]>> /\ s.id[1] \in Outings
  BY <1>1, <1>5 DEF Accepts
<1>6. ASSUME s.op = "GetAnnouncementDetail"
      PROVE  s.id = <<s.id[1]>> /\ s.id[1] \in Announcements
  BY <1>1, <1>6 DEF Accepts
<1> QED
  BY <1>2, <1>3, <1>4, <1>5, <1>6

\* A change a service accepts reaches, by one of the keys it deletes, everything
\* cached of what it changes, but the neglected keys.
LEMMA ChangeIsReached ==
  ASSUME NEW q \in Accepted, NEW s \in Accepted, Changes(q, s), SetKey(s) # Blank,
         ~ Neglected(q, SetKey(s))
  PROVE  AnyReaches(DelKeys(q), SetKey(s))
<1> DEFINE k == SetKey(s)
<1>0. q \in Menu /\ Accepts(q)
  BY DEF Accepted
<1>1. k = PlainKey(s) /\ (s.op = "GetOutingWithFilter" => k = FilterKey(s.text, s.page))
      /\ s.text \in Texts
  BY KeyOfAccepted, MenuTexts DEF Accepted
<1>2. s.op = "GetStudentOutings" =>
        s.id = <<s.user>> /\ k = <<"students", s.user, "outings", "start", s.page, "count", s.page>>
  BY <1>1, KeyOfAccepted DEF PlainKey
<1>3. s.op = "GetOutingInform" => s.id = <<s.id[1]>> /\ k = <<"outings", s.id[1]>>
  BY <1>1, KeyOfAccepted DEF PlainKey
<1>4. s.op = "GetCardAboutOuting" => s.id = <<s.id[1]>> /\ k = <<"outings", s.id[1], "card">>
  BY <1>1, KeyOfAccepted DEF PlainKey
<1>5. s.op = "GetSchedule" => k = <<"schedules", "years", s.page, "months", s.page>>
  BY <1>1 DEF PlainKey
<1>6. s.op \in Lists => InList(k, s.user, s.type[1])
  BY KeyOfAccepted
<1>8. s.op = "GetAnnouncementDetail" =>
        s.id = <<s.id[1]>> /\ s.id[1] \in Announcements /\ k = <<"announcements", s.id[1]>>
  BY <1>1, KeyOfAccepted DEF PlainKey
<1>9. s.op = "CheckAnnouncement" =>
        s.id = <<s.user>> /\ k = <<"students", s.user, "announcement-check">>
  BY <1>1, KeyOfAccepted DEF PlainKey
<1>10. s.op = "GetMyAnnouncements" =>
         s.id = <<s.user>>
         /\ k = <<"writers", s.user, "announcements", "start", s.page, "count", s.page>>
  BY <1>1, KeyOfAccepted DEF PlainKey
<1>a. ASSUME s.op = "GetOutingWithFilter"
      PROVE  Reaches(Lit(<<"outings", "filter">>), k)
  BY <1>1, <1>a, LitReaches, FilterMatches
<1> SUFFICES AnyReaches(DelKeys(q), k)
  OBVIOUS
<1>b. ~ Neglected(q, k)
  OBVIOUS
<1> HIDE DEF k
<1>11. CASE q.op = "CreateOuting"
  <2>1. DelKeys(q) = << Lit(<<"students", q.user, "outings">>), Lit(<<"outings", "filter">>) >>
    BY <1>11 DEF DelKeys
  <2>2. (s.op = "GetStudentOutings" /\ s.id = <<q.user>>) \/ s.op = "GetOutingWithFilter"
    BY <1>11 DEF Changes
  <2>3. CASE s.op = "GetStudentOutings" /\ s.id = <<q.user>>
    <3>1. q.user \in Students /\ s.user = q.user
      BY <1>0, <1>2, <1>11, <2>3 DEF Accepts
    <3>2. Reaches(Lit(<<"students", q.user, "outings">>), k)
      BY <1>2, <2>3, <3>1, LitReaches, StudentOutingsMatch
    <3> QED
      BY <2>1, <3>2, AnyOf
  <2>4. CASE s.op = "GetOutingWithFilter"
    BY <1>a, <2>1, <2>4, AnyOf
  <2> QED
    BY <2>2, <2>3, <2>4
<1>12. CASE q.op \in {"TakeActionInOuting", "TakeActionByCode", "ModifyOuting"}
  <2> DEFINE o == OutingOf(q)
  <2>1. /\ o \in Outings
        /\ q.op = "TakeActionByCode" => q.text = <<o>>
        /\ q.op # "TakeActionByCode" => q.id = <<o>>
        /\ q.op = "ModifyOuting" => q.user = OwnerOf[o]
    BY <1>0, <1>12 DEF Accepts, OutingOf
  <2>2. \/ s.op = "GetOutingInform" /\ s.id = <<o>>
        \/ s.op = "GetCardAboutOuting" /\ s.id = <<o>>
        \/ s.op = "GetStudentOutings" /\ s.id = <<OwnerOf[o]>>
        \/ s.op = "GetOutingWithFilter"
    BY <1>12 DEF Changes
  <2> HIDE DEF o
  <2> DEFINE own == IF q.op = "ModifyOuting" THEN Lit(<<"students", q.user, "outings">>)
                    ELSE With(<<"students", Hole, "outings">>, OwnerKey(q.id))
             inform == Lit(<<"outings">> \o q.id)
             card   == Lit(<<"outings">> \o q.id \o <<"card">>)
  <2>3. DelKeys(q) = << inform, card, own, Lit(<<"outings", "filter">>) >>
    BY <1>12 DEF DelKeys
  <2>4. CASE s.op = "GetOutingWithFilter"
    <3> HIDE DEF own, inform, card
    <3> QED
      BY <1>a, <2>3, <2>4, AnyOf
  <2>5. CASE s.op # "GetOutingWithFilter"
    <3>1. ~ (k[1] = "outings" /\ Len(k) > 3)
      <4>1. CASE s.op = "GetOutingInform"
        <5>1. \E x : k = <<"outings", x>>
          BY <1>3, <4>1
        <5> QED
          BY <5>1
      <4>2. CASE s.op = "GetCardAboutOuting"
        <5>1. \E x : k = <<"outings", x, "card">>
          BY <1>4, <4>2
        <5> QED
          BY <5>1
      <4>3. CASE s.op = "GetStudentOutings"
        BY <1>2, <4>3
      <4> QED
        BY <2>2, <2>5, <4>1, <4>2, <4>3
    <3>2. q.id = <<o>>
      BY <1>b, <2>1, <3>1 DEF Neglected
    <3>3. <<"outings">> \o q.id = <<"outings", o>> /\ <<"outings">> \o q.id \o <<"card">> = <<"outings", o, "card">>
      BY <3>2, OneJoined
    <3>4. inform = Lit(<<"outings", o>>) /\ card = Lit(<<"outings", o, "card">>)
      BY <3>3
    <3>5. OwnerKey(q.id) = OwnerKey(<<o>>)
      BY <3>2
    <3> HIDE DEF inform, card
    <3>6. CASE s.op = "GetOutingInform" /\ s.id = <<o>>
      <4>1. k = <<"outings", o>>
        BY <1>3, <3>6
      <4>2. Reaches(inform, k)
        BY <2>1, <3>4, <4>1, LitReaches, OutingMatches
      <4> HIDE DEF own
      <4> QED
        BY <2>3, <4>2, AnyOf
    <3>7. CASE s.op = "GetCardAboutOuting" /\ s.id = <<o>>
      <4>1. k = <<"outings", o, "card">>
        BY <1>4, <3>7
      <4>2. Reaches(card, k)
        BY <2>1, <3>4, <4>1, LitReaches, OutingMatches
      <4> HIDE DEF own
      <4> QED
        BY <2>3, <4>2, AnyOf
    <3>8. CASE s.op = "GetStudentOutings" /\ s.id = <<OwnerOf[o]>>
      <4>1. k = <<"students", OwnerOf[o], "outings", "start", s.page, "count", s.page>>
        BY <1>2, <3>8
      <4>2. Reaches(With(<<"students", Hole, "outings">>, OwnerKey(q.id)), k)
        BY <2>1, <3>5, <4>1, OwnersOutingsReached
      <4>3. q.op = "ModifyOuting" => Reaches(Lit(<<"students", q.user, "outings">>), k)
        <5>1. OwnerOf[o] \in Students
          BY <2>1, DataAssumption
        <5> QED
          BY <2>1, <4>1, <5>1, LitReaches, StudentOutingsMatch
      <4>4. Reaches(own, k)
        BY <4>2, <4>3 DEF own
      <4> HIDE DEF own
      <4> QED
        BY <2>3, <4>4, AnyOf
    <3> QED
      BY <2>2, <2>5, <3>6, <3>7, <3>8
  <2> QED
    BY <2>4, <2>5
<1>13. CASE q.op \in {"CreateSchedule", "UpdateSchedule", "DeleteSchedule"}
  <2>1. DelKeys(q) = << Lit(<<"schedules">>) >>
    BY <1>13 DEF DelKeys
  <2>2. s.op = "GetSchedule"
    BY <1>13 DEF Changes
  <2>3. Reaches(Lit(<<"schedules">>), k)
    BY <1>5, <2>2, LitReaches, SchedulesMatch
  <2> QED
    BY <2>1, <2>3, AnyOf
<1>15. CASE q.op = "CreateAnnouncement"
  <2> DEFINE y == q.type[1]
             lists == <<"announcements", "uuid", Star, "types">> \o q.type
             checks == <<"students", Star, "announcement-check">>
             own == <<"writers", q.user, "announcements">>
  <2>1. DelKeys(q) = << Lit(lists), Lit(checks), Lit(own) >>
    BY <1>15 DEF DelKeys
  <2>2. \/ s.op \in Lists /\ s.type = q.type
        \/ s.op = "CheckAnnouncement"
        \/ s.op = "GetMyAnnouncements" /\ s.id = <<q.user>>
    <3>1. s.op = "GetAnnouncementDetail" => IsAnnouncement(k)
      BY <1>8 DEF IsAnnouncement
    <3> QED
      BY <1>15, <1>b, <3>1 DEF Changes, Neglected
  <2>3. CASE s.op \in Lists /\ s.type = q.type
    <3>1. q.type = <<y>> /\ y \in Types
      BY <1>0, <1>15, AskedOfMenu
    <3> HIDE DEF y
    <3>2. lists = <<"announcements", "uuid", Star, "types", y>>
      BY <3>1, ListJoined DEF ListHead
    <3> HIDE DEF lists
    <3>3. InList(k, s.user, y)
      BY <1>6, <2>3, <3>1
    <3>4. Matches(Pattern(lists), k)
      BY <3>1, <3>2, <3>3, AnnouncementsMatch
    <3>5. Reaches(Lit(lists), k)
      BY <3>4, LitReaches
    <3> QED
      BY <2>1, <3>5, AnyOf
  <2>4. CASE s.op = "CheckAnnouncement"
    <3>1. Reaches(Lit(checks), k)
      BY <1>9, <2>4, LitReaches, CheckMatches
    <3> HIDE DEF lists
    <3> QED
      BY <2>1, <3>1, AnyOf
  <2>5. CASE s.op = "GetMyAnnouncements" /\ s.id = <<q.user>>
    <3>0. s.user = q.user
      BY <1>10, <2>5
    <3>1. Reaches(Lit(own), k)
      BY <1>10, <2>5, <3>0, LitReaches, WritersMatch
    <3> HIDE DEF lists
    <3> QED
      BY <2>1, <3>1, AnyOf
  <2> QED
    BY <2>2, <2>3, <2>4, <2>5
<1>16. CASE q.op \in {"UpdateAnnouncement", "DeleteAnnouncement"}
  <2> DEFINE a == q.id[1]
             lists == With(<<"announcements", "uuid", Star, "types", Hole>>, TypeKey(q.id))
             detail == Lit(<<"announcements">> \o q.id)
             checks == <<"students", Star, "announcement-check">>
             own == <<"writers", q.user, "announcements">>
  <2>1. DelKeys(q) = << lists, detail, Lit(checks), Lit(own) >>
    BY <1>16 DEF DelKeys
  <2>2. q.id = <<a>> /\ a \in Announcements /\ q.user = WriterOf[a]
    BY <1>0, <1>16 DEF Accepts
  <2>3. <<"announcements">> \o q.id = <<"announcements", a>> /\ TypeKey(q.id) = TypeKey(<<a>>)
    <3> HIDE DEF a
    <3> QED
      BY <2>2, OneJoined
  <2>4. \/ s.op \in Lists /\ s.type = <<TypeOf[a]>>
        \/ s.op = "GetAnnouncementDetail" /\ k = <<"announcements", a>>
        \/ s.op = "CheckAnnouncement"
        \/ s.op = "GetMyAnnouncements" /\ s.id = <<q.user>>
    <3>1. s.op = "GetAnnouncementDetail" => IsAnnouncement(k)
      BY <1>8 DEF IsAnnouncement
    <3>2. s.op = "GetAnnouncementDetail" => k = <<"announcements", a>>
      BY <1>16, <1>b, <2>3, <3>1 DEF Neglected
    <3> QED
      BY <1>16, <2>2, <3>2 DEF Changes
  <2>5. lists = With(<<"announcements", "uuid", Star, "types", Hole>>, TypeKey(<<a>>))
        /\ detail = Lit(<<"announcements", a>>)
    BY <2>3
  <2> HIDE DEF lists, detail, a
  <2>6. CASE s.op \in Lists /\ s.type = <<TypeOf[a]>>
    <3>0. InList(k, s.user, TypeOf[a])
      BY <1>6, <2>6
    <3>1. Reaches(lists, k)
      BY <2>2, <2>5, <3>0, HoleIsNoName, TypesListsReached
    <3> QED
      BY <2>1, <3>1, AnyOf
  <2>7. CASE s.op = "GetAnnouncementDetail" /\ k = <<"announcements", a>>
    <3>1. Reaches(detail, k)
      BY <2>2, <2>5, <2>7, LitReaches, AnnouncementMatches
    <3> QED
      BY <2>1, <3>1, AnyOf
  <2>8. CASE s.op = "CheckAnnouncement"
    <3>1. Reaches(Lit(checks), k)
      BY <1>9, <2>8, LitReaches, CheckMatches
    <3> QED
      BY <2>1, <3>1, AnyOf
  <2>9. CASE s.op = "GetMyAnnouncements" /\ s.id = <<q.user>>
    <3>0. s.user = q.user
      BY <1>10, <2>9
    <3>1. Reaches(Lit(own), k)
      BY <1>10, <2>9, <3>0, LitReaches, WritersMatch
    <3> QED
      BY <2>1, <3>1, AnyOf
  <2> QED
    BY <2>4, <2>6, <2>7, <2>8, <2>9
<1>17. CASE q.op = "GetAnnouncementDetail"
  <2> DEFINE a == q.id[1]
             lists == With(<<"announcements", "uuid", q.user, "types", Hole>>, TypeKey(q.id))
             check == <<"students", q.user, "announcement-check">>
             own == <<"writers", q.user, "announcements">>
  <2>1. DelKeys(q) = << Lit(check), lists, Lit(own) >>
    BY <1>17 DEF DelKeys
  <2>2. q.id = <<a>> /\ a \in Announcements /\ q.user # Hole
    BY <1>0, <1>17, AskedOfMenu DEF Accepts
  <2>3. lists = With(<<"announcements", "uuid", q.user, "types", Hole>>, TypeKey(<<a>>))
    BY <2>2
  <2>4. /\ k[1] = "writers" => k[2] = q.user
        /\ Len(k) > 5 /\ k[1] = "announcements" => k[3] = q.user
    BY <1>17, <1>b DEF Neglected
  <2>5. \/ s.op \in Lists /\ s.type = <<TypeOf[a]>>
        \/ s.op = "CheckAnnouncement" /\ s.id = <<q.user>>
        \/ s.op = "GetMyAnnouncements"
    BY <1>17 DEF Changes
  <2> HIDE DEF lists, a
  <2>6. CASE s.op \in Lists /\ s.type = <<TypeOf[a]>>
    <3>0. InList(k, s.user, TypeOf[a])
      BY <1>6, <2>6
    <3>1. s.user = q.user
      BY <2>4, <3>0 DEF InList
    <3>2. Reaches(lists, k)
      BY <2>2, <2>3, <3>0, <3>1, TypesListsReached
    <3> QED
      BY <2>1, <3>2, AnyOf
  <2>7. CASE s.op = "CheckAnnouncement" /\ s.id = <<q.user>>
    <3>0. s.user = q.user
      BY <1>9, <2>7
    <3>1. Reaches(Lit(check), k)
      BY <1>9, <2>7, <3>0, LitReaches, CheckMatches
    <3> QED
      BY <2>1, <3>1, AnyOf
  <2>8. CASE s.op = "GetMyAnnouncements"
    <3>0. s.user = q.user
      BY <1>10, <2>4, <2>8
    <3>1. Reaches(Lit(own), k)
      BY <1>10, <2>8, <3>0, LitReaches, WritersMatch
    <3> QED
      BY <2>1, <3>1, AnyOf
  <2> QED
    BY <2>5, <2>6, <2>7, <2>8
<1>18. q.op \in {"CreateOuting", "TakeActionInOuting", "TakeActionByCode", "ModifyOuting",
                 "CreateSchedule", "UpdateSchedule", "DeleteSchedule", "CreateAnnouncement",
                 "UpdateAnnouncement", "DeleteAnnouncement", "GetAnnouncementDetail"}
  BY DEF Changes
<1> QED
  BY <1>11, <1>12, <1>13, <1>15, <1>16, <1>17, <1>18

-----------------------------------------------------------------------------
(* The deletions under way.                                                 *)

\* The message m of the delete topic is going to remove k.
Catches(m, k) ==
  \/ m.pc = "resolve" /\ m.key.side \in Sides /\ Reaches(m.key, k)
  \/ m.pc = "keys" /\ Matches(m.pattern, k)
  \/ m.pc = "del" /\ k \in m.keys

Exempt(r, k) == Neglected(req[r], k)

LEMMA ExemptKept ==
  ASSUME UNCHANGED req, NEW r, NEW k
  PROVE  Exempt(r, k)' <=> Exempt(r, k)
BY DEF Exempt, Neglected, IsAnnouncement

\* Unless nothing is to remove k, either r has still to publish what does, or a message
\* of its will.
Pending(r, k) ==
  \/ Exempt(r, k)
  \/ pc[r] = "set" /\ AnyReaches(DelKeys(req[r]), k)
  \/ pc[r] = "delete" /\ AnyReaches(left[r], k)
  \/ \E m \in dels : m.by = r /\ Catches(m, k)

DelsShaped ==
  \A m \in dels : m = [by |-> m.by, n |-> m.n, key |-> m.key,
                       pc |-> m.pc, pattern |-> m.pattern, keys |-> m.keys]

Deletes == UNION {{DelKeys(q)[i] : i \in DOMAIN DelKeys(q)} : q \in Menu}

SidesAreTrue == \A k \in DOMAIN redis : k \in Sides => redis[k].side \in SideValues(k)

DueIsPending ==
  /\ due = [r \in Requests |-> due[r]]
  /\ \A r \in Requests : pc[r] \in {"start", "service"} => due[r] = {}
  /\ \A r \in Requests : \A k \in due[r] :
       k \in DOMAIN redis /\ ~ Matches(Unmatched, k) /\ Pending(r, k)

DueInv ==
  /\ Inv
  /\ left \in [Requests -> Seq(Deletes)]
  /\ DelsShaped /\ SidesAreTrue /\ DueIsPending

LEMMA DelKeysSeq == ASSUME NEW q \in Menu PROVE DelKeys(q) \in Seq(Deletes)
<1> DEFINE ds == DelKeys(q)
<1>1. \A i \in DOMAIN ds : ds[i] \in Deletes
  BY DEF Deletes
<1>2. ds = <<>> \/ \E a, b, c, d : ds \in {<<a>>, <<a, b>>, <<a, b, c>>, <<a, b, c, d>>}
  BY DEF DelKeys
<1> SUFFICES ds \in Seq(Deletes)
  OBVIOUS
<1> HIDE DEF ds
<1>3. CASE ds = <<>>
  BY <1>3, EmptySeq
<1>4. CASE ds # <<>>
  <2>0. PICK a, b, c, d : ds \in {<<a>>, <<a, b>>, <<a, b, c>>, <<a, b, c, d>>}
    BY <1>2, <1>4
  <2>1. CASE ds = <<a>>
    BY <1>1, <2>1
  <2>2. CASE ds = <<a, b>>
    BY <1>1, <2>2
  <2>3. CASE ds = <<a, b, c>>
    BY <1>1, <2>3
  <2>4. CASE ds = <<a, b, c, d>>
    BY <1>1, <2>4
  <2> QED
    BY <2>0, <2>1, <2>2, <2>3, <2>4
<1> QED
  BY <1>3, <1>4

\* No response is cached under a side key, and none under a key without segments
\* but the blank one.
LEMMA KeysAreNoSides ==
  ASSUME NEW q \in Accepted
  PROVE  /\ SetKey(q) \notin Sides
         /\ SetKey(q) # Blank => ~ Matches(Unmatched, SetKey(q))
<1> DEFINE k == SetKey(q)
<1>1. Len(k) \in Nat /\ (Len(k) = 3 => k[3] \in {"card", "announcement-check"})
  <2>1. CASE k = Blank
    BY <2>1 DEF Blank
  <2>2. CASE k # Blank /\ q.op \in Lists
    <3>1. InList(k, q.user, q.type[1])
      BY <2>2, KeyOfAccepted
    <3> HIDE DEF k
    <3> QED
      BY <3>1 DEF InList
  <2>3. CASE k # Blank /\ q.op = "GetOutingWithFilter"
    <3>1. FilterShape(k, q.text, q.page)
      BY <2>3, KeyOfAccepted, FilterKeyShape, MenuTexts DEF Accepted
    <3> HIDE DEF k
    <3>2. Len(q.text) \in Nat /\ Len(k) = 17 + Len(q.text)
      BY <3>1 DEF FilterShape
    <3> QED
      BY <3>2
  <2>4. CASE k # Blank /\ q.op \notin Lists \cup {"GetOutingWithFilter"}
    <3>1. k = PlainKey(q) /\ IsRead(q)
      BY <2>4, KeyOfAccepted
    <3> HIDE DEF k
    <3>2. q.op \in {"GetStudentOutings", "GetOutingInform", "GetCardAboutOuting", "GetSchedule",
                    "GetTimeTable", "GetAnnouncementDetail", "CheckAnnouncement",
                    "GetMyAnnouncements"}
      BY <2>4, <3>1 DEF IsRead, Lists
    <3>3. CASE q.op = "GetOutingInform"
      <4>1. k = <<"outings", q.id[1]>>
        BY <3>1, <3>3 DEF PlainKey
      <4> QED
        BY <4>1
    <3>4. CASE q.op = "GetCardAboutOuting"
      <4>1. k = <<"outings", q.id[1], "card">>
        BY <3>1, <3>4 DEF PlainKey
      <4> QED
        BY <4>1
    <3>5. CASE q.op = "GetAnnouncementDetail"
      <4>1. k = <<"announcements", q.id[1]>>
        BY <3>1, <3>5 DEF PlainKey
      <4> QED
        BY <4>1
    <3>6. CASE q.op = "CheckAnnouncement"
      <4>1. k = <<"students", q.user, "announcement-check">>
        BY <3>1, <3>6 DEF PlainKey
      <4> QED
        BY <4>1
    <3>7. CASE q.op = "GetSchedule"
      <4>1. k = <<"schedules", "years", q.page, "months", q.page>>
        BY <3>1, <3>7 DEF PlainKey
      <4> QED
        BY <4>1
    <3>8. CASE q.op = "GetTimeTable"
      <4>1. k = <<"students", q.user, "timetable", "years", q.page, "months", q.page,
                "days", q.page, "count", q.page>>
        BY <3>1, <3>8 DEF PlainKey
      <4> QED
        BY <4>1
    <3>9. CASE q.op = "GetStudentOutings"
      <4>1. k = <<"students", q.user, "outings", "start", q.page, "count", q.page>>
        BY <3>1, <3>9 DEF PlainKey
      <4> QED
        BY <4>1
    <3>10. CASE q.op = "GetMyAnnouncements"
      <4>1. k = <<"writers", q.user, "announcements", "start", q.page, "count", q.page>>
        BY <3>1, <3>10 DEF PlainKey
      <4> QED
        BY <4>1
    <3> QED
      BY <3>2, <3>3, <3>4, <3>5, <3>6, <3>7, <3>8, <3>9, <3>10
  <2> QED
    BY <2>1, <2>2, <2>3, <2>4
<1> HIDE DEF k
<1>2. ASSUME NEW side \in Sides PROVE Len(side) = 3 /\ side[3] \in {"student_uuid", "type"}
  <2>1. \E x : side = <<"outings", x, "student_uuid">> \/ side = <<"announcements", x, "type">>
    BY SideKeyOfOne DEF Sides
  <2> QED
    BY <2>1
<1>3. k \notin Sides
  BY <1>1, <1>2
<1>4. k # Blank => ~ Matches(Unmatched, k)
  BY <1>1, UnmatchedMatchesNone DEF Blank
<1> QED
  BY <1>3, <1>4 DEF k

LEMMA SideIsTrue ==
  ASSUME NEW key, SideKey(key) \in Sides
  PROVE  SideValue(key) \in SideValues(SideKey(key))
<1>1. NoKey \notin Sides
  BY DataAssumption DEF Sides
<1>2. CASE IsOuting(key)
  BY <1>2 DEF SideKey, SideValue, SideValues, IsOuting
<1>3. CASE ~ IsOuting(key) /\ IsAnnouncement(key)
  BY <1>3 DEF SideKey, SideValue, SideValues, IsAnnouncement
<1> QED
  BY <1>1, <1>2, <1>3 DEF SideKey

LEMMA DueSuffices == DueInv => DeletionIsComplete
<1> SUFFICES ASSUME DueInv, NEW r \in Requests, Settled(r), NEW k \in due[r]
             PROVE  Neglected(req[r], k)
  BY DEF DeletionIsComplete
<1>1. Pending(r, k)
  BY DEF DueInv, DueIsPending
<1> QED
  BY <1>1 DEF Pending, Settled, Exempt

LEMMA DueInit == Init \/ InitWarm => DueInv
<1> SUFFICES ASSUME Init \/ InitWarm PROVE DueInv
  OBVIOUS
<1>1. Inv
  BY InvInit, InvInitWarm
<1>2. left \in [Requests -> Seq(Deletes)]
  <2>1. left = [r \in Requests |-> <<>>]
    BY DEF Init, InitWarm
  <2> QED
    BY <2>1, EmptySeq
<1>3. DelsShaped /\ DueIsPending
  BY DEF Init, InitWarm, DelsShaped, DueIsPending
<1>4. SidesAreTrue
  <2>1. CASE Init
    BY <2>1 DEF Init, SidesAreTrue
  <2>2. CASE InitWarm
    <3>1. PICK known \in SUBSET (SideKeys \cap LookedUp) :
            redis = [k \in Stored \cup known |->
              IF k \in Stored THEN Response([of |-> ReadOf(k), ok |-> TRUE, missed |-> {}])
              ELSE Side(SideValue(CHOOSE o \in Keys : SideKey(o) = k))]
      BY <2>2 DEF InitWarm
    <3> SUFFICES ASSUME NEW k \in Stored \cup known, k \in Sides
                 PROVE  redis[k].side \in SideValues(k)
      BY <3>1 DEF SidesAreTrue
    <3>2. k \notin Stored
      <4>1. \A q \in Asked : q \in Menu
        BY <1>1 DEF Asked, Inv, Typed
      <4> QED
        BY <4>1, KeysAreNoSides DEF Stored, Accepted
    <3>3. \E o \in Keys : SideKey(o) = k
      BY <3>2 DEF SideKeys
    <3> DEFINE o == CHOOSE o \in Keys : SideKey(o) = k
    <3>4. SideKey(o) = k /\ redis[k].side = SideValue(o)
      BY <3>1, <3>2, <3>3 DEF Side
    <3> HIDE DEF o
    <3> QED
      BY <3>4, SideIsTrue
  <2> QED
    BY <2>1, <2>2
<1> QED
  BY <1>1, <1>2, <1>3, <1>4 DEF DueInv

\* A step of request r changes only r's place and what r has left to publish.
LEMMA OthersPending ==
  ASSUME DueInv, NEW r \in Requests, NEW x \in Requests, x # r, NEW k,
         pc' = [pc EXCEPT ![r] = pc'[r]], left' = [left EXCEPT ![r] = left'[r]],
         UNCHANGED req, dels \subseteq dels', Pending(x, k)
  PROVE  Pending(x, k)'
<1>1. pc'[x] = pc[x] /\ left'[x] = left[x]
  BY DEF DueInv, Inv, Typed
<1> QED
  BY <1>1, ExemptKept DEF Pending, AnyReaches

\* After a request's turn, all its keys are left to be published.
LEMMA DeletesNext ==
  ASSUME DueInv, NEW r \in Requests, NEW ok \in BOOLEAN, ToDelete(r, ok)
  PROVE  /\ pc' = [pc EXCEPT ![r] = pc'[r]] /\ left' = [left EXCEPT ![r] = left'[r]]
         /\ pc'[r] \in {"delete", "done"}
         /\ left' \in [Requests -> Seq(Deletes)]
         /\ ok => \A k : AnyReaches(DelKeys(req[r]), k) =>
                     pc'[r] = "delete" /\ AnyReaches(left'[r], k)
<1>1. DelKeys(req[r]) \in Seq(Deletes)
  BY DelKeysSeq DEF DueInv, Inv, Typed
<1>2. left'[r] \in Seq(Deletes) /\ left' = [left EXCEPT ![r] = left'[r]]
  BY <1>1, EmptySeq DEF ToDelete, DueInv
<1>3. left' \in [Requests -> Seq(Deletes)]
  BY <1>2 DEF DueInv
<1>4. pc' = [pc EXCEPT ![r] = pc'[r]] /\ pc'[r] \in {"delete", "done"}
  BY DEF ToDelete, Goto, DueInv, Inv, Typed
<1>5. ASSUME ok, NEW k, AnyReaches(DelKeys(req[r]), k)
      PROVE  pc'[r] = "delete" /\ AnyReaches(left'[r], k)
  <2>1. DelKeys(req[r]) # <<>>
    BY <1>5 DEF AnyReaches
  <2>2. left'[r] = DelKeys(req[r]) /\ pc'[r] = "delete"
    BY <1>5, <2>1 DEF ToDelete, Goto, DueInv, Inv, Typed
  <2> QED
    BY <1>5, <2>2
<1> QED
  BY <1>2, <1>3, <1>4, <1>5

\* So what is due stays pending if what is due to r does.
LEMMA RequestKeepsDue ==
  ASSUME DueInv, Inv', NEW r \in Requests,
         pc' = [pc EXCEPT ![r] = pc'[r]], left' = [left EXCEPT ![r] = left'[r]],
         due' = [due EXCEPT ![r] = due'[r]], left' \in [Requests -> Seq(Deletes)],
         UNCHANGED req, dels \subseteq dels', DOMAIN redis' = DOMAIN redis,
         SidesAreTrue', DelsShaped',
         pc'[r] \in {"start", "service"} => due'[r] = {},
         \A k \in due'[r] : k \in DOMAIN redis /\ ~ Matches(Unmatched, k) /\ Pending(r, k)'
  PROVE  DueInv'
<1>1. ASSUME NEW x \in Requests PROVE pc'[x] \in {"start", "service"} => due'[x] = {}
  BY DEF DueInv, DueIsPending, Inv, Typed
<1>2. ASSUME NEW x \in Requests, NEW k \in due'[x]
      PROVE  k \in DOMAIN redis' /\ ~ Matches(Unmatched, k) /\ Pending(x, k)'
  <2>1. CASE x = r
    BY <1>2, <2>1
  <2>2. CASE x # r
    <3>1. k \in due[x]
      BY <1>2, <2>2 DEF DueInv, DueIsPending
    <3> QED
      BY <2>2, <3>1, OthersPending DEF DueInv, DueIsPending
  <2> QED
    BY <2>1, <2>2
<1>3. due' = [x \in Requests |-> due'[x]]
  BY DEF DueInv, DueIsPending
<1>4. DueIsPending'
  BY <1>1, <1>2, <1>3 DEF DueIsPending
<1> QED
  BY <1>4 DEF DueInv

LEMMA HitDue == ASSUME DueInv, NEW r \in Requests, Hit(r) PROVE DueInv'
<1>1. Inv'
  BY HitStep DEF DueInv
<1>2. /\ pc' = [pc EXCEPT ![r] = pc'[r]] /\ left' = [left EXCEPT ![r] = left'[r]]
      /\ pc'[r] \in {"delete", "done"} /\ left' \in [Requests -> Seq(Deletes)]
  BY DeletesNext DEF Hit
<1>3. due[r] = {} /\ UNCHANGED <<req, redis, dels, due>>
  BY DEF Hit, DueInv, DueIsPending
<1>4. SidesAreTrue' /\ DelsShaped'
  BY <1>3 DEF DueInv, SidesAreTrue, DelsShaped
<1>5. due' = [due EXCEPT ![r] = due'[r]] /\ due'[r] = {}
  BY <1>3 DEF DueInv, DueIsPending
<1> QED
  BY <1>1, <1>2, <1>3, <1>4, <1>5, RequestKeepsDue

LEMMA MissDue == ASSUME DueInv, NEW r \in Requests, Miss(r) PROVE DueInv'
<1>1. Inv'
  BY InvStep DEF Next, Request, DueInv
<1>2. /\ pc' = [pc EXCEPT ![r] = pc'[r]] /\ left' = [left EXCEPT ![r] = left'[r]]
      /\ left' \in [Requests -> Seq(Deletes)]
  BY DEF Miss, Goto, DueInv, Inv, Typed
<1>3. due[r] = {} /\ UNCHANGED <<req, redis, dels, due>>
  BY DEF Miss, DueInv, DueIsPending
<1>4. SidesAreTrue' /\ DelsShaped'
  BY <1>3 DEF DueInv, SidesAreTrue, DelsShaped
<1>5. due' = [due EXCEPT ![r] = due'[r]] /\ due'[r] = {}
  BY <1>3 DEF DueInv, DueIsPending
<1> QED
  BY <1>1, <1>2, <1>3, <1>4, <1>5, RequestKeepsDue

LEMMA ServeDue ==
  ASSUME DueInv, NEW r \in Requests, NEW made \in BOOLEAN, NEW ok \in BOOLEAN, Serve(r, made, ok)
  PROVE  DueInv'
<1>1. Inv'
  BY ServeStep DEF DueInv
<1>2. /\ pc[r] \in {"start", "service"} /\ due[r] = {} /\ (made => Accepts(req[r]))
      /\ UNCHANGED <<req, dels>> /\ ToSet(r, ok) /\ (ok => made) /\ req[r] \in Menu
  BY DEF Serve, AtService, DueInv, DueIsPending, Inv, Typed
<1>3. /\ pc' = [pc EXCEPT ![r] = pc'[r]] /\ left' = [left EXCEPT ![r] = left'[r]]
      /\ pc'[r] \in {"set", "delete", "done"} /\ left' \in [Requests -> Seq(Deletes)]
      /\ ok => \A k : AnyReaches(DelKeys(req[r]), k) =>
                  \/ pc'[r] = "set"
                  \/ pc'[r] = "delete" /\ AnyReaches(left'[r], k)
  <2>1. CASE IsRead(req[r]) /\ ok
    BY <1>2, <2>1 DEF ToSet, Goto, DueInv, Inv, Typed
  <2>2. CASE ~ (IsRead(req[r]) /\ ok)
    BY <1>2, <2>2, DeletesNext DEF ToSet
  <2> QED
    BY <2>1, <2>2
<1>4. DOMAIN redis' = DOMAIN redis /\ SidesAreTrue'
  <2>1. CASE made
    <3>1. redis' = [k \in DOMAIN redis |->
                      IF Cached(k) THEN [redis[k] EXCEPT !.val = Mark(r, @)] ELSE redis[k]]
      BY <2>1 DEF Serve
    <3>2. ASSUME NEW k \in DOMAIN redis PROVE redis'[k].side = redis[k].side
      <4>1. redis[k] = [val |-> redis[k].val, side |-> redis[k].side, expires |-> redis[k].expires]
        BY DEF DueInv, Inv, CacheIsSound, EntryOf
      <4> QED
        BY <3>1, <4>1
    <3> QED
      BY <3>1, <3>2 DEF DueInv, SidesAreTrue
  <2>2. CASE ~ made
    BY <2>2 DEF Serve, DueInv, SidesAreTrue
  <2> QED
    BY <2>1, <2>2
<1>5. DelsShaped'
  BY <1>2 DEF DueInv, DelsShaped
<1>6. due' = [due EXCEPT ![r] = due'[r]]
  BY DEF Serve, DueInv, DueIsPending
<1>7. ASSUME NEW k \in due'[r]
      PROVE  k \in DOMAIN redis /\ ~ Matches(Unmatched, k) /\ Pending(r, k)'
  <2>1. made
    BY <1>2, <1>7 DEF Serve
  <2>2. /\ k \in DOMAIN redis /\ k # Blank /\ ok /\ Cached(k)
        /\ Changes(req[r], redis[k].val.of)
    BY <2>1, <1>7 DEF Serve, DueInv, DueIsPending
  <2> DEFINE s == redis[k].val.of
  <2>3. SetKey(s) = k /\ s \in Accepted
    BY <2>2 DEF DueInv, Inv, CacheIsSound, EntryOf, Cached, AnswersTo, Answers
  <2> HIDE DEF s
  <2>4. ~ Matches(Unmatched, k)
    BY <2>2, <2>3, KeysAreNoSides
  <2>5. CASE Neglected(req[r], k)
    <3>1. Exempt(r, k)'
      BY <1>2, <2>5, ExemptKept DEF Exempt
    <3> QED
      BY <2>2, <2>4, <3>1 DEF Pending
  <2>6. CASE ~ Neglected(req[r], k)
    <3>0. AnyReaches(DelKeys(req[r]), k)
      <4>1. req[r] \in Accepted /\ Changes(req[r], s)
        BY <1>2, <2>1, <2>2 DEF s, Accepted
      <4> QED
        BY <2>2, <2>3, <2>6, <4>1, ChangeIsReached
    <3>1. AnyReaches(DelKeys(req[r]), k)'
      BY <1>2, <3>0 DEF AnyReaches
    <3>2. pc'[r] = "set" \/ (pc'[r] = "delete" /\ AnyReaches(left'[r], k))
      BY <1>3, <2>2, <3>0
    <3>3. Pending(r, k)'
      BY <3>1, <3>2 DEF Pending, AnyReaches
    <3> QED
      BY <2>2, <2>4, <3>3
  <2> QED
    BY <2>5, <2>6
<1> QED
  BY <1>1, <1>2, <1>3, <1>4, <1>5, <1>6, <1>7, RequestKeepsDue

LEMMA PublishSetDue == ASSUME DueInv, NEW r \in Requests, PublishSet(r) PROVE DueInv'
<1>1. Inv'
  BY PublishSetStep DEF DueInv
<1>2. /\ pc[r] = "set" /\ UNCHANGED <<req, redis, dels, due>> /\ ToDelete(r, TRUE)
  BY DEF PublishSet
<1>3. /\ pc' = [pc EXCEPT ![r] = pc'[r]] /\ left' = [left EXCEPT ![r] = left'[r]]
      /\ pc'[r] \in {"delete", "done"} /\ left' \in [Requests -> Seq(Deletes)]
      /\ \A k : AnyReaches(DelKeys(req[r]), k) => pc'[r] = "delete" /\ AnyReaches(left'[r], k)
  BY <1>2, DeletesNext
<1>4. SidesAreTrue' /\ DelsShaped'
  BY <1>2 DEF DueInv, SidesAreTrue, DelsShaped
<1>5. due' = [due EXCEPT ![r] = due'[r]]
  BY <1>2 DEF DueInv, DueIsPending
<1>6. ASSUME NEW k \in due'[r]
      PROVE  k \in DOMAIN redis /\ ~ Matches(Unmatched, k) /\ Pending(r, k)'
  <2>1. k \in DOMAIN redis /\ ~ Matches(Unmatched, k) /\ Pending(r, k)
    BY <1>2, <1>6 DEF DueInv, DueIsPending
  <2>2. CASE AnyReaches(DelKeys(req[r]), k)
    <3>1. pc'[r] = "delete" /\ AnyReaches(left'[r], k)
      BY <1>3, <2>2
    <3> QED
      BY <2>1, <3>1 DEF Pending, AnyReaches
  <2>3. CASE \E m \in dels : m.by = r /\ Catches(m, k)
    BY <1>2, <2>1, <2>3 DEF Pending
  <2>4. CASE Exempt(r, k)
    BY <1>2, <2>1, <2>4, ExemptKept DEF Pending
  <2> QED
    BY <1>2, <2>1, <2>2, <2>3, <2>4 DEF Pending
<1> QED
  BY <1>1, <1>2, <1>3, <1>4, <1>5, <1>6, RequestKeepsDue

\* A message is what one of the keys to delete becomes.
LEMMA DeletionCatches ==
  ASSUME NEW r, NEW d, NEW k, Reaches(d, k), ~ Matches(Unmatched, k)
  PROVE  \E m \in Deletion(r, d) : m.by = r /\ Catches(m, k)
<1> DEFINE new == [by |-> r, n |-> Len(left[r]), key |-> d,
                   pc |-> "resolve", pattern |-> Unmatched, keys |-> {}]
<1>1. CASE d.side = NoKey
  <2>1. Matches(Pattern(d.segs), k) /\ Pattern(d.segs) # Unmatched
    BY <1>1 DEF Reaches, Patterns
  <2> DEFINE m == [new EXCEPT !.pc = "keys", !.pattern = Pattern(d.segs)]
  <2>2. m \in Deletion(r, d)
    BY <1>1, <2>1 DEF Deletion, Matching
  <2>3. m.by = r /\ m.pc = "keys" /\ m.pattern = Pattern(d.segs)
    OBVIOUS
  <2> HIDE DEF m
  <2> QED
    BY <2>1, <2>2, <2>3 DEF Catches
<1>2. CASE d.side # NoKey
  <2>1. new \in Deletion(r, d)
    BY <1>2 DEF Deletion
  <2>2. new.by = r /\ new.pc = "resolve" /\ new.key = d
    OBVIOUS
  <2>3. d.side \in Sides
    BY <1>2 DEF Reaches
  <2> HIDE DEF new
  <2> QED
    BY <2>1, <2>2, <2>3 DEF Catches
<1> QED
  BY <1>1, <1>2

LEMMA MatchingShaped ==
  ASSUME NEW m, m = [by |-> m.by, n |-> m.n, key |-> m.key,
                     pc |-> m.pc, pattern |-> m.pattern, keys |-> m.keys],
         NEW pattern, NEW x \in Matching(m, pattern)
  PROVE  /\ x = [by |-> x.by, n |-> x.n, key |-> x.key,
                 pc |-> x.pc, pattern |-> x.pattern, keys |-> x.keys]
         /\ x.by = m.by /\ x.pc = "keys" /\ x.pattern = pattern /\ x.keys = m.keys
<1>1. x = [m EXCEPT !.pc = "keys", !.pattern = pattern]
  BY DEF Matching
<1>2. x = [by |-> m.by, n |-> m.n, key |-> m.key,
           pc |-> "keys", pattern |-> pattern, keys |-> m.keys]
  BY <1>1
<1> QED
  BY <1>2

LEMMA PublishDeleteDue == ASSUME DueInv, NEW r \in Requests, PublishDelete(r) PROVE DueInv'
<1> DEFINE ds == left[r]
<1>1. Inv'
  BY InvStep DEF Next, Request, DueInv
<1>2. /\ pc[r] = "delete" /\ UNCHANGED <<req, redis, due>> /\ ds \in Seq(Deletes)
      /\ dels' = dels \cup Deletion(r, Head(ds))
      /\ left' = [left EXCEPT ![r] = Tail(ds)] /\ left'[r] = Tail(ds)
      /\ pc'[r] = IF Tail(ds) = <<>> THEN "done" ELSE "delete"
      /\ pc' = [pc EXCEPT ![r] = pc'[r]]
  BY DEF PublishDelete, Goto, DueInv, Inv, Typed
<1> HIDE DEF ds
<1>3. left' \in [Requests -> Seq(Deletes)]
  <2>1. Tail(ds) \in Seq(Deletes)
    <3>1. CASE ds # <<>>
      BY <1>2, <3>1, HeadTailProperties
    <3>2. CASE ds = <<>>
      BY <3>2 DEF ds
    <3> QED
      BY <3>1, <3>2
  <2> QED
    BY <1>2, <2>1 DEF DueInv
<1>4. SidesAreTrue'
  BY <1>2 DEF DueInv, SidesAreTrue
<1>5. DelsShaped'
  <2> SUFFICES ASSUME NEW x \in Deletion(r, Head(ds))
               PROVE  x = [by |-> x.by, n |-> x.n, key |-> x.key,
                           pc |-> x.pc, pattern |-> x.pattern, keys |-> x.keys]
    BY <1>2 DEF DueInv, DelsShaped
  <2> DEFINE new == [by |-> r, n |-> Len(left[r]), key |-> Head(ds),
                     pc |-> "resolve", pattern |-> Unmatched, keys |-> {}]
  <2>1. x = new \/ x \in Matching(new, Pattern(Head(ds).segs))
    BY DEF Deletion
  <2>2. new = [by |-> new.by, n |-> new.n, key |-> new.key,
               pc |-> new.pc, pattern |-> new.pattern, keys |-> new.keys]
    OBVIOUS
  <2> HIDE DEF new
  <2> QED
    BY <2>1, <2>2, MatchingShaped
<1>6. due' = [due EXCEPT ![r] = due'[r]]
  BY <1>2 DEF DueInv, DueIsPending
<1>7. ASSUME NEW k \in due'[r]
      PROVE  k \in DOMAIN redis /\ ~ Matches(Unmatched, k) /\ Pending(r, k)'
  <2>1. k \in DOMAIN redis /\ ~ Matches(Unmatched, k) /\ Pending(r, k)
    BY <1>2, <1>7 DEF DueInv, DueIsPending
  <2>2. CASE AnyReaches(ds, k)
    <3>1. PICK i \in DOMAIN ds : Reaches(ds[i], k)
      BY <2>2 DEF AnyReaches
    <3>2. /\ Len(ds) \in Nat /\ i \in 1..Len(ds) /\ ds # <<>>
          /\ Head(ds) = ds[1] /\ Len(Tail(ds)) = Len(ds) - 1
          /\ Tail(ds) \in Seq(Deletes)
          /\ \A j \in 1..Len(Tail(ds)) : Tail(ds)[j] = ds[j + 1]
      <4>1. Len(ds) \in Nat /\ i \in 1..Len(ds) /\ ds # <<>>
        BY <1>2, <3>1
      <4> QED
        BY <1>2, <4>1, HeadTailProperties
    <3>3. CASE i = 1
      <4>1. \E m \in Deletion(r, Head(ds)) : m.by = r /\ Catches(m, k)
        BY <2>1, <3>1, <3>2, <3>3, DeletionCatches
      <4> QED
        BY <1>2, <2>1, <4>1 DEF Pending, Catches, Reaches
    <3>4. CASE i # 1
      <4>1. i - 1 \in 1..Len(Tail(ds)) /\ Tail(ds)[i - 1] = ds[i]
        BY <3>2, <3>4
      <4>2. Tail(ds) # <<>> /\ i - 1 \in DOMAIN Tail(ds)
        BY <3>2, <4>1
      <4>3. pc'[r] = "delete" /\ AnyReaches(left'[r], k)
        BY <1>2, <3>1, <4>1, <4>2 DEF AnyReaches
      <4> QED
        BY <2>1, <4>3 DEF Pending, AnyReaches
    <3> QED
      BY <3>3, <3>4
  <2>3. CASE \E m \in dels : m.by = r /\ Catches(m, k)
    BY <1>2, <2>1, <2>3 DEF Pending
  <2>4. CASE Exempt(r, k)
    BY <1>2, <2>1, <2>4, ExemptKept DEF Pending
  <2> QED
    BY <1>2, <2>1, <2>2, <2>3, <2>4 DEF Pending, ds
<1> QED
  BY <1>1, <1>2, <1>3, <1>4, <1>5, <1>6, <1>7, RequestKeepsDue

LEMMA PublishFailsDue == ASSUME DueInv, NEW r \in Requests, PublishFails(r) PROVE DueInv'
<1>1. Inv'
  BY InvStep DEF Next, Request, DueInv
<1>2. /\ UNCHANGED <<req, redis, dels>> /\ left' = [left EXCEPT ![r] = <<>>]
      /\ due' = [due EXCEPT ![r] = {}] /\ pc' = [pc EXCEPT ![r] = "done"]
  BY DEF PublishFails, Goto
<1>3. /\ left'[r] = <<>> /\ due'[r] = {} /\ pc'[r] = "done"
      /\ left' \in [Requests -> Seq(Deletes)]
  BY <1>2, EmptySeq DEF DueInv, DueIsPending, Inv, Typed
<1>4. SidesAreTrue' /\ DelsShaped'
  BY <1>2 DEF DueInv, SidesAreTrue, DelsShaped
<1> QED
  BY <1>1, <1>2, <1>3, <1>4, RequestKeepsDue

\* A step of a listener or of redis keeps what is due pending if the messages
\* that are to remove it do, or others take their place.
LEMMA OtherKeepsDue ==
  ASSUME DueInv, Inv', UNCHANGED <<req, pc, left>>, SidesAreTrue', DelsShaped',
         due' = [r \in Requests |-> due'[r]],
         \A r \in Requests : due'[r] \subseteq due[r],
         \A r \in Requests : \A k \in due'[r] : k \in DOMAIN redis',
         \A r \in Requests : \A k \in due'[r] : \A m \in dels :
           m.by = r /\ Catches(m, k) => \E x \in dels' : x.by = r /\ Catches(x, k)
  PROVE  DueInv'
<1>1. ASSUME NEW r \in Requests PROVE pc'[r] \in {"start", "service"} => due'[r] = {}
  BY DEF DueInv, DueIsPending
<1>2. ASSUME NEW r \in Requests, NEW k \in due'[r]
      PROVE  k \in DOMAIN redis' /\ ~ Matches(Unmatched, k) /\ Pending(r, k)'
  <2>1. k \in due[r] /\ k \in DOMAIN redis'
    BY <1>2
  <2>2. ~ Matches(Unmatched, k) /\ Pending(r, k)
    BY <2>1 DEF DueInv, DueIsPending
  <2>3. CASE \E m \in dels : m.by = r /\ Catches(m, k)
    <3>1. \E x \in dels' : x.by = r /\ Catches(x, k)
      BY <1>2, <2>3
    <3> QED
      BY <2>1, <2>2, <3>1 DEF Pending, Catches, Reaches
  <2>4. CASE ~ (\E m \in dels : m.by = r /\ Catches(m, k))
    BY <2>1, <2>2, <2>4, ExemptKept DEF Pending, AnyReaches
  <2> QED
    BY <2>3, <2>4
<1>3. DueIsPending'
  BY <1>1, <1>2 DEF DueIsPending
<1>4. left' \in [Requests -> Seq(Deletes)]
  BY DEF DueInv
<1> QED
  BY <1>3, <1>4 DEF DueInv

\* Setting and removing an entry settles what was due of it.
LEMMA EntrySetDue ==
  ASSUME DueInv, NEW k, NEW e, SetEntry(k, e), k \in Sides => e.side \in SideValues(k)
  PROVE  /\ SidesAreTrue' /\ due' = [r \in Requests |-> due'[r]]
         /\ \A r \in Requests : due'[r] \subseteq due[r]
         /\ \A r \in Requests : \A x \in due'[r] : x \in DOMAIN redis'
<1>1. redis' = [x \in DOMAIN redis \cup {k} |-> IF x = k THEN e ELSE redis[x]]
      /\ due' = [r \in Requests |-> due[r] \ {k}]
  BY DEF SetEntry
<1>2. SidesAreTrue'
  BY <1>1 DEF DueInv, SidesAreTrue
<1>3. due' = [r \in Requests |-> due'[r]] /\ \A r \in Requests : due'[r] \subseteq due[r]
  BY <1>1
<1>4. \A r \in Requests : \A x \in due'[r] : x \in DOMAIN redis'
  BY <1>1, <1>3 DEF DueInv, DueIsPending
<1> QED
  BY <1>2, <1>3, <1>4

LEMMA EntryRemovedDue ==
  ASSUME DueInv, NEW k, RemoveEntry(k)
  PROVE  /\ SidesAreTrue' /\ due' = [r \in Requests |-> due[r] \ {k}]
         /\ due' = [r \in Requests |-> due'[r]]
         /\ \A r \in Requests : due'[r] \subseteq due[r]
         /\ \A r \in Requests : \A x \in due'[r] : x \in DOMAIN redis'
<1>1. redis' = [x \in DOMAIN redis \ {k} |-> redis[x]]
      /\ due' = [r \in Requests |-> due[r] \ {k}]
  BY DEF RemoveEntry
<1>2. SidesAreTrue'
  BY <1>1 DEF DueInv, SidesAreTrue
<1>3. due' = [r \in Requests |-> due'[r]] /\ \A r \in Requests : due'[r] \subseteq due[r]
  BY <1>1
<1>4. \A r \in Requests : \A x \in due'[r] : x \in DOMAIN redis'
  BY <1>1, <1>3 DEF DueInv, DueIsPending
<1> QED
  BY <1>1, <1>2, <1>3, <1>4

LEMMA SetListenerDue ==
  ASSUME DueInv, NEW m \in sets, HandleSet(m) \/ HandleSide(m) \/ SetEnds(m)
  PROVE  DueInv'
<1>1. Inv'
  BY MessageSteps DEF DueInv
<1>2. UNCHANGED <<req, pc, left, dels>>
  BY DEF HandleSet, HandleSide, SetEnds
<1>3. DelsShaped'
  BY <1>2 DEF DueInv, DelsShaped
<1>4. m.key \notin Sides
  <2>1. SetKey(m.val.of) = m.key /\ m.val.of \in Accepted
    BY DEF DueInv, Inv, MessagesAreSound, AnswersTo, Answers
  <2> QED
    BY <2>1, KeysAreNoSides
<1>5. /\ SidesAreTrue' /\ due' = [r \in Requests |-> due'[r]]
      /\ \A r \in Requests : due'[r] \subseteq due[r]
      /\ \A r \in Requests : \A x \in due'[r] : x \in DOMAIN redis'
  <2>1. CASE HandleSet(m) \/ (HandleSide(m) /\ IsTimetable(m.key))
    <3>1. SetEntry(m.key, Response(m.val))
      BY <2>1 DEF HandleSet, HandleSide
    <3> QED
      BY <1>4, <3>1, EntrySetDue
  <2>2. CASE HandleSide(m) /\ ~ IsTimetable(m.key)
    <3> DEFINE k == SideKey(m.key)
               e == Side(SideValue(m.key))
    <3>1. SetEntry(k, e)
      BY <2>2 DEF HandleSide
    <3>2. k \in Sides => e.side \in SideValues(k)
      BY SideIsTrue DEF Side
    <3> HIDE DEF k, e
    <3> QED
      BY <3>1, <3>2, EntrySetDue
  <2>3. CASE SetEnds(m)
    BY <2>3 DEF SetEnds, DueInv, SidesAreTrue, DueIsPending
  <2> QED
    BY <2>1, <2>2, <2>3
<1>6. \A r \in Requests : \A k \in due'[r] : \A x \in dels :
        x.by = r /\ Catches(x, k) => \E y \in dels' : y.by = r /\ Catches(y, k)
  BY <1>2
<1> QED
  BY <1>1, <1>2, <1>3, <1>5, <1>6, OtherKeepsDue

\* A message that stays as it is, still catches what it caught.
LEMMA BecomesKeeps ==
  ASSUME NEW m \in dels, NEW set, Becomes(m, set), NEW r, NEW k,
         m.by = r /\ Catches(m, k) => \E y \in set : y.by = r /\ Catches(y, k)
  PROVE  \A x \in dels :
           x.by = r /\ Catches(x, k) => \E y \in dels' : y.by = r /\ Catches(y, k)
BY DEF Becomes

LEMMA ResolveKeyDue == ASSUME DueInv, NEW m \in dels, ResolveKey(m) PROVE DueInv'
<1>1. Inv'
  BY InvStep DEF Next, DelListener, DueInv
<1>2. UNCHANGED <<req, pc, left, redis, due>> /\ m.pc = "resolve"
  BY DEF ResolveKey
<1>3. PICK value \in {Value(m.key.side)} \cup {Star} :
        Becomes(m, Matching(m, Pattern(Resolve(m.key.segs, value))))
  BY DEF ResolveKey
<1> DEFINE pattern == Pattern(Resolve(m.key.segs, value))
<1>4. Becomes(m, Matching(m, pattern))
  BY <1>3
<1>5. m = [by |-> m.by, n |-> m.n, key |-> m.key,
           pc |-> m.pc, pattern |-> m.pattern, keys |-> m.keys]
  BY DEF DueInv, DelsShaped
<1>6. m.key.side \in Sides => pattern \in Patterns(m.key)
  <2> SUFFICES ASSUME m.key.side \in Sides PROVE pattern \in Patterns(m.key)
    OBVIOUS
  <2>1. value \in SideValues(m.key.side) \cup {Star}
    BY <1>3 DEF Value, DueInv, SidesAreTrue
  <2>2. m.key.side # NoKey
    BY DataAssumption DEF Sides
  <2> QED
    BY <2>1, <2>2 DEF Patterns
<1> HIDE DEF pattern
<1>7. SidesAreTrue'
  BY <1>2 DEF DueInv, SidesAreTrue
<1>8. DelsShaped'
  <2>1. dels' = (dels \ {m}) \cup Matching(m, pattern)
    BY <1>4 DEF Becomes
  <2>2. \A x \in Matching(m, pattern) :
          x = [by |-> x.by, n |-> x.n, key |-> x.key,
               pc |-> x.pc, pattern |-> x.pattern, keys |-> x.keys]
    BY <1>5, MatchingShaped
  <2> QED
    BY <2>1, <2>2 DEF DueInv, DelsShaped
<1>9. ASSUME NEW r \in Requests, NEW k \in due'[r]
      PROVE  \A x \in dels :
               x.by = r /\ Catches(x, k) => \E y \in dels' : y.by = r /\ Catches(y, k)
  <2>1. ~ Matches(Unmatched, k)
    BY <1>2, <1>9 DEF DueInv, DueIsPending
  <2>2. ASSUME m.by = r, Catches(m, k)
        PROVE  \E y \in Matching(m, pattern) : y.by = r /\ Catches(y, k)
    <3>1. Matches(pattern, k) /\ pattern # Unmatched
      BY <1>2, <1>6, <2>1, <2>2 DEF Catches, Reaches
    <3>2. PICK y \in Matching(m, pattern) : TRUE
      BY <3>1 DEF Matching
    <3>3. y.by = m.by /\ y.pc = "keys" /\ y.pattern = pattern
      BY <1>5, MatchingShaped
    <3> QED
      BY <2>2, <3>1, <3>3 DEF Catches
  <2> QED
    BY <1>4, <2>2, BecomesKeeps
<1>10. /\ due' = [r \in Requests |-> due'[r]] /\ \A r \in Requests : due'[r] \subseteq due[r]
       /\ \A r \in Requests : \A k \in due'[r] : k \in DOMAIN redis'
  BY <1>2 DEF DueInv, DueIsPending
<1> QED
  BY <1>1, <1>2, <1>7, <1>8, <1>9, <1>10, OtherKeepsDue

LEMMA FoundShaped ==
  ASSUME NEW m, m = [by |-> m.by, n |-> m.n, key |-> m.key,
                     pc |-> m.pc, pattern |-> m.pattern, keys |-> m.keys], NEW found
  PROVE  Found(m, found)
           = [by |-> m.by, n |-> m.n, key |-> m.key,
              pc |-> "del", pattern |-> m.pattern, keys |-> found]
<1> DEFINE marked == [m EXCEPT !.pc = "del"]
<1>1. Found(m, found) = [marked EXCEPT !.keys = found]
  BY DEF Found
<1>2. marked = [by |-> m.by, n |-> m.n, key |-> m.key,
                pc |-> "del", pattern |-> m.pattern, keys |-> m.keys]
  OBVIOUS
<1> HIDE DEF marked
<1>3. [marked EXCEPT !.keys = found]
        = [by |-> m.by, n |-> m.n, key |-> m.key,
           pc |-> "del", pattern |-> m.pattern, keys |-> found]
  BY <1>2
<1> QED
  BY <1>1, <1>3

LEMMA FindKeysDue == ASSUME DueInv, NEW m \in dels, FindKeys(m) PROVE DueInv'
<1> DEFINE found == {k \in DOMAIN redis : Matches(m.pattern, k)}
           set == IF found = {} THEN {} ELSE {Found(m, found)}
<1>1. Inv'
  BY InvStep DEF Next, DelListener, DueInv
<1>2. UNCHANGED <<req, pc, left, redis, due>> /\ m.pc = "keys" /\ Becomes(m, set)
  BY DEF FindKeys
<1>3. \A x \in set : x = [by |-> m.by, n |-> m.n, key |-> m.key,
                          pc |-> "del", pattern |-> m.pattern, keys |-> found]
  <2>1. m = [by |-> m.by, n |-> m.n, key |-> m.key,
             pc |-> m.pc, pattern |-> m.pattern, keys |-> m.keys]
    BY DEF DueInv, DelsShaped
  <2> HIDE DEF found
  <2>2. \A x \in set : x = Found(m, found)
    OBVIOUS
  <2>3. Found(m, found)
          = [by |-> m.by, n |-> m.n, key |-> m.key,
             pc |-> "del", pattern |-> m.pattern, keys |-> found]
    BY <2>1, FoundShaped
  <2> HIDE DEF set
  <2> QED
    BY <2>2, <2>3
<1>4. found # {} => set # {}
  OBVIOUS
<1> HIDE DEF set
<1>5. SidesAreTrue'
  BY <1>2 DEF DueInv, SidesAreTrue
<1>6. DelsShaped'
  BY <1>2, <1>3 DEF Becomes, DueInv, DelsShaped
<1>7. ASSUME NEW r \in Requests, NEW k \in due'[r]
      PROVE  \A x \in dels :
               x.by = r /\ Catches(x, k) => \E y \in dels' : y.by = r /\ Catches(y, k)
  <2>1. k \in DOMAIN redis
    BY <1>2, <1>7 DEF DueInv, DueIsPending
  <2>2. ASSUME m.by = r, Catches(m, k) PROVE \E y \in set : y.by = r /\ Catches(y, k)
    <3>1. k \in found
      BY <1>2, <2>1, <2>2 DEF Catches
    <3>2. PICK y \in set : TRUE
      BY <1>4, <3>1
    <3>3. y.by = m.by /\ y.pc = "del" /\ y.keys = found
      BY <1>3
    <3> HIDE DEF found
    <3> QED
      BY <2>2, <3>1, <3>3 DEF Catches
  <2> QED
    BY <1>2, <2>2, BecomesKeeps
<1>8. /\ due' = [r \in Requests |-> due'[r]] /\ \A r \in Requests : due'[r] \subseteq due[r]
      /\ \A r \in Requests : \A k \in due'[r] : k \in DOMAIN redis'
  BY <1>2 DEF DueInv, DueIsPending
<1> QED
  BY <1>1, <1>2, <1>5, <1>6, <1>7, <1>8, OtherKeepsDue

LEMMA DeleteKeyDue == ASSUME DueInv, NEW m \in dels, DeleteKey(m) PROVE DueInv'
<1>1. Inv'
  BY InvStep DEF Next, DelListener, DueInv
<1>2. UNCHANGED <<req, pc, left>> /\ m.pc = "del"
  BY DEF DeleteKey
<1>3. PICK key \in m.keys :
        /\ RemoveEntry(key)
        /\ Becomes(m, IF m.keys = {key} THEN {} ELSE {[m EXCEPT !.keys = @ \ {key}]})
  BY DEF DeleteKey
<1> DEFINE set == IF m.keys = {key} THEN {} ELSE {[m EXCEPT !.keys = @ \ {key}]}
<1>4. Becomes(m, set)
  BY <1>3
<1>5. \A x \in set : x = [by |-> m.by, n |-> m.n, key |-> m.key,
                          pc |-> m.pc, pattern |-> m.pattern, keys |-> m.keys \ {key}]
  <2>1. m = [by |-> m.by, n |-> m.n, key |-> m.key,
             pc |-> m.pc, pattern |-> m.pattern, keys |-> m.keys]
    BY DEF DueInv, DelsShaped
  <2> QED
    BY <2>1
<1>6. m.keys # {key} => set # {}
  OBVIOUS
<1> HIDE DEF set
<1>7. DelsShaped'
  BY <1>4, <1>5 DEF Becomes, DueInv, DelsShaped
<1>8. /\ SidesAreTrue' /\ due' = [r \in Requests |-> due[r] \ {key}]
      /\ due' = [r \in Requests |-> due'[r]] /\ \A r \in Requests : due'[r] \subseteq due[r]
      /\ \A r \in Requests : \A x \in due'[r] : x \in DOMAIN redis'
  BY <1>3, EntryRemovedDue
<1>9. ASSUME NEW r \in Requests, NEW k \in due'[r]
      PROVE  \A x \in dels :
               x.by = r /\ Catches(x, k) => \E y \in dels' : y.by = r /\ Catches(y, k)
  <2>1. k # key
    BY <1>8, <1>9
  <2>2. ASSUME m.by = r, Catches(m, k) PROVE \E y \in set : y.by = r /\ Catches(y, k)
    <3>1. k \in m.keys
      BY <1>2, <2>2 DEF Catches
    <3>2. PICK y \in set : TRUE
      BY <1>6, <2>1, <3>1
    <3>3. y.by = m.by /\ y.pc = m.pc /\ y.keys = m.keys \ {key}
      BY <1>5
    <3> QED
      BY <1>2, <2>1, <2>2, <3>1, <3>3 DEF Catches
  <2> QED
    BY <1>4, <2>2, BecomesKeeps
<1> QED
  BY <1>1, <1>2, <1>7, <1>8, <1>9, OtherKeepsDue

LEMMA DeleteEndsDue == ASSUME DueInv, NEW m \in dels, DeleteEnds(m) PROVE DueInv'
<1>1. Inv'
  BY InvStep DEF Next, DelListener, DueInv
<1>2. /\ UNCHANGED <<req, pc, left, redis>> /\ dels' = dels \ {m}
      /\ due' = [due EXCEPT ![m.by] = {}]
  BY DEF DeleteEnds, Becomes
<1>3. SidesAreTrue' /\ DelsShaped'
  BY <1>2 DEF DueInv, SidesAreTrue, DelsShaped
<1>4. /\ due' = [r \in Requests |-> due'[r]]
      /\ \A r \in Requests : due'[r] \subseteq due[r] /\ (r = m.by => due'[r] = {})
      /\ \A r \in Requests : \A k \in due'[r] : k \in DOMAIN redis'
  BY <1>2 DEF DueInv, DueIsPending
<1>5. ASSUME NEW r \in Requests, NEW k \in due'[r], NEW x \in dels, x.by = r, Catches(x, k)
      PROVE  x \in dels'
  BY <1>2, <1>4, <1>5
<1> QED
  BY <1>1, <1>2, <1>3, <1>4, <1>5, OtherKeepsDue

LEMMA ExpireDue == ASSUME DueInv, NEW k \in DOMAIN redis, Expire(k) PROVE DueInv'
<1>1. Inv'
  BY InvStep DEF Next, DueInv
<1>2. UNCHANGED <<req, pc, left, dels>> /\ RemoveEntry(k)
  BY DEF Expire
<1>3. DelsShaped'
  BY <1>2 DEF DueInv, DelsShaped
<1>4. /\ SidesAreTrue' /\ due' = [r \in Requests |-> due'[r]]
      /\ \A r \in Requests : due'[r] \subseteq due[r]
      /\ \A r \in Requests : \A x \in due'[r] : x \in DOMAIN redis'
  BY <1>2, EntryRemovedDue
<1> QED
  BY <1>1, <1>2, <1>3, <1>4, OtherKeepsDue

LEMMA RestartDue == ASSUME DueInv, Restart PROVE DueInv'
<1>1. Inv'
  BY InvStep DEF Next, DueInv
<1>2. left' = [r \in Requests |-> <<>>] /\ dels' = {} /\ due' = [r \in Requests |-> {}]
      /\ UNCHANGED redis
  BY DEF Restart
<1>3. left' \in [Requests -> Seq(Deletes)]
  BY <1>2, EmptySeq
<1> QED
  BY <1>1, <1>2, <1>3 DEF DueInv, DelsShaped, SidesAreTrue, DueIsPending

LEMMA DueStep == DueInv /\ [Next]_vars => DueInv'
<1> SUFFICES ASSUME DueInv, [Next]_vars PROVE DueInv'
  OBVIOUS
<1>1. ASSUME NEW r \in Requests, Request(r) PROVE DueInv'
  BY <1>1, HitDue, MissDue, ServeDue, PublishSetDue, PublishDeleteDue, PublishFailsDue DEF Request
<1>2. CASE SetListener
  BY <1>2, SetListenerDue DEF SetListener
<1>3. CASE DelListener
  BY <1>3, ResolveKeyDue, FindKeysDue, DeleteKeyDue, DeleteEndsDue DEF DelListener
<1>4. CASE UNCHANGED vars
  <2>1. Inv'
    BY InvStep DEF DueInv
  <2>2. UNCHANGED <<req, pc, left, redis, dels, due>>
    BY <1>4 DEF vars
  <2>3. SidesAreTrue' /\ DelsShaped'
    BY <2>2 DEF DueInv, SidesAreTrue, DelsShaped
  <2>4. /\ due' = [r \in Requests |-> due'[r]]
        /\ \A r \in Requests : \A k \in due'[r] : k \in DOMAIN redis'
    BY <2>2 DEF DueInv, DueIsPending
  <2> QED
    BY <2>1, <2>2, <2>3, <2>4, OtherKeepsDue
<1> QED
  BY <1>1, <1>2, <1>3, <1>4, ExpireDue, RestartDue DEF Next

\* Once the deletions a change published have been handled, and none was lost or
\* failed, the only entries left in redis that show what it changed and were cached
\* before have a neglected key: for any requests, whatever is in the cache, in any
\* interleaving.
THEOREM DeletionsAreComplete == SpecWarm => []DeletionIsComplete
<1>1. InitWarm => DueInv
  BY DueInit
<1> QED
  BY <1>1, DueStep, DueSuffices, PTL DEF SpecWarm

-----------------------------------------------------------------------------
(* The types.                                                               *)

LeftTyped ==
  /\ left = [r \in Requests |-> left[r]]
  /\ \A r \in Requests : \E i \in 0..Len(DelKeys(req[r])) :
       left[r] = SubSeq(DelKeys(req[r]), i + 1, Len(DelKeys(req[r])))
  /\ \A r \in Requests : pc[r] = "delete" => left[r] # <<>>

RespTyped == \A r \in Requests : resp[r] \in Values \cup {None}

RedisTyped ==
  /\ DOMAIN redis \subseteq Keys \cup SideKeys
  /\ \A k \in DOMAIN redis :
       IF k \in SideKeys THEN ~ redis[k].expires ELSE redis[k] \in {Response(v) : v \in Values}

SetsTyped ==
  \A m \in sets :
    /\ m.by \in Requests /\ m.key \in Keys /\ m.val \in Values
    /\ m.pc = "side" => IsTimetable(m.key) \/ SideKey(m.key) # NoKey

DelsTyped == \A m \in dels : m.by \in Requests /\ m.keys \subseteq Keys \cup SideKeys

DueTyped == due \in [Requests -> SUBSET Keys]

TypeInv ==
  /\ DueInv /\ req \in Asks
  /\ LeftTyped /\ RespTyped /\ RedisTyped /\ SetsTyped /\ DelsTyped /\ DueTyped

LEMMA TypeInvSuffices == TypeInv => TypeOK
BY DEF TypeInv, DueInv, Inv, Typed, LeftTyped, RespTyped, RedisTyped, SetsTyped, DelsTyped,
       DueTyped, TypeOK

LEMMA AnswersAreValues == \A k : AnswersTo(k) \subseteq Values /\ (AnswersTo(k) # {} => k \in Keys)
BY DEF AnswersTo, Answers, Values, Keys, Accepted

\* No response is cached under a side key.
LEMMA SideKeysApart == Keys \cap SideKeys = {}
<1>1. SideKeys \subseteq Sides
  BY DEF SideKeys, SideKey, Sides, IsOuting, IsAnnouncement
<1>2. \A k \in Keys : k \notin Sides
  BY KeysAreNoSides DEF Keys
<1> QED
  BY <1>1, <1>2

\* What is left of a sequence stays a suffix of it.
Suffix(t, s) == \E i \in 0..Len(s) : t = SubSeq(s, i + 1, Len(s))

LEMMA Suffixes ==
  ASSUME NEW S, NEW s \in Seq(S)
  PROVE  /\ Suffix(s, s) /\ Suffix(<<>>, s)
         /\ \A t : Suffix(t, s) /\ t # <<>> => Suffix(Tail(t), s)
<1>0. Len(s) \in Nat
  OBVIOUS
<1>1. Suffix(s, s)
  <2>1. SubSeq(s, 0 + 1, Len(s)) = s
    BY SubSeqFull
  <2> QED
    BY <1>0, <2>1 DEF Suffix
<1>2. Suffix(<<>>, s)
  <2>1. SubSeq(s, Len(s) + 1, Len(s)) = <<>>
    BY <1>0, SubSeqEmpty
  <2> QED
    BY <1>0, <2>1 DEF Suffix
<1>3. ASSUME NEW t, Suffix(t, s), t # <<>> PROVE Suffix(Tail(t), s)
  <2>1. PICK i \in 0..Len(s) : t = SubSeq(s, i + 1, Len(s))
    BY <1>3 DEF Suffix
  <2>2. i # Len(s)
    BY <1>2, <1>3, <2>1, <1>0, SubSeqEmpty
  <2>3. i + 1 \in 1..Len(s) /\ Len(s) \in i + 1..Len(s) /\ i + 1 \in 0..Len(s)
    BY <1>0, <2>2
  <2>4. Tail(t) = SubSeq(s, (i + 1) + 1, Len(s))
    BY <2>1, <2>3, HeadTailOfSubSeq
  <2> QED
    BY <2>3, <2>4 DEF Suffix
<1> QED
  BY <1>1, <1>2, <1>3

LEMMA TypeInit == InitWarm => TypeInv
<1> SUFFICES ASSUME InitWarm PROVE TypeInv
  OBVIOUS
<1>1. DueInv /\ req \in Asks
  BY DueInit DEF InitWarm
<1>2. LeftTyped
  <2>1. left = [r \in Requests |-> <<>>]
    BY DEF InitWarm
  <2>2. \A r \in Requests : DelKeys(req[r]) \in Seq(Deletes)
    BY <1>1, DelKeysSeq DEF DueInv, Inv, Typed
  <2>3. \A r \in Requests : pc[r] = "start"
    BY DEF InitWarm
  <2> QED
    BY <2>1, <2>2, <2>3, Suffixes DEF LeftTyped, Suffix
<1>3. RedisTyped
  <2>1. PICK known \in SUBSET (SideKeys \cap LookedUp) :
          redis = [k \in Stored \cup known |->
            IF k \in Stored THEN Response([of |-> ReadOf(k), ok |-> TRUE, missed |-> {}])
            ELSE Side(SideValue(CHOOSE o \in Keys : SideKey(o) = k))]
    BY DEF InitWarm
  <2>2. ASSUME NEW k \in Stored PROVE k \in Keys /\ ReadOf(k) \in Menu
    <3>1. req \in [Requests -> Menu]
      BY <1>1 DEF DueInv, Inv, Typed
    <3> QED
      BY <3>1 DEF Stored, Asked, ReadOf, Keys, Accepted
  <2>3. Stored \cap SideKeys = {}
    BY <2>2, SideKeysApart
  <2>4. DOMAIN redis \subseteq Keys \cup SideKeys
    BY <2>1, <2>2
  <2>5. ASSUME NEW k \in DOMAIN redis
        PROVE  IF k \in SideKeys THEN ~ redis[k].expires
               ELSE redis[k] \in {Response(v) : v \in Values}
    <3>1. CASE k \in Stored
      <4> DEFINE v == [of |-> ReadOf(k), ok |-> TRUE, missed |-> {}]
      <4>1. v \in Values
        BY <2>2, <3>1 DEF Values
      <4> HIDE DEF v
      <4> QED
        BY <2>1, <2>3, <3>1, <4>1 DEF v
    <3>2. CASE k \notin Stored
      BY <2>1, <3>2 DEF Side
    <3> QED
      BY <3>1, <3>2
  <2> QED
    BY <2>4, <2>5 DEF RedisTyped
<1>4. RespTyped /\ SetsTyped /\ DelsTyped /\ DueTyped
  BY DEF InitWarm, RespTyped, SetsTyped, DelsTyped, DueTyped
<1> QED
  BY <1>1, <1>2, <1>3, <1>4 DEF TypeInv

LEMMA Unchanged == TypeInv /\ UNCHANGED vars => TypeInv'
BY DueStep DEF vars, TypeInv, LeftTyped, RespTyped, RedisTyped, SetsTyped, DelsTyped, DueTyped

\* What a step of request r leaves to be published.
LEMMA LeftKept ==
  ASSUME TypeInv, NEW r \in Requests, NEW ds, UNCHANGED req,
         left' = [left EXCEPT ![r] = ds], pc' = [pc EXCEPT ![r] = pc'[r]],
         pc'[r] = "delete" => ds # <<>>,
         \/ ds \in {<<>>, DelKeys(req[r])}
         \/ left[r] # <<>> /\ ds = Tail(left[r])
  PROVE  LeftTyped'
<1>1. DelKeys(req[r]) \in Seq(Deletes)
  BY DelKeysSeq DEF TypeInv, DueInv, Inv, Typed
<1>2. Suffix(left[r], DelKeys(req[r]))
  BY DEF TypeInv, LeftTyped, Suffix
<1>3. Suffix(ds, DelKeys(req[r]))
  BY <1>1, <1>2, Suffixes
<1>4. left' = [x \in Requests |-> left'[x]] /\ left'[r] = ds
      /\ \A x \in Requests : x # r => left'[x] = left[x]
  BY DEF TypeInv, LeftTyped
<1>5. \A x \in Requests : x # r => pc'[x] = pc[x]
  BY DEF TypeInv, DueInv, Inv, Typed
<1> QED
  BY <1>3, <1>4, <1>5 DEF TypeInv, LeftTyped, Suffix

\* After a request's turn, all its keys are left or none.
LEMMA TurnTyped ==
  ASSUME TypeInv, NEW r \in Requests, NEW ok \in BOOLEAN, UNCHANGED req, ToDelete(r, ok)
  PROVE  LeftTyped'
<1> DEFINE ds == IF ok THEN DelKeys(req[r]) ELSE <<>>
<1>1. ds \in {<<>>, DelKeys(req[r])}
  OBVIOUS
<1>2. left' = [left EXCEPT ![r] = ds]
  BY DEF ToDelete
<1>3. pc' = [pc EXCEPT ![r] = pc'[r]] /\ (pc'[r] = "delete" => ds # <<>>)
  BY DEF ToDelete, Goto, TypeInv, DueInv, Inv, Typed
<1> HIDE DEF ds
<1> QED
  BY <1>1, <1>2, <1>3, LeftKept

\* The entries stay what they are when one is set or removed.
LEMMA EntrySetTyped ==
  ASSUME TypeInv, NEW k \in Keys \cup SideKeys, NEW e, SetEntry(k, e),
         IF k \in SideKeys THEN ~ e.expires ELSE e \in {Response(v) : v \in Values}
  PROVE  RedisTyped' /\ DueTyped'
<1>1. DOMAIN redis' = DOMAIN redis \cup {k}
      /\ \A x \in DOMAIN redis' : redis'[x] = IF x = k THEN e ELSE redis[x]
  BY DEF SetEntry
<1>2. RedisTyped'
  BY <1>1 DEF TypeInv, RedisTyped
<1>3. DueTyped'
  BY DEF SetEntry, TypeInv, DueTyped
<1> QED
  BY <1>2, <1>3

LEMMA EntryRemovedTyped ==
  ASSUME TypeInv, NEW k, RemoveEntry(k)
  PROVE  RedisTyped' /\ DueTyped'
<1>1. DOMAIN redis' = DOMAIN redis \ {k} /\ \A x \in DOMAIN redis' : redis'[x] = redis[x]
  BY DEF RemoveEntry
<1>2. RedisTyped'
  BY <1>1 DEF TypeInv, RedisTyped
<1>3. DueTyped'
  BY DEF RemoveEntry, TypeInv, DueTyped
<1> QED
  BY <1>2, <1>3

LEMMA HitTyped == ASSUME TypeInv, NEW r \in Requests, Hit(r) PROVE TypeInv'
<1>1. DueInv' /\ UNCHANGED <<req, redis, sets, dels, due>> /\ ToDelete(r, TRUE)
  BY DueStep DEF TypeInv, Hit, Next, Request
<1>2. LeftTyped'
  BY <1>1, TurnTyped
<1>3. RespTyped'
  <2>1. redis[SetKey(req[r])].val \in Values
    BY AnswersAreValues DEF Hit, Cached, TypeInv, DueInv, Inv, CacheIsSound, EntryOf
  <2> QED
    BY <2>1 DEF Hit, TypeInv, DueInv, Inv, Typed, RespTyped
<1> QED
  BY <1>1, <1>2, <1>3 DEF TypeInv, RedisTyped, SetsTyped, DelsTyped, DueTyped

LEMMA MissTyped == ASSUME TypeInv, NEW r \in Requests, Miss(r) PROVE TypeInv'
<1>1. DueInv' /\ UNCHANGED <<req, left, resp, redis, sets, dels, due>>
  BY DueStep DEF TypeInv, Miss, Next, Request
<1>2. \A x \in Requests : pc'[x] = "delete" => pc[x] = "delete"
  BY DEF Miss, Goto, TypeInv, DueInv, Inv, Typed
<1> QED
  BY <1>1, <1>2 DEF TypeInv, LeftTyped, RespTyped, RedisTyped, SetsTyped, DelsTyped, DueTyped

LEMMA MarkIsValue ==
  ASSUME NEW r \in Requests, NEW v \in Values PROVE Mark(r, v) \in Values
BY DEF Mark, Values

LEMMA ServeTyped ==
  ASSUME TypeInv, NEW r \in Requests, NEW made \in BOOLEAN, NEW ok \in BOOLEAN, Serve(r, made, ok),
         Request(r)
  PROVE  TypeInv'
<1>1. DueInv' /\ UNCHANGED <<req, dels>> /\ ToSet(r, ok) /\ req[r] \in Menu
  BY DueStep DEF TypeInv, Serve, Next, DueInv, Inv, Typed
<1>2. LeftTyped'
  <2>1. CASE UNCHANGED left /\ Goto(r, "set")
    <3>1. \A x \in Requests : pc'[x] = "delete" => pc[x] = "delete"
      BY <2>1 DEF Goto, TypeInv, DueInv, Inv, Typed
    <3> QED
      BY <1>1, <2>1, <3>1 DEF TypeInv, LeftTyped
  <2>2. CASE ToDelete(r, ok)
    BY <1>1, <2>2, TurnTyped
  <2> QED
    BY <1>1, <2>1, <2>2 DEF ToSet
<1>3. RespTyped'
  <2>1. \A x \in Requests : pc[x] = "set" => Mark(r, resp[x]) \in Values
    BY AnswersAreValues, MarkIsValue DEF TypeInv, DueInv, Inv, ResponsesAreSound
  <2>2. [of |-> req[r], ok |-> ok, missed |-> {}] \in Values
    BY <1>1 DEF Values
  <2> QED
    BY <2>1, <2>2 DEF Serve, TypeInv, RespTyped
<1>4. RedisTyped'
  <2>1. CASE made
    <3>1. redis' = [k \in DOMAIN redis |->
                      IF Cached(k) THEN [redis[k] EXCEPT !.val = Mark(r, @)] ELSE redis[k]]
      BY <2>1 DEF Serve
    <3>2. ASSUME NEW k \in DOMAIN redis, k \in SideKeys PROVE ~ redis'[k].expires
      <4>1. /\ redis[k] = [val |-> redis[k].val, side |-> redis[k].side, expires |-> redis[k].expires]
            /\ ~ redis[k].expires
        BY <3>2 DEF TypeInv, RedisTyped, DueInv, Inv, CacheIsSound, EntryOf
      <4> QED
        BY <3>1, <4>1
    <3>3. ASSUME NEW k \in DOMAIN redis, k \notin SideKeys
          PROVE  redis'[k] \in {Response(v) : v \in Values}
      <4>1. PICK v \in Values : redis[k] = Response(v)
        BY <3>3 DEF TypeInv, RedisTyped
      <4>2. redis[k] = [val |-> v, side |-> None, expires |-> TRUE]
        BY <4>1 DEF Response
      <4>3. [redis[k] EXCEPT !.val = Mark(r, @)]
              = [val |-> Mark(r, v), side |-> None, expires |-> TRUE]
        <5> DEFINE e == redis[k]
        <5>1. e = [val |-> e.val, side |-> e.side, expires |-> e.expires]
              /\ e.val = v /\ e.side = None /\ e.expires = TRUE
          BY <4>2
        <5> HIDE DEF e
        <5>2. [e EXCEPT !.val = Mark(r, @)]
                = [val |-> Mark(r, e.val), side |-> e.side, expires |-> e.expires]
          BY <5>1
        <5>3. [e EXCEPT !.val = Mark(r, @)]
                = [val |-> Mark(r, v), side |-> None, expires |-> TRUE]
          BY <5>1, <5>2
        <5> QED
          BY <5>3 DEF e
      <4> QED
        BY <3>1, <4>1, <4>3, MarkIsValue DEF Response
    <3> QED
      BY <3>1, <3>2, <3>3 DEF TypeInv, RedisTyped
  <2>2. CASE ~ made
    BY <2>2 DEF Serve, TypeInv, RedisTyped
  <2> QED
    BY <2>1, <2>2
<1>5. SetsTyped'
  <2>1. CASE made
    <3> SUFFICES ASSUME NEW n \in sets'
                 PROVE  /\ n.by \in Requests /\ n.key \in Keys /\ n.val \in Values
                        /\ n.pc = "side" => IsTimetable(n.key) \/ SideKey(n.key) # NoKey
      BY DEF SetsTyped
    <3>1. PICK m \in sets : n = [m EXCEPT !.val = Mark(r, @)]
      BY <2>1 DEF Serve
    <3>2. m = [by |-> m.by, key |-> m.key, val |-> m.val, pc |-> m.pc]
      BY DEF TypeInv, DueInv, Inv, MessagesAreSound
    <3>3. n = [by |-> m.by, key |-> m.key, val |-> Mark(r, m.val), pc |-> m.pc]
      BY <3>1, <3>2
    <3> QED
      BY <3>3, MarkIsValue DEF TypeInv, SetsTyped
  <2>2. CASE ~ made
    BY <2>2 DEF Serve, TypeInv, SetsTyped
  <2> QED
    BY <2>1, <2>2
<1>6. DueTyped'
  <2>1. \A k \in DOMAIN redis : Cached(k) => k \in Keys
    BY AnswersAreValues DEF Cached, TypeInv, DueInv, Inv, CacheIsSound, EntryOf
  <2> QED
    BY <2>1 DEF Serve, TypeInv, DueTyped
<1> QED
  BY <1>1, <1>2, <1>3, <1>4, <1>5, <1>6 DEF TypeInv, DelsTyped

LEMMA PublishSetTyped == ASSUME TypeInv, NEW r \in Requests, PublishSet(r) PROVE TypeInv'
<1>1. /\ DueInv' /\ UNCHANGED <<req, redis, dels, due>> /\ ToDelete(r, TRUE)
      /\ pc[r] = "set" /\ req[r] \in Menu
  BY DueStep DEF TypeInv, PublishSet, Next, Request, DueInv, Inv, Typed
<1>2. LeftTyped'
  BY <1>1, TurnTyped
<1>3. RespTyped'
  BY DEF PublishSet, TypeInv, DueInv, Inv, Typed, RespTyped
<1>4. SetsTyped'
  <2>1. SetKey(req[r]) \in Keys /\ resp[r] \in Values
    BY <1>1, AnswersAreValues DEF TypeInv, DueInv, Inv, ResponsesAreSound
  <2> QED
    BY <2>1 DEF PublishSet, TypeInv, SetsTyped
<1> QED
  BY <1>1, <1>2, <1>3, <1>4 DEF TypeInv, RedisTyped, DelsTyped, DueTyped

LEMMA PublishDeleteTyped == ASSUME TypeInv, NEW r \in Requests, PublishDelete(r) PROVE TypeInv'
<1>1. /\ DueInv' /\ UNCHANGED <<req, resp, redis, sets, due>> /\ pc[r] = "delete"
      /\ dels' = dels \cup Deletion(r, Head(left[r]))
  BY DueStep DEF TypeInv, PublishDelete, Next, Request
<1>2. LeftTyped'
  <2>1. left[r] # <<>> /\ left' = [left EXCEPT ![r] = Tail(left[r])]
    BY <1>1 DEF PublishDelete, TypeInv, LeftTyped
  <2>2. pc' = [pc EXCEPT ![r] = pc'[r]] /\ (pc'[r] = "delete" => Tail(left[r]) # <<>>)
    BY DEF PublishDelete, Goto, TypeInv, DueInv, Inv, Typed
  <2> QED
    BY <1>1, <2>1, <2>2, LeftKept
<1>3. DelsTyped'
  <2> DEFINE m == [by |-> r, n |-> Len(left[r]), key |-> Head(left[r]),
                   pc |-> "resolve", pattern |-> Unmatched, keys |-> {}]
  <2>1. \A x \in Deletion(r, Head(left[r])) : x.by = r /\ x.keys = {}
    BY MatchingShaped DEF Deletion
  <2> QED
    BY <1>1, <2>1 DEF TypeInv, DelsTyped
<1> QED
  BY <1>1, <1>2, <1>3 DEF TypeInv, RespTyped, RedisTyped, SetsTyped, DueTyped

LEMMA PublishFailsTyped == ASSUME TypeInv, NEW r \in Requests, PublishFails(r) PROVE TypeInv'
<1>1. DueInv' /\ UNCHANGED <<req, resp, redis, sets, dels>>
  BY DueStep DEF TypeInv, PublishFails, Next, Request
<1>2. LeftTyped'
  <2>1. pc' = [pc EXCEPT ![r] = pc'[r]] /\ pc'[r] # "delete"
    BY DEF PublishFails, Goto, TypeInv, DueInv, Inv, Typed
  <2>2. left' = [left EXCEPT ![r] = <<>>]
    BY DEF PublishFails
  <2> QED
    BY <1>1, <2>1, <2>2, LeftKept
<1>3. DueTyped'
  BY DEF PublishFails, TypeInv, DueTyped
<1> QED
  BY <1>1, <1>2, <1>3 DEF TypeInv, RespTyped, RedisTyped, SetsTyped, DelsTyped

\* A message of the set topic is handled or lost.
LEMMA SetTyped ==
  ASSUME TypeInv, NEW m \in sets, HandleSet(m) \/ HandleSide(m) \/ SetEnds(m)
  PROVE  TypeInv'
<1>1. DueInv' /\ UNCHANGED <<req, pc, left, resp, dels>>
  BY DueStep DEF TypeInv, HandleSet, HandleSide, SetEnds, Next, SetListener
<1>2. /\ m = [by |-> m.by, key |-> m.key, val |-> m.val, pc |-> m.pc]
      /\ m.by \in Requests /\ m.key \in Keys /\ m.val \in Values
      /\ m.pc = "side" => IsTimetable(m.key) \/ SideKey(m.key) # NoKey
  BY DEF TypeInv, SetsTyped, DueInv, Inv, MessagesAreSound
<1>3. SetsTyped'
  <2>1. [m EXCEPT !.pc = "side"] = [by |-> m.by, key |-> m.key, val |-> m.val, pc |-> "side"]
    BY <1>2
  <2>2. \A x \in sets' : x \in sets \/ (x = [m EXCEPT !.pc = "side"]
                           /\ (IsTimetable(m.key) \/ SideKey(m.key) # NoKey))
    BY DEF HandleSet, HandleSide, SetEnds
  <2> QED
    BY <1>2, <2>1, <2>2 DEF TypeInv, SetsTyped
<1>4. RedisTyped' /\ DueTyped'
  <2>1. CASE SetEntry(m.key, Response(m.val))
    BY <1>2, <2>1, SideKeysApart, EntrySetTyped
  <2>2. CASE HandleSide(m) /\ ~ IsTimetable(m.key)
    <3>1. SideKey(m.key) \in SideKeys
      BY <1>2, <2>2 DEF HandleSide, SideKeys
    <3>2. SetEntry(SideKey(m.key), Side(SideValue(m.key))) /\ ~ Side(SideValue(m.key)).expires
      BY <2>2 DEF HandleSide, Side
    <3> QED
      BY <3>1, <3>2, EntrySetTyped
  <2>3. CASE SetEnds(m)
    BY <2>3 DEF SetEnds, TypeInv, RedisTyped, DueTyped
  <2> QED
    BY <2>1, <2>2, <2>3 DEF HandleSet, HandleSide
<1> QED
  BY <1>1, <1>3, <1>4 DEF TypeInv, LeftTyped, RespTyped, DelsTyped

\* A message of the delete topic takes a step.
LEMMA DeletionTyped ==
  ASSUME TypeInv, NEW m \in dels,
         ResolveKey(m) \/ FindKeys(m) \/ DeleteKey(m) \/ DeleteEnds(m)
  PROVE  TypeInv'
<1>1. DueInv' /\ UNCHANGED <<req, pc, left, resp, sets>>
  BY DueStep DEF TypeInv, ResolveKey, FindKeys, DeleteKey, DeleteEnds, Next, DelListener
<1>2. /\ m = [by |-> m.by, n |-> m.n, key |-> m.key,
              pc |-> m.pc, pattern |-> m.pattern, keys |-> m.keys]
      /\ m.by \in Requests /\ m.keys \subseteq Keys \cup SideKeys
  BY DEF TypeInv, DelsTyped, DueInv, DelsShaped
<1>3. RedisTyped' /\ DueTyped'
  <2>1. CASE DeleteKey(m)
    BY <2>1, EntryRemovedTyped DEF DeleteKey
  <2>2. CASE DeleteEnds(m)
    BY <2>2 DEF DeleteEnds, TypeInv, RedisTyped, DueTyped
  <2>3. CASE ResolveKey(m) \/ FindKeys(m)
    BY <2>3 DEF ResolveKey, FindKeys, TypeInv, RedisTyped, DueTyped
  <2> QED
    BY <2>1, <2>2, <2>3
<1>4. DelsTyped'
  <2>1. CASE ResolveKey(m)
    <3>1. PICK pattern : Becomes(m, Matching(m, pattern))
      BY <2>1 DEF ResolveKey
    <3>2. \A x \in Matching(m, pattern) : x.by = m.by /\ x.keys = m.keys
      BY <1>2, MatchingShaped
    <3> QED
      BY <1>2, <3>1, <3>2 DEF Becomes, TypeInv, DelsTyped
  <2>2. CASE FindKeys(m)
    <3> DEFINE found == {k \in DOMAIN redis : Matches(m.pattern, k)}
               x == Found(m, found)
    <3>1. Becomes(m, IF found = {} THEN {} ELSE {x})
      BY <2>2 DEF FindKeys
    <3>2. found \subseteq Keys \cup SideKeys
      BY DEF TypeInv, RedisTyped
    <3> HIDE DEF found
    <3>3. x.by = m.by /\ x.keys = found
      BY <1>2, FoundShaped
    <3> HIDE DEF x
    <3> QED
      BY <1>2, <3>1, <3>2, <3>3 DEF Becomes, TypeInv, DelsTyped
  <2>3. CASE DeleteKey(m)
    <3>1. PICK k \in m.keys :
            Becomes(m, IF m.keys = {k} THEN {} ELSE {[m EXCEPT !.keys = @ \ {k}]})
      BY <2>3 DEF DeleteKey
    <3> DEFINE x == [m EXCEPT !.keys = @ \ {k}]
    <3>2. x.by = m.by /\ x.keys = m.keys \ {k}
      BY <1>2
    <3> HIDE DEF x
    <3>3. Becomes(m, IF m.keys = {k} THEN {} ELSE {x})
      BY <3>1 DEF x
    <3> QED
      BY <1>2, <3>2, <3>3 DEF Becomes, TypeInv, DelsTyped
  <2>4. CASE DeleteEnds(m)
    BY <2>4 DEF DeleteEnds, Becomes, TypeInv, DelsTyped
  <2> QED
    BY <2>1, <2>2, <2>3, <2>4
<1> QED
  BY <1>1, <1>3, <1>4 DEF TypeInv, LeftTyped, RespTyped, SetsTyped

LEMMA ExpireTyped == ASSUME TypeInv, NEW k \in DOMAIN redis, Expire(k) PROVE TypeInv'
<1>1. DueInv' /\ UNCHANGED <<req, pc, left, resp, sets, dels>> /\ RemoveEntry(k)
  BY DueStep DEF TypeInv, Expire, Next
<1> QED
  BY <1>1, EntryRemovedTyped DEF TypeInv, LeftTyped, RespTyped, SetsTyped, DelsTyped

LEMMA RestartTyped == ASSUME TypeInv, Restart PROVE TypeInv'
<1>1. DueInv' /\ UNCHANGED <<req, resp, redis>> /\ sets' = {} /\ dels' = {}
      /\ left' = [r \in Requests |-> <<>>] /\ due' = [r \in Requests |-> {}]
  BY DueStep DEF TypeInv, Restart, Next
<1>2. LeftTyped'
  <2>1. \A r \in Requests : DelKeys(req[r]) \in Seq(Deletes)
    BY DelKeysSeq DEF TypeInv, DueInv, Inv, Typed
  <2>2. \A r \in Requests : pc'[r] # "delete"
    BY DEF Restart
  <2> QED
    BY <1>1, <2>1, <2>2, Suffixes DEF LeftTyped, Suffix
<1> QED
  BY <1>1, <1>2 DEF TypeInv, RespTyped, RedisTyped, SetsTyped, DelsTyped, DueTyped

LEMMA TypeStep == TypeInv /\ [Next]_vars => TypeInv'
<1> SUFFICES ASSUME TypeInv, [Next]_vars PROVE TypeInv'
  OBVIOUS
<1>1. ASSUME NEW r \in Requests, Request(r) PROVE TypeInv'
  BY <1>1, HitTyped, MissTyped, ServeTyped, PublishSetTyped, PublishDeleteTyped,
     PublishFailsTyped DEF Request
<1>2. CASE SetListener
  BY <1>2, SetTyped DEF SetListener
<1>3. CASE DelListener
  BY <1>3, DeletionTyped DEF DelListener
<1> QED
  BY <1>1, <1>2, <1>3, ExpireTyped, RestartTyped, Unchanged DEF Next

\* The redis keys in existence are those of the menu's reads and their side keys:
\* a response always expires, a side key never does, and a message holds nothing
\* else, whatever is published, lost, delayed or restarted.
THEOREM CacheTyped == SpecWarm => []TypeOK
BY TypeInit, TypeStep, TypeInvSuffices, PTL DEF SpecWarm
===============================================================================
