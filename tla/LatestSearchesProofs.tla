------------------------ MODULE LatestSearchesProofs ------------------------
(***************************************************************************)
(* Proofs about the list latestsearches: what is recorded in it, and what  *)
(* who asks for it is shown.  They rest on the invariant Safe, which       *)
(* SearchApiProofs proves.                                                 *)
(***************************************************************************)
EXTENDS SearchApiProofs

(***************************************************************************)
(* Counting the RPUSHes on the connection.                                 *)
(***************************************************************************)

\* Commands that begin alike have the same RPUSHes there.
LEMMA PrefixPushes ==
  ASSUME NEW a, NEW b, NEW n, \A i \in 1 .. n : a[i] = b[i]
  PROVE  Pushes(a, n) = Pushes(b, n)
  BY ZenonT(60) DEF Pushes

\* Commands without an RPUSH add none to the connection.
LEMMA SendNoPush ==
  ASSUME TypeOK, NEW cmds \in Seq(Command), Send(cmds),
         \A i \in 1 .. Len(cmds) : cmds[i].op # "RPUSH"
  PROVE  Pushes(wire', Len(wire')) = Pushes(wire, Len(wire))
<1>1. /\ Len(wire) \in Nat /\ Len(cmds) \in Nat
      /\ Len(wire') = Len(wire) + Len(cmds)
      /\ \A i \in 1 .. Len(wire) : wire'[i] = wire[i]
      /\ \A i \in 1 .. Len(cmds) : wire'[Len(wire) + i] = cmds[i]
  BY ZenonT(60), SendFacts
<1>2. ASSUME NEW i \in 1 .. Len(wire'), i \notin 1 .. Len(wire)
      PROVE  wire'[i].op # "RPUSH"
  <2>1. i - Len(wire) \in 1 .. Len(cmds) /\ i = Len(wire) + (i - Len(wire))
    BY <1>1, <1>2
  <2>. QED
    BY ZenonT(60), <1>1, <2>1
<1>3. \A i \in 1 .. Len(wire) : i \in 1 .. Len(wire')
  BY <1>1
<1>. QED
  BY ZenonT(60), <1>1, <1>2, <1>3 DEF Pushes

\* The commands of the nextTick callback have one RPUSH, the third.
LEMMA StorePushes ==
  ASSUME NEW q \in Keys, NEW e \in Entry
  PROVE  LET cmds == SetThenExpire(q, e) \o PushName(e) \o Rank(e)
         IN  /\ cmds \in Seq(Command) /\ 3 \in 1 .. Len(cmds)
             /\ \A i \in 1 .. Len(cmds) : cmds[i].op = "RPUSH" <=> i = 3
<1>. DEFINE se == SetThenExpire(q, e)
            p == PushName(e)
            sep == se \o p
            k == Rank(e)
<1>0. se \in Seq(Command) /\ p \in Seq(Command) /\ k \in Seq(Command)
  BY StoreTypes
<1>1. Len(se) = 2 /\ se[1].op # "RPUSH" /\ se[2].op # "RPUSH"
  BY DEF SetThenExpire, Set, Expire
<1>2. Len(p) = 1 /\ p[1].op = "RPUSH"
  BY DEF PushName, RPush
<1>. HIDE DEF se, p, k
<1>3. Len(sep) = 3 /\ \A i \in 1 .. 3 : sep[i].op = "RPUSH" <=> i = 3
  <2>1. /\ Len(se \o p) = Len(se) + Len(p)
        /\ \A i \in 1 .. Len(se) + Len(p) :
             (se \o p)[i] = IF i <= Len(se) THEN se[i] ELSE p[i - Len(se)]
    BY <1>0, ConcatProperties
  <2>2. (se \o p)[1] = se[1] /\ (se \o p)[2] = se[2] /\ (se \o p)[3] = p[1]
    BY <1>1, <1>2, <2>1
  <2>. QED
    BY <1>1, <1>2, <2>1, <2>2
<1>4. Len(k) \in {0, 1} /\ \A i \in 1 .. Len(k) : k[i].op = "ZADD"
  BY DEF Rank, ZAdd, k
<1>5. sep \in Seq(Command) /\ sep \o k \in Seq(Command)
  BY <1>0, ConcatProperties
<1>. HIDE DEF sep
<1>6. /\ Len(sep \o k) = 3 + Len(k)
      /\ \A i \in 1 .. 3 : (sep \o k)[i] = sep[i]
      /\ \A i \in 4 .. 3 + Len(k) : (sep \o k)[i] = k[i - 3]
  <2>1. /\ Len(sep \o k) = Len(sep) + Len(k)
        /\ \A i \in 1 .. Len(sep) + Len(k) :
             (sep \o k)[i] = IF i <= Len(sep) THEN sep[i] ELSE k[i - Len(sep)]
    BY <1>0, <1>5, ConcatProperties
  <2>. QED
    BY <1>3, <1>4, <2>1
<1>7. ASSUME NEW i \in 1 .. Len(sep \o k)
      PROVE  (sep \o k)[i].op = "RPUSH" <=> i = 3
  <2>1. CASE i \in 1 .. 3
    BY ZenonT(60), <1>3, <1>6, <2>1
  <2>2. CASE i \notin 1 .. 3
    <3>1. i \in 4 .. 3 + Len(k) /\ i - 3 \in 1 .. Len(k) /\ i # 3
      BY <1>4, <1>6, <2>2
    <3>2. (sep \o k)[i].op = "ZADD"
      BY ZenonT(60), <1>4, <1>6, <3>1
    <3>. QED
      BY <3>1, <3>2
  <2>. QED
    BY <2>1, <2>2
<1>8. 3 \in 1 .. Len(sep \o k)
  BY <1>4, <1>6
<1>. QED
  BY ZenonT(60), <1>5, <1>7, <1>8 DEF sep, se, p, k

\* So the callback adds one RPUSH to the connection.
LEMMA StoreTickPushes ==
  ASSUME TypeOK, QueriesKnown, StoreTick
  PROVE  Cardinality(Pushes(wire', Len(wire'))) = Cardinality(Pushes(wire, Len(wire))) + 1
<1>1. ticks # <<>>
  BY DEF StoreTick
<1>2. PICK q \in Keys, e \in Entry :
        q = query[Head(ticks)] /\ e = res[Head(ticks)].data
  BY ZenonT(60), <1>1, HeadTick
<1>. DEFINE cmds == SetThenExpire(q, e) \o PushName(e) \o Rank(e)
<1>3. Send(cmds)
  BY ZenonT(60), <1>2 DEF StoreTick, StoreKey
<1>4. /\ cmds \in Seq(Command) /\ 3 \in 1 .. Len(cmds)
      /\ \A i \in 1 .. Len(cmds) : cmds[i].op = "RPUSH" <=> i = 3
  BY ZenonT(60), StorePushes
<1>. HIDE DEF cmds
<1>5. /\ Len(wire) \in Nat /\ Len(cmds) \in Nat
      /\ Len(wire') = Len(wire) + Len(cmds)
      /\ \A i \in 1 .. Len(wire) : wire'[i] = wire[i]
      /\ \A i \in 1 .. Len(cmds) : wire'[Len(wire) + i] = cmds[i]
  BY ZenonT(60), <1>3, <1>4, SendFacts
<1>. DEFINE new == Len(wire) + 3
<1>6. new \in 1 .. Len(wire') /\ new \notin 1 .. Len(wire) /\ wire'[new].op = "RPUSH"
  BY <1>4, <1>5
<1>7. ASSUME NEW i \in 1 .. Len(wire'), i \notin 1 .. Len(wire), wire'[i].op = "RPUSH"
      PROVE  i = new
  <2>1. i - Len(wire) \in 1 .. Len(cmds) /\ i = Len(wire) + (i - Len(wire))
    BY <1>5, <1>7
  <2>2. cmds[i - Len(wire)].op = "RPUSH"
    BY ZenonT(60), <1>5, <1>7, <2>1
  <2>3. i - Len(wire) = 3
    BY ZenonT(60), <1>4, <2>1, <2>2
  <2>. QED
    BY <2>1, <2>3
<1>8. \A i \in 1 .. Len(wire) : i \in 1 .. Len(wire')
  BY <1>5
<1>. HIDE DEF new
<1>9. /\ Pushes(wire', Len(wire')) = Pushes(wire, Len(wire)) \cup {new}
      /\ new \notin Pushes(wire, Len(wire))
  BY ZenonT(60), <1>5, <1>6, <1>7, <1>8 DEF Pushes
<1>. QED
  BY ZenonT(60), <1>5, <1>9, PushesFinite, FS_AddElement

\* Redis executes the first command: of the RPUSHes up to a command, the
\* others are left.
LEMMA ExecutePushes ==
  ASSUME TypeOK, Execute, NEW n \in 1 .. Len(wire)
  PROVE  Cardinality(Pushes(wire', n - 1)) =
           IF Head(wire).op = "RPUSH" THEN Cardinality(Pushes(wire, n)) - 1
           ELSE Cardinality(Pushes(wire, n))
<1>1. /\ Head(wire) = wire[1]
      /\ Len(wire) \in Nat /\ 1 \in 1 .. Len(wire)
      /\ Len(wire') = Len(wire) - 1
      /\ \A i \in 1 .. Len(wire') : wire'[i] = wire[i + 1]
  BY ZenonT(60), TailFacts
<1>2. n \in Nat /\ n - 1 \in Nat /\ 1 \in 1 .. n
  BY <1>1
<1>. DEFINE left == Pushes(wire', n - 1)
            rest == Pushes(wire, n) \ {1}
            shift == [i \in left |-> i + 1]
<1>3. ASSUME NEW i \in left
      PROVE  i \in Nat /\ shift[i] = i + 1 /\ i + 1 \in rest
  <2>1. i \in 1 .. n - 1 /\ wire'[i].op = "RPUSH"
    BY <1>3 DEF Pushes
  <2>2. i \in Nat /\ i + 1 \in 1 .. n /\ i + 1 # 1 /\ i \in 1 .. Len(wire')
    BY <1>1, <2>1
  <2>3. wire[i + 1].op = "RPUSH"
    BY ZenonT(60), <1>1, <2>1, <2>2
  <2>. QED
    BY <1>3, <2>2, <2>3 DEF Pushes
<1>4. ASSUME NEW j \in rest
      PROVE  \E i \in left : shift[i] = j
  <2>1. j \in 1 .. n /\ j # 1 /\ wire[j].op = "RPUSH"
    BY <1>4 DEF Pushes
  <2>2. j - 1 \in 1 .. n - 1 /\ j - 1 \in 1 .. Len(wire') /\ (j - 1) + 1 = j
    BY <1>1, <2>1
  <2>3. wire'[j - 1].op = "RPUSH"
    BY <1>1, <2>1, <2>2
  <2>4. j - 1 \in left
    BY <2>2, <2>3 DEF Pushes
  <2>. QED
    BY <1>3, <2>2, <2>4
<1>. HIDE DEF left, rest
<1>5. shift \in [left -> rest]
  BY <1>3
<1>6. \A a, b \in left : shift[a] = shift[b] => a = b
  BY <1>3
<1>. HIDE DEF shift
<1>7. shift \in Bijection(left, rest)
  BY SMTT(30), <1>4, <1>5, <1>6 DEF Bijection, Injection, Surjection, IsInjective
<1>8. /\ IsFiniteSet(left)
      /\ IsFiniteSet(Pushes(wire, n)) /\ Cardinality(Pushes(wire, n)) \in Nat
  BY <1>2, PushesFinite DEF left
<1>9. Cardinality(left) = Cardinality(rest)
  BY <1>7, <1>8, FS_Bijection DEF ExistsBijection
<1>10. Cardinality(rest) = IF 1 \in Pushes(wire, n) THEN Cardinality(Pushes(wire, n)) - 1
                           ELSE Cardinality(Pushes(wire, n))
  BY ZenonT(60), <1>8, FS_RemoveElement DEF rest
<1>11. 1 \in Pushes(wire, n) <=> Head(wire).op = "RPUSH"
  BY <1>1, <1>2 DEF Pushes
<1>. QED
  BY <1>9, <1>10, <1>11 DEF left

\* A step of Redis leaves the sum of the names in the list and of those on
\* their way to the position of a command.
LEMMA ExecuteRecords ==
  ASSUME TypeOK, Execute, NEW n \in 1 .. Len(wire)
  PROVE  Len(latest') + Cardinality(Pushes(wire', n - 1))
           = Len(latest) + Cardinality(Pushes(wire, n))
<1>1. latest \in Seq(Artist) /\ Len(latest) \in Nat /\ Len(wire) \in Nat
  BY DEF TypeOK
<1>2. n \in Nat
  BY <1>1
<1>3. Cardinality(Pushes(wire, n)) \in Nat
  BY <1>2, PushesFinite
<1>4. Cardinality(Pushes(wire', n - 1)) =
        IF Head(wire).op = "RPUSH" THEN Cardinality(Pushes(wire, n)) - 1
        ELSE Cardinality(Pushes(wire, n))
  BY ZenonT(60), ExecutePushes
<1>5. CASE ExecRPush
  <2>1. Head(wire).op = "RPUSH" /\ latest' = Append(latest, Head(wire).val)
    BY ZenonT(60), <1>5 DEF ExecRPush, Executes
  <2>2. Len(latest') = Len(latest) + 1
    BY <1>1, <2>1
  <2>. QED
    BY <1>1, <1>3, <1>4, <2>1, <2>2
<1>6. CASE ~ExecRPush
  <2>1. Head(wire).op # "RPUSH" /\ latest' = latest
    BY ZenonT(60), <1>6
       DEF Execute, ExecGet, ExecSet, ExecExpire, ExecZAdd, ExecLRange, Executes, redis
  <2>. QED
    BY <1>4, <2>1
<1>. QED
  BY <1>5, <1>6

\* A loss adds nothing to what is recorded.
LEMMA LossRecords ==
  ASSUME TypeOK, QueriesKnown, Loses
  PROVE  Recorded' \in Nat /\ Recorded' <= Recorded
<1>1. PICK pending \in Seq(Command) : \E n \in 0 .. Len(pending) :
        Pending(pending) /\ Lose(pending, n)
  BY ZenonT(60), LossCases
<1>2. PICK n \in 0 .. Len(pending) : Pending(pending) /\ Lose(pending, n)
  BY ZenonT(60), <1>1
<1>3. /\ n \in Nat /\ Len(wire') = n /\ latest' = latest
      /\ \A i \in 1 .. n : i \in 1 .. Len(pending) /\ wire'[i] = pending[i]
  BY ZenonT(60), <1>2, LoseFacts
<1>4. \A i \in 1 .. Len(pending) :
        pending[i].op = "RPUSH" => i \in 1 .. Len(wire) /\ pending[i] = wire[i]
  <2>1. "RPUSH" \notin {"SET", "EXPIRE"}
    OBVIOUS
  <2>. QED
    BY ZenonT(60), <1>2, <2>1 DEF Pending
<1>5. Pushes(wire', Len(wire')) \subseteq Pushes(wire, Len(wire))
  BY ZenonT(60), <1>3, <1>4 DEF Pushes
<1>6. Len(wire) \in Nat /\ Len(latest) \in Nat
  BY DEF TypeOK
<1>. DEFINE old == Pushes(wire, Len(wire))
            new == Pushes(wire', Len(wire'))
<1>7. /\ IsFiniteSet(old) /\ Cardinality(old) \in Nat
      /\ IsFiniteSet(new) /\ Cardinality(new) \in Nat
  BY ZenonT(60), <1>3, <1>6, PushesFinite
<1>. HIDE DEF old, new
<1>8. new \in SUBSET old
  BY ZenonT(60), <1>5 DEF old, new
<1>9. Cardinality(new) <= Cardinality(old)
  BY <1>7, <1>8, FS_Subset
<1>10. /\ Len(latest) + Cardinality(new) \in Nat
       /\ Len(latest) + Cardinality(new) <= Len(latest) + Cardinality(old)
  BY <1>6, <1>7, <1>9
<1>. QED
  BY ZenonT(60), <1>3, <1>10 DEF Recorded, old, new

(***************************************************************************)
(* What is recorded.                                                       *)
(***************************************************************************)

\* The requests with a fresh answer.
Fetches == {r \in Requests : Fetched(r)}

\* The inductive invariant: PushedOncePerFetch, with the finiteness that the
\* counting needs.
OneEach == IsFiniteSet(Fetches) /\ PushedOncePerFetch

\* Of the steps of a request, the one that sends a fresh answer schedules
\* the callback that records it; no other makes its answer a fresh one.
LEMMA FetchSchedules ==
  ASSUME TypeOK, QueriesKnown, NotYetSent, NEW r \in Requests, Arrive(r) \/ Proceed(r)
  PROVE  \/ ticks' = ticks /\ (Fetched(r)' <=> Fetched(r))
         \/ ticks' = Append(ticks, r) /\ ~Fetched(r) /\ Fetched(r)'
<1>1. ASSUME NEW status, NEW cached, NEW data, Respond(r, status, cached, data),
             status # 200 \/ cached \/ data = Null
      PROVE  ~Fetched(r)'
  <2>1. res'[r] = [status |-> status, cached |-> cached, data |-> data]
    BY <1>1 DEF Respond, TypeOK
  <2>. QED
    BY <1>1, <2>1 DEF Fetched
<1>2. ASSUME pc[r] \in Unsent PROVE ~Fetched(r)
  BY <1>2 DEF NotYetSent, Fetched
<1>3. ASSUME res' = res PROVE Fetched(r)' <=> Fetched(r)
  BY <1>3 DEF Fetched
<1>4. CASE Arrive(r)
  <2>1. ASSUME NEW raw \in RawQueries \cup {Undefined}, Search2Throws(r, raw)
        PROVE  ticks' = ticks /\ (Fetched(r)' <=> Fetched(r))
    <3>1. Respond(r, 500, FALSE, Null) /\ pc[r] = "idle" /\ ticks' = ticks
      BY ZenonT(60), <2>1 DEF Search2Throws, ErrorHandler
    <3>. QED
      BY ZenonT(60), <1>1, <1>2, <3>1 DEF Unsent
  <2>. QED
    BY ZenonT(60), <1>3, <1>4, <2>1 DEF Arrive, Search2, Tags, LatestSearches
<1>5. CASE CacheHit(r)
  <2>1. Respond(r, 200, TRUE, got[r]) /\ pc[r] = "reply" /\ ticks' = ticks
    BY ZenonT(60), <1>5 DEF CacheHit
  <2>. QED
    BY Zenon, <1>1, <1>2, <2>1 DEF Unsent
<1>6. CASE \/ CacheMiss(r) \/ SearchFinds(r) \/ DetailsUnparsable(r) \/ LastfmFails(r)
           \/ TagsFail(r) \/ \E name \in Names \cup {Undefined} : DetailsAnswer(r, name)
  BY ZenonT(60), <1>3, <1>6
     DEF CacheMiss, SearchFinds, DetailsUnparsable, LastfmFails, TagsFail, DetailsAnswer
<1>7. ASSUME NEW notfound \in BOOLEAN, SpotifyRejects(r, notfound)
      PROVE  ticks' = ticks /\ (Fetched(r)' <=> Fetched(r))
  <2>1. /\ Respond(r, 500, FALSE, Null) \/ res' = res
        /\ pc[r] \in {"search", "details"} /\ ticks' = ticks
    BY ZenonT(60), <1>7 DEF SpotifyRejects
  <2>. QED
    BY ZenonT(60), <1>1, <1>2, <1>3, <2>1 DEF Unsent
<1>8. CASE TagsAnswer(r) \/ LatestReply(r)
  <2>1. Respond(r, 200, FALSE, Null) /\ pc[r] \in {"tags", "list"} /\ ticks' = ticks
    BY ZenonT(60), <1>8 DEF TagsAnswer, LatestReply
  <2>. QED
    BY Zenon, <1>1, <1>2, <2>1 DEF Unsent
<1>9. ASSUME NEW found \in BOOLEAN, NEW high \in BOOLEAN, LastfmAnswer(r, found, high)
      PROVE  \/ ticks' = ticks /\ (Fetched(r)' <=> Fetched(r))
             \/ ticks' = Append(ticks, r) /\ ~Fetched(r) /\ Fetched(r)'
  <2>1. CASE HeadersSent(r)
    BY ZenonT(60), <1>3, <1>9, <2>1 DEF LastfmAnswer
  <2>2. CASE ~HeadersSent(r)
    <3>1. ticks' = Append(ticks, r) /\ res[r] = Null
      BY ZenonT(60), <1>9, <2>2 DEF LastfmAnswer, HeadersSent
    <3>2. ticks' = ticks \/ Fetched(r)'
      BY ZenonT(60), <1>9, ProceedOwn DEF Proceed
    <3>3. ticks' # ticks
      <4>1. ticks \in Seq(Requests)
        BY DEF TypeOK
      <4>. QED
        BY <3>1, <4>1
    <3>. QED
      BY SMTT(30), <3>1, <3>2, <3>3 DEF Fetched
  <2>. QED
    BY <2>1, <2>2
<1>. QED
  BY ZenonT(60), <1>4, <1>5, <1>6, <1>7, <1>8, <1>9 DEF Proceed

\* A step of a request sends no RPUSH.
LEMMA RequestPushes ==
  ASSUME TypeOK, NEW r \in Requests, Arrive(r) \/ Proceed(r)
  PROVE  /\ Pushes(wire', Len(wire')) = Pushes(wire, Len(wire))
         /\ latest' = latest /\ cut' = cut
<1>1. Pushes(wire', Len(wire')) = Pushes(wire, Len(wire))
  <2>1. ASSUME NEW raw \in RawQueries, Search2(r, raw)
        PROVE  Pushes(wire', Len(wire')) = Pushes(wire, Len(wire))
    <3>. DEFINE c == Get(r, Normalise[raw])
    <3>1. Normalise[raw] \in Keys
      BY <2>1, ConstantsAssumption DEF Search2
    <3>2. c \in Command /\ c.op = "GET" /\ Send(<<c>>)
      BY <2>1, <3>1, CommandTypes DEF Get, Search2
    <3>. HIDE DEF c
    <3>. QED
      BY ZenonT(60), <3>2, SingleCommand, SendNoPush
  <2>2. CASE LatestSearches(r)
    <3>. DEFINE c == LRangeOf(r)
    <3>1. c \in Command /\ c.op = "LRANGE" /\ Send(<<c>>)
      BY <2>2, CommandTypes DEF LRangeOf, LatestSearches
    <3>. HIDE DEF c
    <3>. QED
      BY ZenonT(60), <3>1, SingleCommand, SendNoPush
  <2>3. ASSUME wire' = wire PROVE Pushes(wire', Len(wire')) = Pushes(wire, Len(wire))
    BY <2>3
  <2>4. Proceed(r) => wire' = wire
    BY ZenonT(60)
       DEF Proceed, CacheHit, CacheMiss, SearchFinds, DetailsAnswer,
           DetailsUnparsable, SpotifyRejects, LastfmAnswer, LastfmFails,
           TagsAnswer, TagsFail, LatestReply
  <2>. QED
    BY ZenonT(60), <2>1, <2>2, <2>3, <2>4 DEF Arrive, Tags, Search2Throws
<1>2. latest' = latest /\ cut' = cut
  <2>1. CASE Arrive(r)
    BY ZenonT(60), <2>1
       DEF Arrive, Search2, Search2Throws, Tags, LatestSearches, redis, history
  <2>2. CASE Proceed(r)
    BY ZenonT(60), <2>2
       DEF Proceed, CacheHit, CacheMiss, SearchFinds, DetailsAnswer,
           DetailsUnparsable, SpotifyRejects, LastfmAnswer, LastfmFails,
           TagsAnswer, TagsFail, LatestReply, redis, history
  <2>. QED
    BY <2>1, <2>2
<1>. QED
  BY <1>1, <1>2

\* A step of a request records nothing yet; if it makes an answer a fresh
\* one, it owes one RPUSH.
LEMMA RequestRecorded ==
  ASSUME Safe, OneEach, NEW r \in Requests, Arrive(r) \/ Proceed(r)
  PROVE  OneEach'
<1>1. TypeOK /\ QueriesKnown /\ NotYetSent
  BY DEF Safe
<1>2. Recorded' = Recorded /\ cut' = cut
  BY ZenonT(60), <1>1, RequestPushes DEF Recorded
<1>3. \A x \in Requests \ {r} : Fetched(x)' <=> Fetched(x)
  BY <1>1, OthersUntouched DEF Fetched
<1>4. ticks \in Seq(Requests) /\ IsFiniteSet(Fetches) /\ Cardinality(Fetches) \in Nat
  BY <1>1, FS_CardinalityType DEF TypeOK, OneEach
<1>5. CASE ticks' = ticks /\ (Fetched(r)' <=> Fetched(r))
  <2>1. Fetches' = Fetches
    BY <1>3, <1>5 DEF Fetches
  <2>. QED
    BY ZenonT(60), <1>2, <1>5, <2>1 DEF OneEach, PushedOncePerFetch, Fetches
<1>6. CASE ticks' = Append(ticks, r) /\ ~Fetched(r) /\ Fetched(r)'
  <2>1. Fetches' = Fetches \cup {r} /\ r \notin Fetches
    BY <1>3, <1>6 DEF Fetches
  <2>2. IsFiniteSet(Fetches') /\ Cardinality(Fetches') = Cardinality(Fetches) + 1
    BY <1>4, <2>1, FS_AddElement
  <2>3. Len(ticks') = Len(ticks) + 1 /\ Len(ticks) \in Nat
    BY <1>4, <1>6
  <2>4. Cardinality(Fetches') - Len(ticks') = Cardinality(Fetches) - Len(ticks)
    BY <1>4, <2>2, <2>3
  <2>. QED
    BY ZenonT(60), <1>2, <2>2, <2>4 DEF OneEach, PushedOncePerFetch, Fetches
<1>. QED
  BY <1>1, <1>5, <1>6, FetchSchedules

\* The callback turns the debt into an RPUSH, and Redis that into a name of
\* the list; a loss takes away RPUSHes and the callbacks that would send one.
LEMMA BackgroundRecorded ==
  ASSUME Safe, OneEach, Background
  PROVE  OneEach'
<1>1. TypeOK /\ QueriesKnown
  BY DEF Safe
<1>2. Fetches' = Fetches /\ IsFiniteSet(Fetches)
  BY BackgroundKeeps DEF Fetches, Fetched, OneEach
<1>3. /\ wire \in Seq(Command) /\ latest \in Seq(Artist) /\ ticks \in Seq(Requests)
      /\ Len(wire) \in Nat /\ Len(latest) \in Nat /\ Len(ticks) \in Nat
      /\ Cardinality(Fetches) \in Nat
  BY SMTT(30), <1>1, <1>2, FS_CardinalityType DEF TypeOK
<1>. DEFINE new == Pushes(wire', Len(wire'))
            old == Pushes(wire, Len(wire))
            owed == Cardinality(Fetches) - Len(ticks)
            owes == Cardinality(Fetches) - Len(ticks')
<1>4. SUFFICES Recorded' <= owes /\ (~cut' => Recorded' = owes)
  BY ZenonT(60), <1>2 DEF OneEach, PushedOncePerFetch, Fetches
<1>5. Recorded <= owed /\ (~cut => Recorded = owed)
  BY ZenonT(60) DEF OneEach, PushedOncePerFetch, Fetches
<1>6. Recorded \in Nat /\ Cardinality(old) \in Nat
  BY SMTT(30), <1>1, <1>3, RecordedNat, PushesFinite
<1>7. Recorded = Len(latest) + Cardinality(old) /\ Recorded' = Len(latest') + Cardinality(new)
  BY ZenonT(60) DEF Recorded
<1>. HIDE DEF new, old
<1>8. CASE StoreTick
  <2>1. cut' = cut /\ latest' = latest /\ ticks # <<>> /\ ticks' = Tail(ticks)
    BY <1>8 DEF StoreTick, redis
  <2>2. Len(ticks') = Len(ticks) - 1
    BY <1>3, <2>1, HeadTailProperties
  <2>3. Cardinality(new) = Cardinality(old) + 1
    BY ZenonT(60), <1>1, <1>8, StoreTickPushes DEF new, old
  <2>4. Recorded' = Recorded + 1
    BY SMTT(30), <1>3, <1>6, <1>7, <2>1, <2>3
  <2>5. owes = owed + 1 /\ owed \in Int
    BY <1>3, <2>2
  <2>. HIDE DEF owes, owed
  <2>. QED
    BY SMTT(30), <1>5, <1>6, <2>1, <2>4, <2>5
<1>9. CASE Execute
  <2>1. cut' = cut /\ ticks' = ticks
    BY ZenonT(60), <1>9
       DEF Execute, ExecGet, ExecSet, ExecExpire, ExecRPush, ExecZAdd, ExecLRange,
           server, history
  <2>2. Len(wire) \in 1 .. Len(wire) /\ Len(wire') = Len(wire) - 1
    <3>1. 1 \in 1 .. Len(wire) /\ Len(wire') = Len(wire) - 1
      BY ZenonT(60), <1>1, <1>9, TailFacts
    <3>. QED
      BY <1>3, <3>1
  <2>3. Len(latest') + Cardinality(Pushes(wire', Len(wire) - 1))
          = Len(latest) + Cardinality(Pushes(wire, Len(wire)))
    BY ZenonT(60), <1>1, <1>9, <2>2, ExecuteRecords
  <2>4. Recorded' = Recorded
    BY ZenonT(60), <2>2, <2>3 DEF Recorded
  <2>. QED
    BY ZenonT(60), <1>5, <2>1, <2>4
<1>10. CASE Loses
  <2>1. Recorded' \in Nat /\ Recorded' <= Recorded
    BY ZenonT(60), <1>1, <1>10, LossRecords
  <2>2. cut' = TRUE
    BY <1>10 DEF Loses, StoreTickThrows, Fault, ConnectionLost, ConnectionLostCrash,
                 Kill, Crash, Lose
  <2>3. Len(ticks') = Len(ticks) \/ Len(ticks') = 0
    <3>1. ticks' = ticks \/ ticks' = <<>>
      BY <1>10 DEF Loses, StoreTickThrows, Fault, ConnectionLost, ConnectionLostCrash,
                   Kill, Crash
    <3>. QED
      BY <3>1
  <2>4. owed \in Int /\ owes \in Int /\ owed <= owes
    BY <1>3, <2>3
  <2>. HIDE DEF owed, owes
  <2>. QED
    BY SMTT(30), <1>5, <1>6, <2>1, <2>2, <2>4
<1>11. CASE (\E q \in Keys : KeyExpires(q)) \/ Restart \/ UNCHANGED vars
  <2>1. wire' = wire /\ latest' = latest /\ ticks' = ticks /\ cut' = cut
    BY ZenonT(60), <1>11 DEF KeyExpires, Restart, vars, server, redis, history
  <2>2. Recorded' = Recorded
    BY ZenonT(60), <2>1 DEF Recorded
  <2>. QED
    BY ZenonT(60), <1>5, <2>1, <2>2
<1>. QED
  BY ZenonT(60), <1>8, <1>9, <1>10, <1>11 DEF Background, Callback, Loses

\* Every fresh answer is recorded at most once in latestsearches, counting
\* the RPUSHes on their way, and exactly once until a command is lost; a hit
\* of the cache is not recorded (api.js:121-131).
THEOREM FetchesRecordedOnce == Spec => []PushedOncePerFetch
<1>1. Init => OneEach
  <2>. SUFFICES ASSUME Init PROVE OneEach
    OBVIOUS
  <2>1. Fetches = {} /\ Pushes(wire, Len(wire)) = {} /\ Len(latest) = 0 /\ Len(ticks) = 0
    BY DEF Init, Fetches, Fetched, Pushes
  <2>2. /\ IsFiniteSet(Fetches) /\ Cardinality(Fetches) = 0
        /\ Cardinality(Pushes(wire, Len(wire))) = 0
    BY ZenonT(60), <2>1, FS_EmptySet
  <2>3. Recorded = 0 /\ Cardinality(Fetches) - Len(ticks) = 0
    BY <2>1, <2>2 DEF Recorded
  <2>. QED
    BY <2>2, <2>3 DEF OneEach, PushedOncePerFetch, Fetches
<1>2. Safe /\ OneEach /\ [Next]_vars => OneEach'
  BY StepCases, RequestRecorded, BackgroundRecorded
<1>3. OneEach => PushedOncePerFetch
  BY DEF OneEach
<1>. QED
  BY <1>1, <1>2, <1>3, SafeAlways, PTL DEF Spec

(***************************************************************************)
(* What is shown.                                                          *)
(***************************************************************************)

\* A request that has arrived keeps what it is due, and none of its later
\* steps makes it wait for the list.
LEMMA ListWaits ==
  ASSUME TypeOK, QueriesKnown, NotYetSent, [Next]_vars,
         NEW x \in Requests, pc[x] # "idle"
  PROVE  /\ pc'[x] # "idle" /\ due'[x] = due[x]
         /\ pc'[x] = "lrange" => pc[x] = "lrange"
<1>0. pc'[x] # "idle"
  BY ZenonT(60), Final
<1>1. CASE Background
  <2>1. due' = due
    BY ZenonT(60), <1>1
       DEF Background, Callback, StoreTick, StoreTickThrows, Execute, ExecGet, ExecSet,
           ExecExpire, ExecRPush, ExecZAdd, ExecLRange, KeyExpires, Fault,
           ConnectionLost, ConnectionLostCrash, Kill, Crash, Lose, Restart, history, vars
  <2>. QED
    BY SMTT(30), <1>0, <1>1, <2>1, BackgroundSteps
<1>2. ASSUME NEW r \in Requests, Arrive(r)
      PROVE  pc'[x] = pc[x] /\ due'[x] = due[x]
  <2>1. x # r
    BY ZenonT(60), <1>2, ArriveOwn
  <2>2. due' = due \/ due' = [due EXCEPT ![r] = Recorded]
    BY ZenonT(60), <1>2
       DEF Arrive, Search2, Search2Throws, Tags, LatestSearches, history
  <2>3. pc'[x] = pc[x]
    BY ZenonT(60), <1>2, <2>1, OthersUntouched
  <2>. QED
    BY SMTT(30), <2>1, <2>2, <2>3 DEF TypeOK
<1>3. ASSUME NEW r \in Requests, Proceed(r)
      PROVE  (pc'[x] = "lrange" => pc[x] = "lrange") /\ due' = due
  <2>1. due' = due
    BY ZenonT(60), <1>3
       DEF Proceed, CacheHit, CacheMiss, SearchFinds, DetailsAnswer,
           DetailsUnparsable, SpotifyRejects, LastfmAnswer, LastfmFails,
           TagsAnswer, TagsFail, LatestReply, history
  <2>2. CASE x # r
    BY ZenonT(60), <1>3, <2>1, <2>2, OthersUntouched
  <2>3. CASE x = r
    <3>1. \E step \in Steps \ {"lrange"} : Goto(r, step)
      BY <1>3
         DEF Proceed, CacheHit, CacheMiss, SearchFinds, DetailsAnswer,
             DetailsUnparsable, SpotifyRejects, LastfmAnswer, LastfmFails,
             TagsAnswer, TagsFail, LatestReply, Steps
    <3>2. PICK step \in Steps \ {"lrange"} : pc' = [pc EXCEPT ![r] = step]
      BY ZenonT(60), <3>1 DEF Goto
    <3>3. pc'[r] = step
      BY ZenonT(60), <3>2, TypeFacts
    <3>. QED
      BY SMTT(30), <2>1, <2>3, <3>3
  <2>. QED
    BY SMTT(30), <2>2, <2>3
<1>. QED
  BY ZenonT(60), <1>0, <1>1, <1>2, <1>3, StepCases

\* ListsKnown of one command.
ListKnown(i) ==
    wire[i].op = "LRANGE" =>
      LET r == wire[i].req IN
      /\ pc[r] # "idle"
      /\ pc[r] = "lrange" =>
           due[r] = Len(latest) + Cardinality(Pushes(wire, i - 1))

\* An LRANGE names the request that made it.
LEMMA ListRequest ==
  ASSUME NEW c \in Command, c.op = "LRANGE"
  PROVE  c.req \in Requests
  BY DEF Command

\* A command stays known as long as it, the commands ahead of it and the list
\* are left alone.
LEMMA ListKept ==
  ASSUME Safe, ListsKnown, [Next]_vars, latest' = latest,
         NEW i \in 1 .. Len(wire), \A j \in 1 .. Len(wire) : wire'[j] = wire[j]
  PROVE  ListKnown(i)'
<1>1. TypeOK /\ QueriesKnown /\ NotYetSent
  BY DEF Safe
<1>. SUFFICES ASSUME wire'[i].op = "LRANGE"
              PROVE  LET r == wire'[i].req
                     IN  /\ pc'[r] # "idle"
                         /\ pc'[r] = "lrange" =>
                              due'[r] = Len(latest') + Cardinality(Pushes(wire', i - 1))
  BY ZenonT(60) DEF ListKnown
<1>2. wire'[i] = wire[i] /\ wire[i] \in Command /\ wire[i].op = "LRANGE"
  BY ZenonT(60), <1>1, TypeFacts, ElementCommand
<1>. DEFINE r == wire[i].req
<1>3. r \in Requests
  BY ZenonT(60), <1>2, ListRequest
<1>4. /\ pc[r] # "idle"
      /\ pc[r] = "lrange" => due[r] = Len(latest) + Cardinality(Pushes(wire, i - 1))
  BY ZenonT(60), <1>2 DEF ListsKnown
<1>. HIDE DEF r
<1>5. /\ pc'[r] # "idle" /\ due'[r] = due[r]
      /\ pc'[r] = "lrange" => pc[r] = "lrange"
  BY ZenonT(60), <1>1, <1>3, <1>4, ListWaits
<1>6. Pushes(wire', i - 1) = Pushes(wire, i - 1)
  <2>1. \A j \in 1 .. i - 1 : j \in 1 .. Len(wire)
    BY SMTT(30), <1>1 DEF TypeOK
  <2>2. \A j \in 1 .. i - 1 : wire'[j] = wire[j]
    BY ZenonT(60), <2>1
  <2>. QED
    BY ZenonT(60), <2>2, PrefixPushes
<1>. QED
  BY ZenonT(60), <1>2, <1>4, <1>5, <1>6 DEF r

\* New commands that are no LRANGE leave ListsKnown as it is.
LEMMA SendNoList ==
  ASSUME Safe, ListsKnown, [Next]_vars, latest' = latest,
         NEW cmds \in Seq(Command), Send(cmds),
         \A i \in 1 .. Len(cmds) : cmds[i].op # "LRANGE"
  PROVE  ListsKnown'
<1>1. TypeOK
  BY DEF Safe
<1>2. /\ Len(wire) \in Nat /\ Len(cmds) \in Nat
      /\ Len(wire') = Len(wire) + Len(cmds)
      /\ \A i \in 1 .. Len(wire) : wire'[i] = wire[i]
      /\ \A i \in 1 .. Len(cmds) : wire'[Len(wire) + i] = cmds[i]
  BY ZenonT(60), <1>1, SendFacts
<1>3. ASSUME NEW i \in 1 .. Len(wire')
      PROVE  ListKnown(i)'
  <2>1. CASE i \in 1 .. Len(wire)
    BY ZenonT(60), <1>2, <2>1, ListKept
  <2>2. CASE i \notin 1 .. Len(wire)
    <3>1. i - Len(wire) \in 1 .. Len(cmds) /\ i = Len(wire) + (i - Len(wire))
      BY <1>2, <2>2
    <3>2. wire'[i].op # "LRANGE"
      BY ZenonT(60), <1>2, <3>1
    <3>. QED
      BY ZenonT(60), <3>2 DEF ListKnown
  <2>. QED
    BY <2>1, <2>2
<1>. QED
  BY ZenonT(60), <1>3 DEF ListsKnown, ListKnown

\* A request for the latest searches is due what is recorded by then.
LEMMA AskForList ==
  ASSUME Safe, ListsKnown, NEW r \in Requests, LatestSearches(r)
  PROVE  ListsKnown'
<1>1. TypeOK
  BY DEF Safe
<1>2. [Next]_vars /\ latest' = latest
  BY ZenonT(60) DEF Next, Arrive, LatestSearches, redis
<1>. DEFINE c == LRangeOf(r)
<1>3. c \in Command /\ c.req = r /\ Send(<<c>>)
  BY SMTT(30), CommandTypes DEF LRangeOf, LatestSearches
<1>4. pc'[r] = "lrange" /\ due'[r] = Recorded
  BY <1>1 DEF LatestSearches, Goto, TypeOK
<1>. HIDE DEF c
<1>5. <<c>> \in Seq(Command) /\ Len(<<c>>) = 1 /\ <<c>>[1] = c /\ 1 \in 1 .. Len(<<c>>)
  BY ZenonT(60), <1>3, SingleCommand
<1>6. /\ Len(wire) \in Nat /\ Len(wire') = Len(wire) + Len(<<c>>)
      /\ \A i \in 1 .. Len(wire) : wire'[i] = wire[i]
      /\ wire'[Len(wire) + 1] = c
  <2>. DEFINE cs == <<c>>
  <2>1. cs \in Seq(Command) /\ Send(cs) /\ cs[1] = c /\ 1 \in 1 .. Len(cs)
    BY ZenonT(60), <1>3, <1>5
  <2>. HIDE DEF cs
  <2>2. /\ Len(wire) \in Nat /\ Len(wire') = Len(wire) + Len(cs)
        /\ \A i \in 1 .. Len(wire) : wire'[i] = wire[i]
        /\ \A i \in 1 .. Len(cs) : wire'[Len(wire) + i] = cs[i]
    BY ZenonT(60), <1>1, <2>1, SendFacts
  <2>. QED
    BY ZenonT(60), <2>1, <2>2 DEF cs
<1>7. ASSUME NEW i \in 1 .. Len(wire')
      PROVE  ListKnown(i)'
  <2>1. CASE i \in 1 .. Len(wire)
    BY ZenonT(60), <1>2, <1>6, <2>1, ListKept
  <2>2. CASE i \notin 1 .. Len(wire)
    <3>1. i = Len(wire) + 1 /\ i - 1 = Len(wire)
      BY SMTT(30), <1>5, <1>6, <2>2
    <3>2. Pushes(wire', Len(wire)) = Pushes(wire, Len(wire))
      BY ZenonT(60), <1>6, PrefixPushes
    <3>3. /\ wire'[i].req = r
          /\ due'[r] = Len(latest') + Cardinality(Pushes(wire', i - 1))
      BY ZenonT(60), <1>2, <1>3, <1>4, <1>6, <3>1, <3>2 DEF Recorded
    <3>4. pc'[r] # "idle"
      BY <1>4
    <3>. QED
      BY ZenonT(60), <3>3, <3>4 DEF ListKnown
  <2>. QED
    BY <2>1, <2>2
<1>. QED
  BY ZenonT(60), <1>7 DEF ListsKnown, ListKnown

\* No step but an RPUSH touches the list, which only grows.
LEMMA LatestGrows ==
  ASSUME TypeOK, [Next]_vars
  PROVE  /\ ExecRPush \/ latest' = latest
         /\ Len(latest) \in Nat /\ Len(latest') \in Nat /\ Len(latest) <= Len(latest')
         /\ \A i \in 1 .. Len(latest) : latest'[i] = latest[i]
<1>1. ExecRPush \/ latest' = latest
  <2>1. ASSUME NEW r \in Requests, Arrive(r) \/ Proceed(r)
        PROVE  latest' = latest
    BY ZenonT(60), <2>1, RequestPushes
  <2>2. CASE Background
    BY ZenonT(60), <2>2
       DEF Background, Callback, StoreTick, StoreTickThrows, Execute, ExecGet, ExecSet,
           ExecExpire, ExecZAdd, ExecLRange, KeyExpires, Fault, ConnectionLost,
           ConnectionLostCrash, Kill, Crash, Lose, Restart, redis, vars
  <2>. QED
    BY ZenonT(60), <2>1, <2>2, StepCases
<1>2. latest \in Seq(Artist)
  BY DEF TypeOK
<1>3. CASE ExecRPush
  <2>1. latest' = Append(latest, Head(wire).val)
    BY <1>3 DEF ExecRPush
  <2>. QED
    BY <1>1, <1>2, <2>1
<1>4. CASE latest' = latest
  BY <1>1, <1>2, <1>4
<1>. QED
  BY <1>1, <1>3, <1>4

\* ListsKnown is kept.
LEMMA ListsKnownStep ==
  ASSUME Safe, ListsKnown, [Next]_vars
  PROVE  ListsKnown'
<1>1. TypeOK /\ QueriesKnown /\ NotYetSent
  BY DEF Safe
<1>2. ExecRPush \/ latest' = latest
  BY ZenonT(60), <1>1, LatestGrows
<1>3. CASE wire' = wire
  <2>1. latest' = latest
    <3>1. wire \in Seq(Command)
      BY <1>1 DEF TypeOK
    <3>2. ASSUME ExecRPush PROVE FALSE
      <4>1. Len(wire) \in Nat /\ Len(wire') = Len(wire) - 1
        BY ZenonT(60), <1>1, <3>2, TailFacts DEF Execute
      <4>. QED
        BY <1>3, <4>1
    <3>. QED
      BY ZenonT(60), <1>2, <3>2
  <2>2. \A i \in 1 .. Len(wire') : ListKnown(i)'
    BY ZenonT(60), <1>3, <2>1, ListKept
  <2>. QED
    BY ZenonT(60), <2>2 DEF ListsKnown, ListKnown
<1>4. ASSUME NEW r \in Requests, NEW raw \in RawQueries, Search2(r, raw)
      PROVE  ListsKnown'
  <2>. DEFINE c == Get(r, Normalise[raw])
              cs == <<c>>
  <2>1. Normalise[raw] \in Keys
    BY SMTT(30), <1>4, ConstantsAssumption DEF Search2
  <2>2. c \in Command /\ c.op = "GET" /\ Send(<<c>>)
    BY <1>4, <2>1, CommandTypes DEF Get, Search2
  <2>3. latest' = latest
    BY ZenonT(60), <1>4 DEF Search2, redis
  <2>. HIDE DEF c
  <2>4. cs \in Seq(Command) /\ \A i \in 1 .. Len(cs) : cs[i].op # "LRANGE"
    BY ZenonT(60), <2>2, SingleCommand
  <2>5. Send(cs)
    BY <2>2
  <2>. HIDE DEF cs
  <2>. QED
    BY ZenonT(60), <2>3, <2>4, <2>5, SendNoList
<1>5. ASSUME NEW r \in Requests, LatestSearches(r)
      PROVE  ListsKnown'
  BY ZenonT(60), <1>5, AskForList
<1>6. CASE StoreTick
  <2>1. PICK q \in Keys, cmds \in Seq(Command) :
          /\ Send(cmds)
          /\ cmds[1].op = "SET"
          /\ cmds[2] = Expire(q)
          /\ \A i \in 3 .. Len(cmds) : cmds[i].op \in {"RPUSH", "ZADD"}
    BY ZenonT(60), <1>1, <1>6, StoreTickFacts
  <2>2. ASSUME NEW i \in 1 .. Len(cmds) PROVE cmds[i].op # "LRANGE"
    <3>1. i = 1 \/ i = 2 \/ i \in 3 .. Len(cmds)
      OBVIOUS
    <3>. QED
      BY <2>1, <3>1 DEF Expire
  <2>3. latest' = latest
    BY <1>6 DEF StoreTick, redis
  <2>. QED
    BY ZenonT(60), <2>1, <2>2, <2>3, SendNoList
<1>7. CASE Execute
  <2>1. /\ Len(wire) \in Nat /\ Len(wire') = Len(wire) - 1
        /\ \A i \in 1 .. Len(wire') : wire'[i] = wire[i + 1]
    BY ZenonT(60), <1>1, <1>7, TailFacts
  <2>2. ASSUME NEW i \in 1 .. Len(wire'), wire'[i].op = "LRANGE"
        PROVE  LET r == wire'[i].req
               IN  /\ pc'[r] # "idle"
                   /\ pc'[r] = "lrange" =>
                        due'[r] = Len(latest') + Cardinality(Pushes(wire', i - 1))
    <3>1. i + 1 \in 1 .. Len(wire) /\ i \in 1 .. Len(wire) /\ (i + 1) - 1 = i
      BY <2>1
    <3>. DEFINE c == wire[i + 1]
                r == c.req
    <3>2. wire'[i] = c /\ c \in Command /\ c.op = "LRANGE"
      BY ZenonT(60), <1>1, <2>1, <2>2, <3>1, TypeFacts, ElementCommand
    <3>3. /\ pc[r] # "idle"
          /\ pc[r] = "lrange" => due[r] = Len(latest) + Cardinality(Pushes(wire, i))
      BY <3>1, <3>2 DEF ListsKnown
    <3>. HIDE DEF c
    <3>4. r \in Requests
      BY ZenonT(60), <3>2, ListRequest
    <3>. HIDE DEF r
    <3>5. /\ pc'[r] # "idle" /\ due'[r] = due[r]
          /\ pc'[r] = "lrange" => pc[r] = "lrange"
      BY ZenonT(60), <1>1, <3>3, <3>4, ListWaits
    <3>6. Len(latest') + Cardinality(Pushes(wire', i - 1))
            = Len(latest) + Cardinality(Pushes(wire, i))
      BY ZenonT(60), <1>1, <1>7, <3>1, ExecuteRecords
    <3>. QED
      BY ZenonT(60), <3>2, <3>3, <3>5, <3>6 DEF r
  <2>. QED
    BY ZenonT(60), <2>2 DEF ListsKnown
<1>8. CASE Loses
  <2>1. PICK pending \in Seq(Command) : \E n \in 0 .. Len(pending) :
          Pending(pending) /\ Lose(pending, n)
    BY ZenonT(60), <1>1, <1>8, LossCases
  <2>2. PICK n \in 0 .. Len(pending) : Pending(pending) /\ Lose(pending, n)
    BY ZenonT(60), <2>1
  <2>3. /\ Len(wire') = n
        /\ \A i \in 1 .. n : i \in 1 .. Len(pending) /\ wire'[i] = pending[i]
    BY ZenonT(60), <2>2, LoseFacts
  <2>4. "LRANGE" \notin {"SET", "EXPIRE"}
    OBVIOUS
  <2>5. ASSUME NEW i \in 1 .. Len(wire'), wire'[i].op = "LRANGE"
        PROVE  pc'[wire'[i].req] # "idle" /\ pc'[wire'[i].req] # "lrange"
    <3>1. i \in 1 .. Len(wire) /\ wire'[i] = wire[i]
      BY ZenonT(60), <2>2, <2>3, <2>4, <2>5 DEF Pending
    <3>. DEFINE r == wire[i].req
    <3>2. wire[i] \in Command /\ wire[i].op = "LRANGE"
      BY ZenonT(60), <1>1, <2>5, <3>1, TypeFacts, ElementCommand
    <3>3. r \in Requests /\ pc[r] # "idle"
      BY ZenonT(60), <3>1, <3>2, ListRequest DEF ListsKnown
    <3>. HIDE DEF r
    <3>4. pc'[r] # "idle"
      BY ZenonT(60), <1>1, <3>3, ListWaits
    <3>5. pc'[r] # "lrange"
      <4>1. ASSUME NEW some, NEW m, Crash(some, m)
            PROVE  pc'[r] # "lrange"
        BY SMTT(30), <3>3, <4>1 DEF Crash, Waiting
      <4>2. CASE ConnectionLost
        BY <3>3, <4>2 DEF ConnectionLost
      <4>. QED
        BY ZenonT(60), <1>8, <4>1, <4>2
           DEF Loses, StoreTickThrows, Fault, ConnectionLostCrash, Kill
    <3>. QED
      BY ZenonT(60), <3>1, <3>4, <3>5 DEF r
  <2>. QED
    BY ZenonT(60), <2>5 DEF ListsKnown
<1>9. CASE \E q \in Keys : KeyExpires(q)
  <2>1. wire' = wire
    BY SMTT(30), <1>9 DEF KeyExpires
  <2>. QED
    BY <1>3, <2>1
<1>. QED
  BY ZenonT(60), <1>3, <1>4, <1>5, <1>6, <1>7, <1>8, <1>9, WireCases

\* LRANGE -Shown -1 gives the end of a list, and all of a short one.
LEMMA LRangeIsEnd ==
  ASSUME NEW list \in Seq(Artist)
  PROVE  LET seen == LastShown(list)
         IN  /\ Len(seen) = IF Len(list) < Shown THEN Len(list) ELSE Shown
             /\ \A i \in 1 .. Len(seen) : seen[i] = list[Len(list) - Len(seen) + i]
<1>. DEFINE from == Len(list) - Shown
            lo == IF from < 0 THEN 0 ELSE from
            seen == LastShown(list)
<1>1. Shown \in Nat /\ Shown > 0 /\ Len(list) \in Nat
  BY ConstantsAssumption
<1>2. seen = IF lo > Len(list) - 1 \/ lo >= Len(list)
               THEN <<>> ELSE SubSeq(list, lo + 1, Len(list))
  BY <1>1 DEF LastShown, LRange
<1>3. lo \in Nat /\ lo = IF Len(list) < Shown THEN 0 ELSE Len(list) - Shown
  BY <1>1
<1>. HIDE DEF lo, seen
<1>4. CASE Len(list) = 0
  <2>1. seen = <<>>
    BY SMTT(30), <1>1, <1>2, <1>3, <1>4
  <2>. QED
    BY <1>1, <1>4, <2>1 DEF seen
<1>5. CASE Len(list) # 0
  <2>0. lo < Len(list) /\ ~(lo > Len(list) - 1) /\ ~(lo >= Len(list))
    BY <1>1, <1>3, <1>5
  <2>1. seen = SubSeq(list, lo + 1, Len(list))
    BY ZenonT(60), <1>2, <2>0
  <2>2. /\ Len(SubSeq(list, lo + 1, Len(list))) = Len(list) - lo
        /\ \A i \in 1 .. Len(list) - lo : SubSeq(list, lo + 1, Len(list))[i] = list[lo + i]
    <3>1. \A i \in lo + 1 .. Len(list) : list[i] \in Artist
      BY <1>1, <1>3
    <3>. DEFINE m == lo + 1
                n == Len(list)
    <3>2. m \in Int /\ n \in Int /\ m <= n /\ n - m + 1 = n - lo
      BY <1>1, <1>3, <2>0
    <3>3. \A i \in 1 .. n - lo : m + i - 1 = lo + i
      BY <1>1, <1>3
    <3>. HIDE DEF m, n
    <3>4. /\ Len(SubSeq(list, m, n)) = IF m <= n THEN n - m + 1 ELSE 0
          /\ \A i \in 1 .. n - m + 1 : SubSeq(list, m, n)[i] = list[m + i - 1]
      <4>1. \A i \in m .. n : list[i] \in Artist
        BY <3>1 DEF m, n
      <4>2. m \in Int /\ n \in Int
        BY <3>2
      <4>. QED
        BY <4>1, <4>2, SubSeqProperties
    <3>5. Len(SubSeq(list, m, n)) = n - lo
      BY <3>2, <3>4
    <3>6. \A i \in 1 .. n - lo : SubSeq(list, m, n)[i] = list[lo + i]
      BY ZenonT(60), <3>2, <3>3, <3>4
    <3>. QED
      BY ZenonT(60), <3>5, <3>6 DEF m, n
  <2>3. Len(seen) = Len(list) - lo /\ \A i \in 1 .. Len(seen) : seen[i] = list[lo + i]
    BY Zenon, <2>1, <2>2
  <2>4. lo = Len(list) - Len(seen)
    BY <1>1, <1>3, <2>3
  <2>5. Len(seen) = IF Len(list) < Shown THEN Len(list) ELSE Shown
    BY <1>1, <1>3, <2>3
  <2>. QED
    BY <2>3, <2>4, <2>5 DEF seen
<1>. QED
  BY <1>4, <1>5

\* Only the reply of Redis gives a request its list.
LEMMA ListReplies ==
  ASSUME TypeOK, QueriesKnown, NotYetSent, [Next]_vars,
         NEW r \in Requests, pc'[r] = "list"
  PROVE  \/ pc[r] = "list" /\ listed'[r] = listed[r]
         \/ /\ pc[r] = "lrange" /\ Execute /\ latest' = latest
            /\ Head(wire).op = "LRANGE" /\ Head(wire).req = r
            /\ listed'[r] = LastShown(latest)
<1>1. ASSUME NEW x \in Requests, Arrive(x) \/ Proceed(x)
      PROVE  pc[r] = "list" /\ listed' = listed
  <2>1. listed' = listed
    BY ZenonT(60), <1>1
       DEF Arrive, Search2, Search2Throws, Tags, LatestSearches,
           Proceed, CacheHit, CacheMiss, SearchFinds, DetailsAnswer,
           DetailsUnparsable, SpotifyRejects, LastfmAnswer, LastfmFails,
           TagsAnswer, TagsFail, LatestReply
  <2>2. \E step \in Steps \ {"list"} : Goto(x, step)
    BY <1>1
       DEF Arrive, Search2, Search2Throws, Tags, LatestSearches,
           Proceed, CacheHit, CacheMiss, SearchFinds, DetailsAnswer,
           DetailsUnparsable, SpotifyRejects, LastfmAnswer, LastfmFails,
           TagsAnswer, TagsFail, LatestReply, Steps
  <2>3. x # r
    <3>1. PICK step \in Steps \ {"list"} : pc' = [pc EXCEPT ![x] = step]
      BY ZenonT(60), <2>2 DEF Goto
    <3>2. pc'[x] = step
      BY ZenonT(60), <3>1, TypeFacts
    <3>. QED
      BY <3>2
  <2>. QED
    BY ZenonT(60), <1>1, <2>1, <2>3, OthersUntouched
<1>2. CASE ExecLRange
  <2>. DEFINE x == Head(wire).req
  <2>1. CASE pc[x] = "lrange"
    <3>1. /\ listed' = [listed EXCEPT ![x] = LastShown(latest)]
          /\ pc' = [pc EXCEPT ![x] = "list"]
          /\ latest' = latest /\ Head(wire).op = "LRANGE"
      BY ZenonT(60), <1>2, <2>1 DEF ExecLRange, Executes, Goto, redis
    <3>. QED
      BY <1>2, <2>1, <3>1 DEF Execute, TypeOK
  <2>2. CASE pc[x] # "lrange"
    <3>1. listed' = listed /\ pc' = pc
      BY ZenonT(60), <1>2, <2>2 DEF ExecLRange
    <3>. QED
      BY ZenonT(60), <3>1
  <2>. QED
    BY ZenonT(60), <2>1, <2>2
<1>3. CASE Background /\ ~ExecLRange
  <2>1. listed' = listed
    BY ZenonT(60), <1>3
       DEF Background, Callback, StoreTick, StoreTickThrows, Execute, ExecGet, ExecSet,
           ExecExpire, ExecRPush, ExecZAdd, KeyExpires, Fault, ConnectionLost,
           ConnectionLostCrash, Kill, Crash, Restart, server, vars
  <2>2. pc[r] = "list"
    <3>1. ASSUME NEW some, NEW m, Crash(some, m)
          PROVE  pc[r] = "list"
      BY <3>1 DEF Crash
    <3>2. CASE ExecGet
      BY ZenonT(60), <3>2 DEF ExecGet, Goto, TypeOK
    <3>3. CASE ConnectionLost
      BY <3>3 DEF ConnectionLost
    <3>4. ASSUME pc' = pc PROVE pc[r] = "list"
      BY <3>4
    <3>. QED
      BY ZenonT(60), <1>3, <3>1, <3>2, <3>3, <3>4
         DEF Background, Callback, StoreTick, StoreTickThrows, Execute, ExecSet,
             ExecExpire, ExecRPush, ExecZAdd, KeyExpires, Fault,
             ConnectionLostCrash, Kill, Restart, server, vars
  <2>. QED
    BY <2>1, <2>2
<1>. QED
  BY ZenonT(60), <1>1, <1>2, <1>3, StepCases

\* seen is the end of the first d names of a list: what LatestIsEnd says of one
\* request.
EndOf(list, d, seen) ==
    LET n == IF d < Shown THEN d ELSE Shown
    IN  /\ d <= Len(list)
        /\ Len(seen) = n
        /\ \A i \in 1 .. n : seen[i] = list[d - n + i]

\* The last n of d positions are positions of a list that is no shorter.
LEMMA LastPositions ==
  ASSUME NEW l \in Nat, NEW d \in Nat, d <= l, NEW n \in Nat, n <= d
  PROVE  \A i \in 1 .. n : d - n + i \in 1 .. l
  OBVIOUS

\* What was the end of a part of a list stays so while the list grows.
LEMMA EndStays ==
  ASSUME NEW old, NEW new, Len(old) \in Nat, Len(new) \in Nat, Len(old) <= Len(new),
         \A i \in 1 .. Len(old) : new[i] = old[i],
         NEW d \in Nat, NEW seen, EndOf(old, d, seen)
  PROVE  EndOf(new, d, seen)
<1>. DEFINE n == IF d < Shown THEN d ELSE Shown
<1>1. n \in Nat /\ n <= d
  BY ConstantsAssumption
<1>2. /\ d <= Len(old) /\ Len(seen) = n
      /\ \A i \in 1 .. n : seen[i] = old[d - n + i]
  BY ZenonT(60) DEF EndOf
<1>. HIDE DEF n
<1>3. \A i \in 1 .. n : d - n + i \in 1 .. Len(old)
  BY ZenonT(60), <1>1, <1>2, LastPositions
<1>4. \A i \in 1 .. n : seen[i] = new[d - n + i]
  BY ZenonT(60), <1>2, <1>3
<1>5. d <= Len(new)
  BY <1>2
<1>. QED
  BY ZenonT(60), <1>2, <1>4, <1>5 DEF EndOf, n

\* LatestIsEnd is kept: a list that was given stays the part of latestsearches
\* it was taken from, and one that Redis gives now is what its request is due.
LEMMA LatestIsEndStep ==
  ASSUME Safe, ListsKnown, LatestIsEnd, [Next]_vars
  PROVE  LatestIsEnd'
<1>1. TypeOK /\ QueriesKnown /\ NotYetSent
  BY SMTT(30) DEF Safe
<1>2. latest \in Seq(Artist) /\ due \in [Requests -> Nat]
  BY SMTT(30), <1>1 DEF TypeOK
<1>3. /\ Len(latest) \in Nat /\ Len(latest') \in Nat /\ Len(latest) <= Len(latest')
      /\ \A i \in 1 .. Len(latest) : latest'[i] = latest[i]
  BY ZenonT(60), <1>1, LatestGrows
<1>. SUFFICES ASSUME NEW r \in Requests, pc'[r] = "list"
              PROVE  EndOf(latest', due'[r], listed'[r])
  BY ZenonT(60) DEF LatestIsEnd, EndOf
<1>4. due[r] \in Nat
  BY <1>2
<1>5. CASE pc[r] = "list" /\ listed'[r] = listed[r]
  <2>1. EndOf(latest, due[r], listed[r])
    BY ZenonT(60), <1>5 DEF LatestIsEnd, EndOf
  <2>2. pc[r] # "idle"
    BY <1>5
  <2>3. due'[r] = due[r]
    BY ZenonT(60), <1>1, <2>2, ListWaits
  <2>4. EndOf(latest', due[r], listed[r])
    BY ZenonT(60), <1>3, <1>4, <2>1, EndStays
  <2>. QED
    BY ZenonT(60), <1>5, <2>3, <2>4
<1>6. CASE /\ pc[r] = "lrange" /\ Execute /\ latest' = latest
           /\ Head(wire).op = "LRANGE" /\ Head(wire).req = r
           /\ listed'[r] = LastShown(latest)
  <2>1. pc[r] # "idle"
    BY SMTT(30), <1>6
  <2>2. due'[r] = due[r]
    BY ZenonT(60), <1>1, <2>1, ListWaits
  <2>3. due[r] = Len(latest)
    <3>1. Head(wire) = wire[1] /\ 1 \in 1 .. Len(wire)
      BY ZenonT(60), <1>1, <1>6, TailFacts
    <3>2. due[r] = Len(latest) + Cardinality(Pushes(wire, 1 - 1))
      BY ZenonT(60), <1>6, <3>1 DEF ListsKnown
    <3>3. Pushes(wire, 1 - 1) = {}
      BY DEF Pushes
    <3>4. Cardinality(Pushes(wire, 1 - 1)) = 0
      BY ZenonT(60), <3>3, FS_EmptySet
    <3>. QED
      BY SMTT(30), <1>3, <3>2, <3>4
  <2>4. Len(latest) <= Len(latest)
    BY <1>3
  <2>5. EndOf(latest, Len(latest), LastShown(latest))
    BY ZenonT(60), <1>2, <2>4, LRangeIsEnd DEF EndOf
  <2>. QED
    BY ZenonT(60), <1>6, <2>2, <2>3, <2>5
<1>. QED
  BY ZenonT(60), <1>1, <1>5, <1>6, ListReplies

\* The names a client gets are the last Shown ones that were recorded when
\* they asked, in their order, whatever is recorded, lost or asked meanwhile
\* (api.js:51).
THEOREM LatestAreTheEnd == Spec => []LatestIsEnd
<1>1. Init => ListsKnown /\ LatestIsEnd
  BY DEF Init, ListsKnown, LatestIsEnd
<1>2. Safe /\ (ListsKnown /\ LatestIsEnd) /\ [Next]_vars => (ListsKnown /\ LatestIsEnd)'
  BY ZenonT(60), ListsKnownStep, LatestIsEndStep
<1>. QED
  BY <1>1, <1>2, SafeAlways, PTL DEF Spec

=============================================================================
