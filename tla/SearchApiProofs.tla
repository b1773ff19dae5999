-------------------------- MODULE SearchApiProofs --------------------------
(***************************************************************************)
(* Proofs about SearchApi, for every set of requests, queries and names.   *)
(***************************************************************************)
EXTENDS SearchApi, SequenceTheorems, FiniteSetTheorems, TLAPS

(***************************************************************************)
(* Data.                                                                   *)
(***************************************************************************)

\* The commands api.js sends are commands Redis is modelled for.
LEMMA CommandTypes ==
    /\ \A r \in Requests, q \in Keys : Get(r, q) \in Command
    /\ \A q \in Keys, e \in Entry : Set(q, e) \in Command
    /\ \A q \in Keys : Expire(q) \in Command
    /\ \A n \in Artist : RPush(n) \in Command
    /\ \A e \in Entry : ZAdd(e) \in Command
    /\ \A r \in Requests : LRangeOf(r) \in Command
  BY DEF Command, Get, Set, Expire, RPush, ZAdd, LRangeOf

\* A command is of one of six kinds, each with its own parameters.
LEMMA CommandCases ==
  ASSUME NEW c \in Command
  PROVE  /\ c.op = "GET" => c.req \in Requests /\ c.key \in Keys
         /\ c.op = "SET" => c.key \in Keys /\ c.val \in Entry
         /\ c.op = "EXPIRE" => c.key \in Keys
         /\ c.op = "RPUSH" => c.val \in Artist
         /\ c.op = "ZADD" => c.val \in Entry
         /\ c.op = "LRANGE" => c.req \in Requests
  BY DEF Command

\* What most steps need of the type invariant.
LEMMA TypeFacts ==
  ASSUME TypeOK
  PROVE  /\ wire \in Seq(Command) /\ Len(wire) \in Nat
         /\ dict \in [Keys -> Entry \cup {Null}]
         /\ pc \in [Requests -> Steps]
         /\ query \in [Requests -> Keys \cup {Null, Blank}]
         /\ got \in [Requests -> Entry \cup {Null}]
<1>1. /\ wire \in Seq(Command)
      /\ dict \in [Keys -> Entry \cup {Null}]
      /\ pc \in [Requests -> Steps]
      /\ query \in [Requests -> Keys \cup {Null, Blank}]
      /\ got \in [Requests -> Entry \cup {Null}]
  BY Zenon DEF TypeOK
<1>2. Len(wire) \in Nat
  BY <1>1, LenProperties
<1>. QED
  BY <1>1, <1>2

\* One command as what a call sends.
LEMMA SingleCommand ==
  ASSUME NEW c \in Command
  PROVE  /\ <<c>> \in Seq(Command) /\ Len(<<c>>) = 1 /\ <<c>>[1] = c
         /\ 1 \in 1 .. Len(<<c>>)
         /\ \A k \in 1 .. Len(<<c>>) : <<c>>[k] = c
  OBVIOUS

\* An element of a sequence of commands is a command.
LEMMA ElementCommand ==
  ASSUME NEW s \in Seq(Command), NEW i \in 1 .. Len(s)
  PROVE  s[i] \in Command
  OBVIOUS

\* Positions on the connection after a call: one of the n commands that were
\* there, or one of the m that were sent.
LEMMA OldOrNew ==
  ASSUME NEW n \in Nat, NEW m \in Nat, NEW i \in 1 .. n + m
  PROVE  i \in 1 .. n \/ (i - n \in 1 .. m /\ i = n + (i - n))
  OBVIOUS

\* Positions on the connection: one that is not the first is after it.
LEMMA NotFirst ==
  ASSUME NEW n \in Nat, NEW i \in 1 .. n, i # 1
  PROVE  i \in 2 .. n
  OBVIOUS

\* A position is a natural number.
LEMMA PositionNat ==
  ASSUME NEW n \in Nat, NEW i \in 1 .. n
  PROVE  i \in Nat
  OBVIOUS

\* A position is among those up to it.
LEMMA UpToItself ==
  ASSUME NEW n \in Nat, NEW i \in 1 .. n
  PROVE  i \in 1 .. i
  OBVIOUS

\* A position before another is among those up to it.
LEMMA BeforeIsUpTo ==
  ASSUME NEW n \in Nat, NEW i \in 1 .. n, NEW j \in 1 .. i - 1
  PROVE  j \in 1 .. i
  OBVIOUS

\* A position up to another is one of the sequence.
LEMMA UpTo ==
  ASSUME NEW n \in Nat, NEW i \in 1 .. n, NEW j \in 1 .. i
  PROVE  j \in 1 .. n
  OBVIOUS

\* A position after the first n commands is one of the m sent after them.
LEMMA Beyond ==
  ASSUME NEW n \in Nat, NEW m \in Nat, NEW i \in 1 .. n + m, i \notin 1 .. n
  PROVE  i - n \in 1 .. m /\ i = n + (i - n)
  OBVIOUS

\* The neighbours of a position lead back to it.
LEMMA Neighbours ==
  ASSUME NEW n \in Nat, NEW i \in 1 .. n
  PROVE  (i + 1) - 1 = i /\ (i - 1) + 1 = i
  OBVIOUS

\* A response sent keeps the type of res.
LEMMA RespondType ==
  ASSUME TypeOK, NEW r \in Requests, NEW data \in Entry \cup {Null},
         \/ Respond(r, 200, TRUE, data)
         \/ Respond(r, 200, FALSE, data)
  PROVE  res' \in [Requests -> Response \cup {Null}]
<1>1. PICK resp \in Response : res' = [res EXCEPT ![r] = resp]
  BY ZenonT(60) DEF Respond, Response
<1>. QED
  BY <1>1 DEF TypeOK

\* So does a failure.
LEMMA FailureType ==
  ASSUME TypeOK, NEW r \in Requests, Respond(r, 500, FALSE, Null)
  PROVE  res' \in [Requests -> Response \cup {Null}]
<1>1. PICK resp \in Response : res' = [res EXCEPT ![r] = resp]
  BY ZenonT(60) DEF Respond, Response
<1>. QED
  BY <1>1 DEF TypeOK

\* What a chain has retrieved is an entry.
LEMMA RetrievedType ==
  ASSUME TypeOK, NEW r \in Requests, query[r] \in Keys,
         NEW found \in BOOLEAN, NEW high \in BOOLEAN
  PROVE  RetrievedData(r, found, high) \in Entry
<1>1. spot[r] \in SpotifyPart
  BY DEF TypeOK
<1>2. Asked(r) \in Artist
  BY <1>1 DEF Asked, Artist, SpotifyPart
<1>. QED
  BY <1>1, <1>2 DEF RetrievedData, Entry, SpotifyPart

\* The data of a fresh answer is an entry.
LEMMA FetchedType ==
  ASSUME TypeOK, NEW r \in Requests, Fetched(r)
  PROVE  res[r].data \in Entry
  BY DEF TypeOK, Fetched, Response

\* What is recorded of an entry is an artist.
LEMMA GetNameType ==
  ASSUME NEW e \in Entry
  PROVE  GetName(e) \in Artist
  BY DEF GetName, Entry, Artist

\* The commands the nextTick callback sends.
LEMMA StoreTypes ==
  ASSUME NEW q \in Keys, NEW e \in Entry
  PROVE  /\ SetThenExpire(q, e) \in Seq(Command)
         /\ PushName(e) \in Seq(Command)
         /\ Rank(e) \in Seq(Command)
<1>1. /\ Set(q, e) \in Command
      /\ Expire(q) \in Command
      /\ RPush(GetName(e)) \in Command
      /\ ZAdd(e) \in Command
  BY CommandTypes, GetNameType
<1>. QED
  BY <1>1 DEF SetThenExpire, PushName, Rank

\* The reply to LRANGE is a list of what the list holds.
LEMMA LRangeType ==
  ASSUME NEW list \in Seq(Artist)
  PROVE  LRange(list, -Shown, -1) \in Seq(Artist)
<1>. DEFINE from == Len(list) - Shown
            lo == IF from < 0 THEN 0 ELSE from
<1>1. Shown \in Nat /\ Shown > 0 /\ Len(list) \in Nat
  BY ConstantsAssumption
<1>2. LRange(list, -Shown, -1)
        = IF lo > Len(list) - 1 \/ lo >= Len(list)
            THEN <<>> ELSE SubSeq(list, lo + 1, Len(list))
  BY <1>1 DEF LRange
<1>3. lo \in Nat
  BY <1>1
<1>4. \A i \in lo + 1 .. Len(list) : list[i] \in Artist
  BY <1>1, <1>3
<1>5. SubSeq(list, lo + 1, Len(list)) \in Seq(Artist)
  BY <1>1, <1>3, <1>4, SubSeqProperties
<1>. HIDE DEF lo
<1>6. <<>> \in Seq(Artist)
  OBVIOUS
<1>. QED
  BY ZenonT(60), <1>2, <1>5, <1>6

(***************************************************************************)
(* Types.                                                                  *)
(***************************************************************************)

\* A loss leaves a prefix of what was pending.
LEMMA LoseType ==
  ASSUME TypeOK, NEW pending \in Seq(Command), NEW n \in 0 .. Len(pending),
         Lose(pending, n)
  PROVE  /\ wire' \in Seq(Command)
         /\ cut' \in BOOLEAN /\ warm' \subseteq Requests
         /\ orphans' \subseteq Keys
<1>1. wire' \in Seq(Command)
  BY SubSeqProperties DEF Lose
<1>2. LostExpires(pending, n) \subseteq Keys
  <2>1. \A i \in 1 .. Len(pending) : pending[i].op = "EXPIRE" => pending[i].key \in Keys
    BY ZenonT(60), ElementCommand, CommandCases
  <2>2. \A i \in n + 1 .. Len(pending) : i \in 1 .. Len(pending)
    OBVIOUS
  <2>. QED
    BY ZenonT(60), <2>1, <2>2 DEF LostExpires
<1>3. orphans' = orphans \cup LostExpires(pending, n)
  BY ZenonT(60) DEF Lose
<1>. QED
  BY ZenonT(60), <1>1, <1>2, <1>3 DEF Lose, TypeOK

\* So does the end of the process.
LEMMA CrashType ==
  ASSUME TypeOK, NEW pending \in Seq(Command), NEW n \in 0 .. Len(pending),
         Crash(pending, n), faults' \in 0 .. MaxFaults
  PROVE  TypeOK'
<1>1. /\ wire' \in Seq(Command)
      /\ cut' \in BOOLEAN /\ warm' \subseteq Requests
      /\ orphans' \subseteq Keys
  BY ZenonT(60), LoseType DEF Crash
<1>2. pc' \in [Requests -> Steps]
  BY DEF TypeOK, Crash, Steps
<1>3. ticks' \in Seq(Requests)
  BY DEF Crash
<1>. QED
  BY ZenonT(60), <1>1, <1>2, <1>3 DEF TypeOK, Crash, Lose, redis, keyspace

\* Sending commands keeps the connection a sequence of commands.
LEMMA SendType ==
  ASSUME TypeOK, NEW cmds \in Seq(Command), Send(cmds)
  PROVE  wire' \in Seq(Command)
  BY ConcatProperties DEF TypeOK, Send

\* The command Redis executes, and what is left.
LEMMA ExecutesType ==
  ASSUME TypeOK, NEW op, Executes(op)
  PROVE  Head(wire) \in Command /\ wire' \in Seq(Command)
  BY HeadTailProperties DEF TypeOK, Executes

\* The positions of RPUSHes are finitely many.
LEMMA PushesFinite ==
  ASSUME NEW cmds, NEW n \in Nat
  PROVE  IsFiniteSet(Pushes(cmds, n)) /\ Cardinality(Pushes(cmds, n)) \in Nat
<1>1. IsFiniteSet(1 .. n)
  BY FS_Interval
<1>2. Pushes(cmds, n) \subseteq 1 .. n
  BY DEF Pushes
<1>. QED
  BY <1>1, <1>2, FS_Subset, FS_CardinalityType

\* So are the names recorded.
LEMMA RecordedNat ==
  ASSUME TypeOK
  PROVE  Recorded \in Nat
<1>1. Len(wire) \in Nat /\ Len(latest) \in Nat
  BY DEF TypeOK
<1>2. Cardinality(Pushes(wire, Len(wire))) \in Nat
  BY <1>1, PushesFinite
<1>. QED
  BY <1>1, <1>2 DEF Recorded

\* Every request that arrives keeps the types.
LEMMA ArriveType ==
  ASSUME TypeOK, NEW r \in Requests, Arrive(r)
  PROVE  TypeOK'
<1>. USE DEF Goto, redis, keyspace, history, Steps
<1>1. ASSUME NEW raw \in RawQueries, Search2(r, raw)
      PROVE  TypeOK'
  <2>1. Normalise[raw] \in Keys
    BY <1>1, ConstantsAssumption DEF Search2
  <2>2. <<Get(r, Normalise[raw])>> \in Seq(Command)
    <3>1. Get(r, Normalise[raw]) \in Command
      BY ZenonT(60), <2>1, CommandTypes
    <3>. QED
      BY ZenonT(60), <3>1, SingleCommand
  <2>3. wire' \in Seq(Command)
    BY ZenonT(60), <1>1, <2>2, SendType DEF Search2
  <2>. QED
    BY <1>1, <2>1, <2>3 DEF TypeOK, Search2
<1>2. ASSUME NEW raw \in RawQueries \cup {Undefined}, Search2Throws(r, raw)
      PROVE  TypeOK'
  <2>1. Respond(r, 500, FALSE, Null)
    BY ZenonT(60), <1>2 DEF Search2Throws, ErrorHandler
  <2>2. res' \in [Requests -> Response \cup {Null}]
    BY ZenonT(60), <2>1, FailureType
  <2>. QED
    BY ZenonT(60), <1>2, <2>2 DEF TypeOK, Search2Throws
<1>3. CASE Tags(r)
  BY <1>3 DEF TypeOK, Tags
<1>4. CASE LatestSearches(r)
  <2>1. <<LRangeOf(r)>> \in Seq(Command)
    BY CommandTypes
  <2>2. wire' \in Seq(Command)
    BY ZenonT(60), <1>4, <2>1, SendType DEF LatestSearches
  <2>3. due' \in [Requests -> Nat]
    <3>1. Recorded \in Nat
      BY RecordedNat
    <3>2. due \in [Requests -> Nat] /\ due' = [due EXCEPT ![r] = Recorded]
      BY ZenonT(60), <1>4 DEF TypeOK, LatestSearches
    <3>. QED
      BY ZenonT(60), <3>1, <3>2
  <2>4. pc' \in [Requests -> Steps]
    BY ZenonT(60), <1>4 DEF TypeOK, LatestSearches
  <2>. QED
    BY ZenonT(60), <1>4, <2>2, <2>3, <2>4 DEF TypeOK, LatestSearches
<1>. QED
  BY <1>1, <1>2, <1>3, <1>4 DEF Arrive

\* Every step of a chain keeps the types.
LEMMA ProceedType ==
  ASSUME TypeOK, QueriesKnown, NEW r \in Requests, Proceed(r)
  PROVE  TypeOK'
<1>. USE DEF Goto, redis, keyspace, history, Steps
<1>1. CASE CacheHit(r)
  <2>1. Respond(r, 200, TRUE, got[r])
    BY ZenonT(60), <1>1 DEF CacheHit
  <2>2. got[r] \in Entry \cup {Null}
    BY DEF TypeOK
  <2>3. res' \in [Requests -> Response \cup {Null}]
    BY ZenonT(60), <2>1, <2>2, RespondType
  <2>. QED
    BY ZenonT(60), <1>1, <2>3 DEF TypeOK, CacheHit
<1>2. CASE CacheMiss(r)
  BY <1>2 DEF TypeOK, CacheMiss
<1>3. CASE SearchFinds(r)
  BY <1>3 DEF TypeOK, SearchFinds
<1>4. ASSUME NEW name \in Names \cup {Undefined}, DetailsAnswer(r, name)
      PROVE  TypeOK'
  <2>1. [state |-> "fulfilled", name |-> name] \in SpotifyPart
    BY DEF SpotifyPart
  <2>. QED
    BY <1>4, <2>1 DEF TypeOK, DetailsAnswer
<1>5. CASE DetailsUnparsable(r)
  BY <1>5 DEF TypeOK, DetailsUnparsable
<1>6. ASSUME NEW notfound \in BOOLEAN, SpotifyRejects(r, notfound)
      PROVE  TypeOK'
  <2>1. Respond(r, 500, FALSE, Null) \/ res' = res
    BY ZenonT(60), <1>6 DEF SpotifyRejects
  <2>2. res' \in [Requests -> Response \cup {Null}]
    BY ZenonT(60), <2>1, FailureType DEF TypeOK
  <2>. QED
    BY ZenonT(60), <1>6, <2>2 DEF TypeOK, SpotifyRejects
<1>7. ASSUME NEW found \in BOOLEAN, NEW high \in BOOLEAN,
             LastfmAnswer(r, found, high)
      PROVE  TypeOK'
  <2>1. RetrievedData(r, found, high) \in Entry
    BY <1>7, RetrievedType DEF LastfmAnswer, QueriesKnown, Searching
  <2>2. \/ res' = res /\ ticks' = ticks
        \/ /\ Respond(r, 200, FALSE, RetrievedData(r, found, high))
           /\ ticks' = Append(ticks, r)
    BY ZenonT(60), <1>7 DEF LastfmAnswer
  <2>3. ticks \in Seq(Requests)
    BY DEF TypeOK
  <2>4. ticks' \in Seq(Requests)
    <3>1. ticks' = ticks \/ ticks' = Append(ticks, r)
      BY ZenonT(60), <2>2
    <3>. QED
      BY <2>3, <3>1, AppendProperties
  <2>5. res' \in [Requests -> Response \cup {Null}]
    BY ZenonT(60), <2>1, <2>2, RespondType DEF TypeOK
  <2>. QED
    BY ZenonT(60), <1>7, <2>4, <2>5 DEF TypeOK, LastfmAnswer
<1>8. CASE LastfmFails(r)
  BY <1>8 DEF TypeOK, LastfmFails
<1>9. CASE TagsAnswer(r)
  <2>1. Respond(r, 200, FALSE, Null)
    BY ZenonT(60), <1>9 DEF TagsAnswer
  <2>2. Null \in Entry \cup {Null}
    BY DEF TypeOK
  <2>3. res' \in [Requests -> Response \cup {Null}]
    BY ZenonT(60), <2>1, <2>2, RespondType
  <2>. QED
    BY ZenonT(60), <1>9, <2>3 DEF TypeOK, TagsAnswer
<1>10. CASE TagsFail(r)
  BY <1>10 DEF TypeOK, TagsFail
<1>11. CASE LatestReply(r)
  <2>1. Respond(r, 200, FALSE, Null)
    BY ZenonT(60), <1>11 DEF LatestReply
  <2>2. Null \in Entry \cup {Null}
    BY DEF TypeOK
  <2>3. res' \in [Requests -> Response \cup {Null}]
    BY ZenonT(60), <2>1, <2>2, RespondType
  <2>. QED
    BY ZenonT(60), <1>11, <2>3 DEF TypeOK, LatestReply
<1>. QED
  BY SMTT(30), <1>1, <1>2, <1>3, <1>4, <1>5, <1>6, <1>7, <1>8, <1>9, <1>10, <1>11
     DEF Proceed

\* Sending the commands of the nextTick callback keeps the types.
LEMMA CallbackType ==
  ASSUME TypeOK, QueriesKnown, Callback
  PROVE  TypeOK'
<1>. DEFINE r == Head(ticks)
            e == res[r].data
<1>1. ticks \in Seq(Requests) /\ ticks # <<>>
  BY DEF TypeOK, Callback, StoreTick, StoreTickThrows
<1>2. /\ r \in Requests
      /\ 1 \in 1 .. Len(ticks) /\ r = ticks[1]
      /\ Tail(ticks) \in Seq(Requests)
  BY <1>1, HeadTailProperties
<1>3. Fetched(r) /\ query[r] \in Keys
  BY <1>2 DEF QueriesKnown
<1>4. e \in Entry
  BY <1>2, <1>3, FetchedType
<1>5. /\ SetThenExpire(StoreKey(r), e) \in Seq(Command)
      /\ PushName(e) \in Seq(Command)
      /\ Rank(e) \in Seq(Command)
  BY <1>3, <1>4, StoreTypes DEF StoreKey
<1>. HIDE DEF r, e
<1>6. CASE StoreTick
  <2>1. SetThenExpire(StoreKey(r), e) \o PushName(e) \o Rank(e) \in Seq(Command)
    BY <1>5, ConcatProperties
  <2>2. Send(SetThenExpire(StoreKey(r), e) \o PushName(e) \o Rank(e))
    BY <1>6 DEF StoreTick, r, e
  <2>3. wire' \in Seq(Command)
    BY ZenonT(60), <2>1, <2>2, SendType
  <2>. QED
    BY ZenonT(60), <1>2, <1>6, <2>3 DEF TypeOK, StoreTick, redis, keyspace
<1>7. CASE StoreTickThrows
  <2>1. wire \o SetThenExpire(StoreKey(r), e) \in Seq(Command)
    BY <1>5, ConcatProperties DEF TypeOK
  <2>2. /\ \E n \in 0 .. Len(wire \o SetThenExpire(StoreKey(r), e)) :
             Crash(wire \o SetThenExpire(StoreKey(r), e), n)
        /\ faults' = faults
    BY ZenonT(60), <1>7 DEF StoreTickThrows, r, e
  <2>3. faults' \in 0 .. MaxFaults
    BY <2>2 DEF TypeOK
  <2>. QED
    BY ZenonT(60), <2>1, <2>2, <2>3, CrashType
<1>. QED
  BY <1>6, <1>7 DEF Callback

\* Redis keeps the types.
LEMMA ExecuteType ==
  ASSUME TypeOK, Execute
  PROVE  TypeOK'
<1>. DEFINE cmd == Head(wire)
<1>1. cmd \in Command /\ wire' \in Seq(Command)
  BY ExecutesType
     DEF Execute, ExecGet, ExecSet, ExecExpire, ExecRPush, ExecZAdd, ExecLRange
<1>. HIDE DEF cmd
<1>. USE DEF Goto, redis, keyspace, history, server, Steps
<1>2. CASE ExecGet
  <2>1. cmd.req \in Requests /\ cmd.key \in Keys
    BY <1>1, <1>2, CommandCases DEF ExecGet, Executes, cmd
  <2>2. got' \in [Requests -> Entry \cup {Null}]
    <3>1. dict[cmd.key] \in Entry \cup {Null}
      BY <2>1 DEF TypeOK
    <3>2. got' = got \/ got' = [got EXCEPT ![cmd.req] = dict[cmd.key]]
      BY <1>2 DEF ExecGet, cmd
    <3>. QED
      BY ZenonT(60), <3>1, <3>2 DEF TypeOK
  <2>3. pc' \in [Requests -> Steps]
    BY ZenonT(60), <1>2, <2>1 DEF TypeOK, ExecGet, cmd
  <2>. QED
    BY ZenonT(60), <1>1, <1>2, <2>2, <2>3 DEF TypeOK, ExecGet
<1>3. CASE ExecSet
  <2>1. cmd.key \in Keys /\ cmd.val \in Entry
    BY <1>1, <1>3, CommandCases DEF ExecSet, Executes, cmd
  <2>2. dict' \in [Keys -> Entry \cup {Null}]
    BY <1>3, <2>1 DEF TypeOK, ExecSet, SetCommand, cmd
  <2>3. expires' \subseteq Keys
    BY <1>3 DEF TypeOK, ExecSet, SetCommand
  <2>. QED
    BY <1>1, <1>3, <2>2, <2>3 DEF TypeOK, ExecSet
<1>4. CASE ExecExpire
  <2>1. cmd.key \in Keys
    BY <1>1, <1>4, CommandCases DEF ExecExpire, Executes, cmd
  <2>. QED
    BY <1>1, <1>4, <2>1 DEF TypeOK, ExecExpire, ExpireCommand, cmd
<1>5. CASE ExecRPush
  <2>1. cmd.val \in Artist
    BY <1>1, <1>5, CommandCases DEF ExecRPush, Executes, cmd
  <2>2. latest \in Seq(Artist) /\ latest' = Append(latest, cmd.val)
    BY <1>5 DEF TypeOK, ExecRPush, cmd
  <2>3. latest' \in Seq(Artist)
    BY ZenonT(60), <2>1, <2>2, AppendProperties
  <2>. QED
    BY ZenonT(60), <1>1, <1>5, <2>3 DEF TypeOK, ExecRPush
<1>6. CASE ExecZAdd
  <2>1. cmd.val \in Entry
    BY ZenonT(60), <1>1, <1>6, CommandCases DEF ExecZAdd, Executes, cmd
  <2>. QED
    BY <1>1, <1>6, <2>1 DEF TypeOK, ExecZAdd, cmd
<1>7. CASE ExecLRange
  <2>1. cmd.req \in Requests
    BY <1>1, <1>7, CommandCases DEF ExecLRange, Executes, cmd
  <2>2. LastShown(latest) \in Seq(Artist)
    BY LRangeType DEF TypeOK, LastShown
  <2>3. listed' \in [Requests -> Seq(Artist)]
    BY ZenonT(60), <1>7, <2>1, <2>2 DEF TypeOK, ExecLRange, cmd
  <2>4. pc' \in [Requests -> Steps]
    <3>1. pc' = pc \/ pc' = [pc EXCEPT ![cmd.req] = "list"]
      BY <1>7 DEF ExecLRange, cmd
    <3>2. pc \in [Requests -> Steps] /\ "list" \in Steps
      BY TypeFacts DEF Steps
    <3>. HIDE DEF cmd, Steps
    <3>. QED
      BY <2>1, <3>1, <3>2
  <2>. QED
    BY SMTT(30), <1>1, <1>7, <2>3, <2>4 DEF TypeOK, ExecLRange
<1>. QED
  BY <1>2, <1>3, <1>4, <1>5, <1>6, <1>7 DEF Execute

\* Faults keep the types.
LEMMA FaultType ==
  ASSUME TypeOK, Fault
  PROVE  TypeOK'
<1>1. faults < MaxFaults /\ faults' = faults + 1
  BY DEF Fault, ConnectionLost, ConnectionLostCrash, Kill
<1>2. faults' \in 0 .. MaxFaults
  BY <1>1, ConstantsAssumption DEF TypeOK
<1>3. CASE ConnectionLost
  <2>1. pc' \in [Requests -> Steps]
    BY <1>3 DEF TypeOK, ConnectionLost, Steps
  <2>2. Lose(wire, 0) /\ wire \in Seq(Command) /\ 0 \in 0 .. Len(wire)
    BY <1>3 DEF ConnectionLost, TypeOK
  <2>3. /\ wire' \in Seq(Command)
        /\ cut' \in BOOLEAN /\ warm' \subseteq Requests
        /\ orphans' \subseteq Keys
    BY ZenonT(60), <2>2, LoseType
  <2>. QED
    BY ZenonT(60), <1>2, <1>3, <2>1, <2>3 DEF TypeOK, ConnectionLost, Lose, redis, keyspace
<1>4. CASE ConnectionLostCrash \/ Kill
  <2>1. wire \in Seq(Command) /\ \E n \in 0 .. Len(wire) : Crash(wire, n)
    BY <1>4 DEF ConnectionLostCrash, Kill, TypeOK
  <2>. QED
    BY ZenonT(60), <1>2, <2>1, CrashType
<1>. QED
  BY <1>3, <1>4 DEF Fault

\* Every step keeps the types.
LEMMA TypeStep ==
  ASSUME TypeOK, QueriesKnown, [Next]_vars
  PROVE  TypeOK'
<1>1. CASE UNCHANGED vars
  BY <1>1 DEF TypeOK, vars, server, redis, keyspace, history
<1>2. ASSUME NEW q \in Keys, KeyExpires(q)
      PROVE  TypeOK'
  BY <1>2 DEF TypeOK, KeyExpires, ExpireIfNeeded, server
<1>3. CASE Restart
  BY <1>3 DEF TypeOK, Restart, redis, keyspace, history
<1>. QED
  BY <1>1, <1>2, <1>3, ArriveType, ProceedType, CallbackType, ExecuteType,
     FaultType DEF Next

(***************************************************************************)
(* Responses and queries are final.                                        *)
(***************************************************************************)

\* The steps that belong to no request.
Background ==
    \/ Callback
    \/ Execute
    \/ \E q \in Keys : KeyExpires(q)
    \/ Fault
    \/ Restart
    \/ UNCHANGED vars

\* They send nothing, change no query and schedule no callback.
LEMMA BackgroundKeeps ==
  ASSUME Background
  PROVE  /\ res' = res /\ query' = query
         /\ \/ ticks' = ticks
            \/ ticks' = <<>>
            \/ ticks # <<>> /\ ticks' = Tail(ticks)
<1>. USE DEF server, redis, keyspace, history, vars
<1>1. CASE Callback
  BY SMTT(30), <1>1 DEF Callback, StoreTick, StoreTickThrows, Crash, Lose
<1>2. CASE Execute
  BY <1>2 DEF Execute, ExecGet, ExecSet, ExecExpire, ExecRPush, ExecZAdd, ExecLRange
<1>3. CASE Fault
  BY SMTT(30), <1>3 DEF Fault, ConnectionLost, ConnectionLostCrash, Kill, Crash
<1>. QED
  BY <1>1, <1>2, <1>3 DEF Background, KeyExpires, Restart

\* They take a request to a later step of its chain, or leave it.
LEMMA BackgroundSteps ==
  ASSUME TypeOK, Background, NEW x \in Requests
  PROVE  \/ pc'[x] = pc[x]
         \/ pc[x] = "get" /\ pc'[x] = "reply"
         \/ pc[x] = "lrange" /\ pc'[x] = "list"
         \/ pc[x] \in {"get", "reply"} /\ pc'[x] = "lastfm"
         \/ pc[x] \in Waiting /\ pc'[x] = "lost"
<1>. USE DEF server, redis, keyspace, history, vars
<1>0. ASSUME NEW pending, NEW n, Crash(pending, n)
      PROVE  \/ pc'[x] = pc[x]
             \/ pc[x] \in Waiting /\ pc'[x] = "lost"
  BY <1>0 DEF Crash
<1>1. CASE Callback
  BY <1>0, <1>1 DEF Callback, StoreTick, StoreTickThrows
<1>2. CASE ExecGet
  BY ZenonT(60), <1>2 DEF ExecGet, Goto, TypeOK
<1>3. CASE ExecLRange
  BY <1>3 DEF ExecLRange, Goto, TypeOK
<1>4. CASE Execute /\ ~ExecGet /\ ~ExecLRange
  BY <1>4 DEF Execute, ExecSet, ExecExpire, ExecRPush, ExecZAdd
<1>5. CASE ConnectionLost
  BY <1>5 DEF ConnectionLost
<1>6. CASE ConnectionLostCrash \/ Kill
  BY <1>0, <1>6 DEF ConnectionLostCrash, Kill
<1>. QED
  BY <1>1, <1>2, <1>3, <1>4, <1>5, <1>6
     DEF Background, Fault, KeyExpires, Restart, Execute

\* A step of one request leaves the others alone.
LEMMA OthersUntouched ==
  ASSUME TypeOK, NEW r \in Requests, Arrive(r) \/ Proceed(r),
         NEW x \in Requests, x # r
  PROVE  pc'[x] = pc[x] /\ res'[x] = res[x] /\ query'[x] = query[x]
<1>. USE DEF TypeOK, Goto, Respond
<1>1. CASE Arrive(r)
  <2>1. ASSUME NEW raw \in RawQueries, Search2(r, raw)
        PROVE  pc'[x] = pc[x] /\ res'[x] = res[x] /\ query'[x] = query[x]
    BY ZenonT(60), <2>1 DEF Search2
  <2>2. ASSUME NEW raw \in RawQueries \cup {Undefined}, Search2Throws(r, raw)
        PROVE  pc'[x] = pc[x] /\ res'[x] = res[x] /\ query'[x] = query[x]
    BY ZenonT(60), <2>2 DEF Search2Throws, ErrorHandler
  <2>. QED
    BY ZenonT(60), <1>1, <2>1, <2>2 DEF Arrive, Tags, LatestSearches
<1>2. CASE CacheHit(r) \/ CacheMiss(r) \/ SearchFinds(r) \/ DetailsUnparsable(r)
             \/ (\E name \in Names \cup {Undefined} : DetailsAnswer(r, name))
  BY ZenonT(60), <1>2 DEF CacheHit, CacheMiss, SearchFinds, DetailsAnswer, DetailsUnparsable
<1>3. CASE \/ \E notfound \in BOOLEAN : SpotifyRejects(r, notfound)
           \/ \E found, high \in BOOLEAN : LastfmAnswer(r, found, high)
           \/ LastfmFails(r)
  BY <1>3 DEF SpotifyRejects, LastfmAnswer, LastfmFails
<1>4. CASE TagsAnswer(r) \/ TagsFail(r) \/ LatestReply(r)
  BY ZenonT(60), <1>4 DEF TagsAnswer, TagsFail, LatestReply
<1>. QED
  BY ZenonT(60), <1>1, <1>2, <1>3, <1>4 DEF Proceed

\* The steps of a request that has arrived leave its query alone, send at
\* most one response and never take it back to the start.
LEMMA ProceedOwn ==
  ASSUME TypeOK, QueriesKnown, NotYetSent, NEW r \in Requests, Proceed(r)
  PROVE  /\ query' = query
         /\ pc'[r] \in Unsent => res'[r] = Null
         /\ pc'[r] \in Searching => pc[r] \in Searching
         /\ pc[r] # "idle" /\ pc'[r] # "idle"
         /\ res[r] # Null => res'[r] = res[r]
         /\ ticks' = ticks \/ (ticks' = Append(ticks, r) /\ pc[r] = "lastfm" /\ Fetched(r)')
<1>. USE DEF TypeOK, Goto, Unsent, Searching, NotYetSent
<1>1. CASE CacheHit(r)
  BY <1>1 DEF CacheHit, Respond
<1>2. CASE CacheMiss(r) \/ SearchFinds(r)
  BY <1>2 DEF CacheMiss, SearchFinds
<1>3. ASSUME NEW name \in Names \cup {Undefined}, DetailsAnswer(r, name)
      PROVE  /\ query' = query /\ ticks' = ticks /\ res' = res
             /\ pc[r] = "details" /\ pc'[r] = "lastfm"
  BY <1>3 DEF DetailsAnswer
<1>4. CASE DetailsUnparsable(r)
  BY ZenonT(60), <1>4 DEF DetailsUnparsable
<1>5. ASSUME NEW notfound \in BOOLEAN, SpotifyRejects(r, notfound)
      PROVE  /\ query' = query /\ ticks' = ticks /\ res[r] = Null
             /\ pc[r] \in {"search", "details"} /\ pc'[r] = "lastfm"
  BY ZenonT(60), <1>5 DEF SpotifyRejects, Respond
<1>6. ASSUME NEW found \in BOOLEAN, NEW high \in BOOLEAN,
             LastfmAnswer(r, found, high)
      PROVE  /\ query' = query /\ pc[r] = "lastfm" /\ pc'[r] \in {"end", "sendThrew"}
             /\ \/ ticks' = ticks /\ res' = res
                \/ ticks' = Append(ticks, r) /\ res[r] = Null /\ Fetched(r)'
  <2>1. RetrievedData(r, found, high) \in Entry
    BY ZenonT(60), <1>6, RetrievedType DEF LastfmAnswer, QueriesKnown
  <2>2. CASE HeadersSent(r)
    BY <1>6, <2>2 DEF LastfmAnswer
  <2>3. CASE ~HeadersSent(r)
    <3>. DEFINE e == RetrievedData(r, found, high)
                resp == [status |-> 200, cached |-> FALSE, data |-> e]
    <3>1. e \in Entry /\ e # Null
      BY <2>1, NullAssumption
    <3>. HIDE DEF e
    <3>2. resp \in Response
      BY <3>1 DEF Response
    <3>3. resp # Null /\ resp.status = 200 /\ ~resp.cached /\ resp.data = e
      BY ZenonT(60), <3>2, NullAssumption
    <3>4. res'[r] = resp
      BY SMTT(30), <1>6, <2>3 DEF LastfmAnswer, Respond, e
    <3>5. Fetched(r)'
      BY <3>1, <3>3, <3>4 DEF Fetched
    <3>. QED
      BY <1>6, <2>3, <3>5 DEF LastfmAnswer, HeadersSent
  <2>. QED
    BY ZenonT(60), <2>2, <2>3
<1>7. CASE LastfmFails(r)
  BY ZenonT(60), <1>7 DEF LastfmFails
<1>8. CASE TagsAnswer(r) \/ LatestReply(r)
  BY <1>8 DEF TagsAnswer, LatestReply, Respond
<1>9. CASE TagsFail(r)
  BY ZenonT(60), <1>9 DEF TagsFail
<1>. QED
  BY ZenonT(60), <1>1, <1>2, <1>3, <1>4, <1>5, <1>6, <1>7, <1>8, <1>9 DEF Proceed

\* A request arrives once, with nothing sent for it yet.
LEMMA ArriveOwn ==
  ASSUME TypeOK, NotYetSent, NEW r \in Requests, Arrive(r)
  PROVE  /\ pc[r] = "idle" /\ pc'[r] # "idle"
         /\ res[r] = Null
         /\ pc'[r] \in Unsent => res'[r] = Null
         /\ pc'[r] \in Searching => query'[r] \in Keys
         /\ ticks' = ticks
<1>. USE DEF TypeOK, Goto, Unsent, Searching, NotYetSent
<1>1. ASSUME NEW raw \in RawQueries, Search2(r, raw)
      PROVE  /\ pc[r] = "idle" /\ pc'[r] = "get" /\ res' = res /\ ticks' = ticks
             /\ query'[r] \in Keys
  BY ZenonT(60), <1>1, ConstantsAssumption DEF Search2
<1>2. ASSUME NEW raw \in RawQueries \cup {Undefined}, Search2Throws(r, raw)
      PROVE  pc[r] = "idle" /\ pc'[r] = "end" /\ ticks' = ticks
  BY <1>2 DEF Search2Throws
<1>3. CASE Tags(r)
  BY <1>3 DEF Tags
<1>4. CASE LatestSearches(r)
  BY <1>4 DEF LatestSearches
<1>. QED
  BY ZenonT(60), <1>1, <1>2, <1>3, <1>4 DEF Arrive

\* A step either belongs to a request or is a background step.
LEMMA StepCases ==
  ASSUME [Next]_vars
  PROVE  Background \/ \E r \in Requests : Arrive(r) \/ Proceed(r)
  BY DEF Next, Background

\* No step replaces a response or the query of a request that has arrived.
LEMMA Final ==
  ASSUME TypeOK, QueriesKnown, NotYetSent, [Next]_vars, NEW x \in Requests
  PROVE  /\ res[x] # Null => res'[x] = res[x]
         /\ pc[x] # "idle" => query'[x] = query[x] /\ pc'[x] # "idle"
<1>1. CASE Background
  BY ZenonT(60), <1>1, BackgroundKeeps, BackgroundSteps
<1>2. ASSUME NEW r \in Requests, Arrive(r)
      PROVE  /\ res[x] # Null => res'[x] = res[x]
             /\ pc[x] # "idle" => query'[x] = query[x] /\ pc'[x] # "idle"
  BY ZenonT(60), <1>2, ArriveOwn, OthersUntouched
<1>3. ASSUME NEW r \in Requests, Proceed(r)
      PROVE  /\ res[x] # Null => res'[x] = res[x]
             /\ pc[x] # "idle" => query'[x] = query[x] /\ pc'[x] # "idle"
  BY <1>3, ProceedOwn, OthersUntouched
<1>. QED
  BY ZenonT(60), <1>1, <1>2, <1>3, StepCases

\* NotYetSent is kept.
LEMMA NotYetSentStep ==
  ASSUME TypeOK, QueriesKnown, NotYetSent, [Next]_vars
  PROVE  NotYetSent'
<1>. SUFFICES ASSUME NEW x \in Requests, pc'[x] \in Unsent
              PROVE  res'[x] = Null
  BY DEF NotYetSent
<1>1. CASE Background
  BY ZenonT(60), <1>1, BackgroundKeeps, BackgroundSteps DEF NotYetSent, Unsent
<1>2. ASSUME NEW r \in Requests, Arrive(r) \/ Proceed(r)
      PROVE  res'[x] = Null
  BY <1>2, ArriveOwn, ProceedOwn, OthersUntouched DEF NotYetSent
<1>. QED
  BY <1>1, <1>2, StepCases

\* A fresh answer stays, with its query.
LEMMA FetchedStays ==
  ASSUME TypeOK, QueriesKnown, NotYetSent, [Next]_vars,
         NEW x \in Requests, Fetched(x)
  PROVE  Fetched(x)' /\ query'[x] = query[x] /\ res'[x] = res[x]
<1>1. res[x] # Null /\ pc[x] # "idle"
  BY ZenonT(60) DEF Fetched, NotYetSent, Unsent
<1>. QED
  BY <1>1, Final DEF Fetched

\* QueriesKnown is kept.
LEMMA QueriesKnownStep ==
  ASSUME TypeOK, QueriesKnown, NotYetSent, [Next]_vars
  PROVE  QueriesKnown'
<1>1. ASSUME NEW x \in Requests, pc'[x] \in Searching
      PROVE  query'[x] \in Keys
  <2>1. CASE Background
    BY ZenonT(60), <1>1, <2>1, BackgroundKeeps, BackgroundSteps DEF QueriesKnown, Searching
  <2>2. ASSUME NEW r \in Requests, Arrive(r) \/ Proceed(r)
        PROVE  query'[x] \in Keys
    BY <1>1, <2>2, ArriveOwn, ProceedOwn, OthersUntouched DEF QueriesKnown
  <2>. QED
    BY <2>1, <2>2, StepCases
<1>2. ASSUME NEW i \in 1 .. Len(ticks')
      PROVE  Fetched(ticks[i])' /\ query'[ticks'[i]] \in Keys
  <2>. DEFINE Good == {x \in Requests : Fetched(x)' /\ query'[x] \in Keys}
  <2>. SUFFICES ticks'[i] \in Good
    BY DEF Fetched
  <2>0. ticks \in Seq(Requests)
    BY ZenonT(60) DEF TypeOK
  <2>1. \A j \in 1 .. Len(ticks) : ticks[j] \in Good
    <3>1. \A x \in Requests : Fetched(x) /\ query[x] \in Keys => x \in Good
      BY FetchedStays
    <3>. QED
      BY <2>0, <3>1 DEF QueriesKnown
  <2>2. CASE ticks' = ticks
    BY <1>2, <2>1, <2>2
  <2>3. CASE ticks' = <<>>
    BY <1>2, <2>3
  <2>4. CASE ticks # <<>> /\ ticks' = Tail(ticks)
    <3>1. i + 1 \in 1 .. Len(ticks) /\ ticks'[i] = ticks[i + 1]
      BY <1>2, <2>0, <2>4
    <3>. QED
      BY <2>1, <3>1
  <2>5. ASSUME NEW r \in Requests, Proceed(r), ticks' = Append(ticks, r),
               pc[r] = "lastfm", Fetched(r)'
        PROVE  ticks'[i] \in Good
    <3>1. r \in Good
      BY <2>5, ProceedOwn DEF QueriesKnown, Searching
    <3>2. \/ i \in 1 .. Len(ticks) /\ ticks'[i] = ticks[i]
          \/ ticks'[i] = r
      BY <1>2, <2>0, <2>5
    <3>. QED
      BY ZenonT(60), <2>1, <3>1, <3>2
  <2>. HIDE DEF Good
  <2>6. CASE Background
    BY ZenonT(60), <2>2, <2>3, <2>4, <2>6, BackgroundKeeps
  <2>7. ASSUME NEW r \in Requests, Arrive(r)
        PROVE  ticks'[i] \in Good
    BY <2>2, <2>7, ArriveOwn
  <2>8. ASSUME NEW r \in Requests, Proceed(r)
        PROVE  ticks'[i] \in Good
    <3>1. \/ ticks' = ticks
          \/ ticks' = Append(ticks, r) /\ pc[r] = "lastfm" /\ Fetched(r)'
      BY <2>8, ProceedOwn
    <3>. QED
      BY ZenonT(60), <2>2, <2>5, <2>8, <3>1
  <2>. QED
    BY <2>6, <2>7, <2>8, StepCases
<1>. QED
  BY <1>1, <1>2 DEF QueriesKnown

\* Initially nothing was asked and nothing is stored.
LEMMA InitSafe ==
  ASSUME Init
  PROVE  Safe
<1>. USE DEF Init, KeyspaceInit
<1>1. TypeOK
  <2>1. NoPart \in SpotifyPart
    BY DEF NoPart, SpotifyPart
  <2>2. spot \in [Requests -> SpotifyPart]
    BY <2>1
  <2>3. ticks \in Seq(Requests) /\ wire \in Seq(Command) /\ latest \in Seq(Artist)
    OBVIOUS
  <2>4. listed \in [Requests -> Seq(Artist)]
    OBVIOUS
  <2>5. faults \in 0 .. MaxFaults
    BY ConstantsAssumption
  <2>. QED
    BY ZenonT(60), <2>2, <2>3, <2>4, <2>5 DEF TypeOK, Steps
<1>2. QueriesKnown /\ NotYetSent
  BY DEF QueriesKnown, NotYetSent, Searching
<1>3. ExpiresInDict /\ StoredWasSent /\ EntryWillExpire
  BY DEF ExpiresInDict, StoredWasSent, EntryWillExpire
<1>4. WrittenWasSent /\ SetHasExpire /\ GetsKnown
  BY DEF WrittenWasSent, SetHasExpire, GetsKnown
<1>5. WarmSteps
  BY DEF WarmSteps
<1>. QED
  BY <1>1, <1>2, <1>3, <1>4, <1>5 DEF Safe

(***************************************************************************)
(* What is cached was sent.                                                *)
(***************************************************************************)

\* What was sent stays sent.
LEMMA SentStays ==
  ASSUME TypeOK, QueriesKnown, NotYetSent, [Next]_vars, NEW q, NEW e, SentFor(q, e)
  PROVE  SentFor(q, e)'
  BY ZenonT(60), FetchedStays DEF SentFor

\* The commands of the nextTick callback.
LEMMA StoreCommands ==
  ASSUME NEW q \in Keys, NEW e \in Entry
  PROVE  LET cmds == SetThenExpire(q, e) \o PushName(e) \o Rank(e) IN
         /\ cmds \in Seq(Command)
         /\ Len(cmds) >= 2
         /\ cmds[1] = Set(q, e) /\ cmds[2] = Expire(q)
         /\ \A i \in 3 .. Len(cmds) : cmds[i].op \in {"RPUSH", "ZADD"}
<1>. DEFINE se == SetThenExpire(q, e)
            p  == PushName(e)
            k  == Rank(e)
<1>1. se \in Seq(Command) /\ p \in Seq(Command) /\ k \in Seq(Command)
  BY StoreTypes
<1>2. Len(se) = 2 /\ se[1] = Set(q, e) /\ se[2] = Expire(q)
  BY DEF SetThenExpire
<1>3. Len(p) = 1 /\ p[1].op = "RPUSH"
  BY DEF PushName, RPush
<1>4. Len(k) \in {0, 1} /\ \A i \in 1 .. Len(k) : k[i].op = "ZADD"
  BY DEF Rank, ZAdd
<1>. HIDE DEF se, p, k
<1>5. /\ se \o p \in Seq(Command)
      /\ Len(se \o p) = 3
      /\ (se \o p)[1] = Set(q, e) /\ (se \o p)[2] = Expire(q)
      /\ (se \o p)[3].op = "RPUSH"
  <2>1. /\ se \o p \in Seq(Command)
        /\ Len(se \o p) = Len(se) + Len(p)
        /\ \A i \in 1 .. Len(se) + Len(p) :
             (se \o p)[i] = IF i <= Len(se) THEN se[i] ELSE p[i - Len(se)]
    BY <1>1, ConcatProperties
  <2>2. /\ (se \o p)[1] = se[1] /\ (se \o p)[2] = se[2]
        /\ (se \o p)[3] = p[1]
    BY <1>2, <1>3, <2>1
  <2>. QED
    BY <1>2, <1>3, <2>1, <2>2
<1>6. /\ (se \o p) \o k \in Seq(Command)
      /\ Len((se \o p) \o k) = 3 + Len(k)
      /\ \A i \in 1 .. 3 : ((se \o p) \o k)[i] = (se \o p)[i]
      /\ \A i \in 4 .. 3 + Len(k) : ((se \o p) \o k)[i] = k[i - 3]
  BY SMTT(30), <1>1, <1>4, <1>5, ConcatProperties
<1>7. \A i \in 3 .. Len((se \o p) \o k) : ((se \o p) \o k)[i].op \in {"RPUSH", "ZADD"}
  BY SMTT(30), <1>4, <1>5, <1>6
<1>. QED
  BY SMTT(30), <1>4, <1>5, <1>6, <1>7 DEF se, p, k

\* The first pending callback stores what was sent for its query.
LEMMA HeadTick ==
  ASSUME TypeOK, QueriesKnown, ticks # <<>>
  PROVE  LET r == Head(ticks) IN
         /\ r \in Requests
         /\ query[r] \in Keys
         /\ res[r].data \in Entry
         /\ SentFor(query[r], res[r].data)
<1>. DEFINE r == Head(ticks)
<1>1. ticks \in Seq(Requests)
  BY DEF TypeOK
<1>2. r \in Requests /\ 1 \in 1 .. Len(ticks) /\ r = ticks[1]
  BY <1>1, HeadTailProperties
<1>3. Fetched(r) /\ query[r] \in Keys
  BY <1>2 DEF QueriesKnown
<1>. HIDE DEF r
<1>4. res[r].data \in Entry
  BY <1>2, <1>3, FetchedType
<1>. QED
  BY <1>2, <1>3, <1>4 DEF SentFor, r

\* Everything on the connection after a step was there before it or was sent
\* to a client first.
LEMMA WrittenWasSentStep ==
  ASSUME TypeOK, QueriesKnown, NotYetSent, WrittenWasSent, [Next]_vars
  PROVE  WrittenWasSent'
<1>. DEFINE S == {c \in Command : c.op = "SET" => SentFor(c.key, c.val)'}
<1>0. TypeOK'
  BY TypeStep
<1>1. wire \in Seq(S)
  <2>1. wire \in Seq(Command)
    BY DEF TypeOK
  <2>2. \A i \in 1 .. Len(wire) : wire[i] \in S
    BY SMTT(30), <2>1, SentStays DEF WrittenWasSent
  <2>. HIDE DEF S
  <2>. QED
    BY <2>1, <2>2
<1>2. /\ \A r \in Requests, q \in Keys : Get(r, q) \in S
      /\ \A r \in Requests : LRangeOf(r) \in S
      /\ \A q \in Keys : Expire(q) \in S
      /\ \A e \in Entry : RPush(GetName(e)) \in S /\ ZAdd(e) \in S
      /\ \A q \in Keys, e \in Entry : SentFor(q, e)' => Set(q, e) \in S
  BY CommandTypes, GetNameType DEF Get, LRangeOf, Expire, RPush, ZAdd, Set
<1>. HIDE DEF S
<1>3. SUFFICES wire' \in Seq(S)
  BY <1>3 DEF WrittenWasSent, S
<1>4. ASSUME NEW pending \in Seq(S), NEW n \in 0 .. Len(pending), Lose(pending, n)
      PROVE  wire' \in Seq(S)
  BY <1>4, SubSeqProperties DEF Lose
<1>5. ASSUME NEW r \in Requests, Arrive(r)
      PROVE  wire' \in Seq(S)
  <2>1. ASSUME NEW raw \in RawQueries, Search2(r, raw)
        PROVE  wire' \in Seq(S)
    <3>1. Normalise[raw] \in Keys /\ wire' = wire \o <<Get(r, Normalise[raw])>>
      BY <2>1, ConstantsAssumption DEF Search2, Send
    <3>2. <<Get(r, Normalise[raw])>> \in Seq(S)
      BY SMTT(30), <1>2, <3>1
    <3>. QED
      BY ZenonT(60), <1>1, <3>1, <3>2, ConcatProperties
  <2>2. CASE LatestSearches(r)
    <3>1. <<LRangeOf(r)>> \in Seq(S) /\ wire' = wire \o <<LRangeOf(r)>>
      BY <1>2, <2>2 DEF LatestSearches, Send
    <3>. QED
      BY <1>1, <3>1, ConcatProperties
  <2>. QED
    BY ZenonT(60), <1>1, <1>5, <2>1, <2>2 DEF Arrive, Search2Throws, Tags
<1>6. ASSUME NEW r \in Requests, Proceed(r)
      PROVE  wire' \in Seq(S)
  BY ZenonT(60), <1>1, <1>6
     DEF Proceed, CacheHit, CacheMiss, SearchFinds, DetailsAnswer,
         DetailsUnparsable, SpotifyRejects, LastfmAnswer, LastfmFails,
         TagsAnswer, TagsFail, LatestReply
<1>7. CASE Callback
  <2>1. PICK q \in Keys, e \in Entry :
          /\ q = query[Head(ticks)] /\ e = res[Head(ticks)].data
          /\ SentFor(q, e)
    <3>1. ticks # <<>>
      BY <1>7 DEF Callback, StoreTick, StoreTickThrows
    <3>. QED
      BY <3>1, HeadTick
  <2>2. SetThenExpire(q, e) \in Seq(S)
    BY <1>2, <2>1, SentStays DEF SetThenExpire
  <2>3. PushName(e) \in Seq(S) /\ Rank(e) \in Seq(S)
    BY <1>2, <2>1 DEF PushName, Rank
  <2>4. CASE StoreTick
    <3>1. wire' = wire \o (SetThenExpire(q, e) \o PushName(e) \o Rank(e))
      BY <2>1, <2>4 DEF StoreTick, Send, StoreKey
    <3>2. SetThenExpire(q, e) \o PushName(e) \o Rank(e) \in Seq(S)
      BY <2>2, <2>3, ConcatProperties
    <3>. QED
      BY ZenonT(60), <1>1, <3>1, <3>2, ConcatProperties
  <2>5. CASE StoreTickThrows
    <3>1. \E n \in 0 .. Len(wire \o SetThenExpire(q, e)) :
            Lose(wire \o SetThenExpire(q, e), n)
      BY ZenonT(60), <2>1, <2>5 DEF StoreTickThrows, StoreKey, Crash
    <3>2. wire \o SetThenExpire(q, e) \in Seq(S)
      BY <1>1, <2>2, ConcatProperties
    <3>. QED
      BY ZenonT(60), <1>4, <3>1, <3>2
  <2>. QED
    BY <1>7, <2>4, <2>5 DEF Callback
<1>8. CASE Execute
  <2>1. wire # <<>> /\ wire' = Tail(wire)
    BY <1>8 DEF Execute, ExecGet, ExecSet, ExecExpire, ExecRPush, ExecZAdd,
                ExecLRange, Executes
  <2>. QED
    BY ZenonT(60), <1>1, <2>1, HeadTailProperties
<1>9. CASE Fault
  <2>1. 0 \in 0 .. Len(wire)
    BY <1>1
  <2>2. \E n \in 0 .. Len(wire) : Lose(wire, n)
    BY ZenonT(60), <1>9, <2>1
       DEF Fault, ConnectionLost, ConnectionLostCrash, Kill, Crash
  <2>. QED
    BY ZenonT(60), <1>1, <1>4, <2>2
<1>10. CASE (\E q \in Keys : KeyExpires(q)) \/ Restart \/ UNCHANGED vars
  BY <1>1, <1>10 DEF KeyExpires, Restart, vars
<1>. QED
  BY <1>5, <1>6, <1>7, <1>8, <1>9, <1>10, StepCases DEF Background

(***************************************************************************)
(* The keyspace.                                                           *)
(***************************************************************************)

\* Only SET, EXPIRE and the passing of time change the string keys.
LEMMA KeyspaceCases ==
  ASSUME [Next]_vars
  PROVE  \/ dict' = dict /\ expires' = expires
         \/ ExecSet
         \/ ExecExpire
         \/ \E q \in Keys : KeyExpires(q)
<1>. USE DEF redis, keyspace, history
<1>1. ASSUME NEW r \in Requests, Arrive(r)
      PROVE  dict' = dict /\ expires' = expires
  BY ZenonT(60), <1>1 DEF Arrive, Search2, Search2Throws, Tags, LatestSearches
<1>2. ASSUME NEW r \in Requests, Proceed(r)
      PROVE  dict' = dict /\ expires' = expires
  BY ZenonT(60), <1>2
     DEF Proceed, CacheHit, CacheMiss, SearchFinds, DetailsAnswer,
         DetailsUnparsable, SpotifyRejects, LastfmAnswer, LastfmFails,
         TagsAnswer, TagsFail, LatestReply
<1>3. CASE Callback
  BY ZenonT(60), <1>3 DEF Callback, StoreTick, StoreTickThrows, Crash, Lose
<1>4. CASE Execute /\ ~ExecSet /\ ~ExecExpire
  BY ZenonT(60), <1>4 DEF Execute, ExecGet, ExecRPush, ExecZAdd, ExecLRange
<1>5. CASE Fault
  BY ZenonT(60), <1>5 DEF Fault, ConnectionLost, ConnectionLostCrash, Kill, Crash, Lose
<1>6. CASE Restart \/ UNCHANGED vars
  BY ZenonT(60), <1>6 DEF Restart, vars
<1>. QED
  BY SMTT(30), <1>1, <1>2, <1>3, <1>4, <1>5, <1>6, StepCases DEF Background, Execute

\* The SET that Redis executes.
LEMMA ExecSetFacts ==
  ASSUME TypeOK, ExecSet
  PROVE  LET cmd == Head(wire) IN
         /\ cmd \in Command /\ cmd.op = "SET"
         /\ cmd.key \in Keys /\ cmd.val \in Entry
         /\ 1 \in 1 .. Len(wire) /\ cmd = wire[1]
         /\ dict' = [dict EXCEPT ![cmd.key] = cmd.val]
         /\ expires' = expires \ {cmd.key}
         /\ wire' = Tail(wire)
<1>1. Executes("SET") /\ SetCommand(Head(wire).key, Head(wire).val)
  BY DEF ExecSet
<1>2. wire \in Seq(Command) /\ wire # <<>>
  BY <1>1 DEF TypeOK, Executes
<1>3. Head(wire) \in Command /\ 1 \in 1 .. Len(wire) /\ Head(wire) = wire[1]
  BY <1>2, HeadTailProperties
<1>. QED
  BY <1>1, <1>3, CommandCases DEF Executes, SetCommand

\* The EXPIRE that Redis executes.
LEMMA ExecExpireFacts ==
  ASSUME TypeOK, ExecExpire
  PROVE  LET cmd == Head(wire) IN
         /\ cmd \in Command /\ cmd.op = "EXPIRE" /\ cmd.key \in Keys
         /\ 1 \in 1 .. Len(wire) /\ cmd = wire[1]
         /\ dict' = dict
         /\ expires' = IF dict[cmd.key] = Null THEN expires ELSE expires \cup {cmd.key}
         /\ wire' = Tail(wire)
<1>1. Executes("EXPIRE") /\ ExpireCommand(Head(wire).key)
  BY DEF ExecExpire
<1>2. wire \in Seq(Command) /\ wire # <<>>
  BY <1>1 DEF TypeOK, Executes
<1>3. Head(wire) \in Command /\ 1 \in 1 .. Len(wire) /\ Head(wire) = wire[1]
  BY <1>2, HeadTailProperties
<1>. QED
  BY <1>1, <1>3, CommandCases DEF Executes, ExpireCommand

\* ExpiresInDict is kept.
LEMMA ExpiresInDictStep ==
  ASSUME TypeOK, ExpiresInDict, [Next]_vars
  PROVE  ExpiresInDict'
<1>. USE DEF ExpiresInDict, TypeOK
<1>1. CASE dict' = dict /\ expires' = expires
  BY <1>1
<1>2. CASE ExecSet
  BY ZenonT(60), <1>2, ExecSetFacts
<1>3. CASE ExecExpire
  BY <1>3, ExecExpireFacts
<1>4. ASSUME NEW q \in Keys, KeyExpires(q)
      PROVE  ExpiresInDict'
  BY ZenonT(60), <1>4 DEF KeyExpires, ExpireIfNeeded
<1>. QED
  BY ZenonT(60), <1>1, <1>2, <1>3, <1>4, KeyspaceCases

\* StoredWasSent is kept.
LEMMA StoredWasSentStep ==
  ASSUME TypeOK, QueriesKnown, NotYetSent, WrittenWasSent, StoredWasSent,
         [Next]_vars
  PROVE  StoredWasSent'
<1>1. \A q \in Keys : dict[q] # Null => SentFor(q, dict[q])
  BY DEF StoredWasSent, SentFor
<1>2. ASSUME NEW q \in Keys, dict'[q] # Null
      PROVE  \E e \in Entry : dict'[q] = e /\ SentFor(q, e)
  <2>0. \A k \in Keys : dict[k] # Null => dict[k] \in Entry
    BY DEF TypeOK
  <2>1. CASE dict'[q] = dict[q]
    BY ZenonT(60), <1>1, <1>2, <2>0, <2>1
  <2>2. CASE ExecSet
    <3>1. PICK k \in Keys, e \in Entry :
            dict' = [dict EXCEPT ![k] = e] /\ SentFor(k, e)
      BY ZenonT(60), <2>2, ExecSetFacts DEF WrittenWasSent
    <3>2. dict'[q] = IF q = k THEN e ELSE dict[q]
      BY ZenonT(60), <3>1 DEF TypeOK
    <3>. QED
      BY ZenonT(60), <1>1, <1>2, <2>0, <3>1, <3>2
  <2>3. CASE ExecExpire
    BY ZenonT(60), <2>1, <2>3, ExecExpireFacts
  <2>4. ASSUME NEW k \in Keys, KeyExpires(k)
        PROVE  dict'[q] = dict[q]
    BY ZenonT(60), <1>2, <2>4 DEF KeyExpires, ExpireIfNeeded, TypeOK
  <2>. QED
    BY ZenonT(60), <2>1, <2>2, <2>3, <2>4, KeyspaceCases
<1>3. ASSUME NEW q \in Keys, NEW e, SentFor(q, e)
      PROVE  \E r \in Requests : Fetched(r)' /\ query'[r] = q /\ res'[r].data = e
  BY ZenonT(60), <1>3, FetchedStays DEF SentFor
<1>4. ASSUME NEW q \in Keys, dict'[q] # Null
      PROVE  \E r \in Requests : Fetched(r)' /\ query'[r] = q /\ res'[r].data = dict'[q]
  <2>1. PICK e \in Entry : dict'[q] = e /\ SentFor(q, e)
    BY ZenonT(60), <1>2, <1>4
  <2>2. \E r \in Requests : Fetched(r)' /\ query'[r] = q /\ res'[r].data = e
    BY ZenonT(60), <1>3, <2>1
  <2>. QED
    BY ZenonT(60), <2>1, <2>2
<1>. QED
  BY ZenonT(60), <1>4 DEF StoredWasSent

(***************************************************************************)
(* The connection.                                                         *)
(***************************************************************************)

\* The steps that lose commands or requests.
Loses == StoreTickThrows \/ Fault

\* What a step does to the connection.
LEMMA WireCases ==
  ASSUME [Next]_vars
  PROVE  \/ /\ wire' = wire /\ warm' = warm /\ orphans' = orphans
            /\ dict' = dict /\ expires' = expires
            /\ up' = up \/ wire = <<>>
         \/ \E q \in Keys : KeyExpires(q)
         \/ \E r \in Requests, raw \in RawQueries : Search2(r, raw)
         \/ \E r \in Requests : LatestSearches(r)
         \/ StoreTick
         \/ Execute
         \/ Loses
<1>. USE DEF redis, keyspace, history
<1>1. ASSUME NEW r \in Requests, Proceed(r)
      PROVE  /\ wire' = wire /\ warm' = warm /\ orphans' = orphans
             /\ dict' = dict /\ expires' = expires /\ up' = up
  BY ZenonT(60), <1>1
     DEF Proceed, CacheHit, CacheMiss, SearchFinds, DetailsAnswer,
         DetailsUnparsable, SpotifyRejects, LastfmAnswer, LastfmFails,
         TagsAnswer, TagsFail, LatestReply
<1>2. ASSUME NEW r \in Requests,
             \/ Tags(r)
             \/ \E raw \in RawQueries \cup {Undefined} : Search2Throws(r, raw)
      PROVE  /\ wire' = wire /\ warm' = warm /\ orphans' = orphans
             /\ dict' = dict /\ expires' = expires /\ up' = up
  BY ZenonT(60), <1>2 DEF Tags, Search2Throws
<1>3. CASE Restart \/ UNCHANGED vars
  BY ZenonT(60), <1>3 DEF Restart, vars, server
<1>. QED
  BY <1>1, <1>2, <1>3, StepCases DEF Background, Callback, Arrive, Loses

\* Commands are sent at the end of the connection.
LEMMA SendFacts ==
  ASSUME TypeOK, NEW cmds \in Seq(Command), Send(cmds)
  PROVE  /\ Len(wire) \in Nat /\ Len(cmds) \in Nat
         /\ Len(wire') = Len(wire) + Len(cmds)
         /\ \A i \in 1 .. Len(wire) : wire'[i] = wire[i]
         /\ \A i \in 1 .. Len(cmds) : wire'[Len(wire) + i] = cmds[i]
<1>1. wire \in Seq(Command)
  BY DEF TypeOK
<1>2. /\ wire' = wire \o cmds
      /\ Len(wire \o cmds) = Len(wire) + Len(cmds)
      /\ \A i \in 1 .. Len(wire) + Len(cmds) :
           (wire \o cmds)[i] = IF i <= Len(wire) THEN wire[i] ELSE cmds[i - Len(wire)]
  BY <1>1, ConcatProperties DEF Send
<1>3. Len(wire) \in Nat /\ Len(cmds) \in Nat
  BY <1>1
<1>. QED
  BY <1>2, <1>3

\* Redis takes the first command.
LEMMA TailFacts ==
  ASSUME TypeOK, Execute
  PROVE  /\ wire # <<>> /\ wire' = Tail(wire) /\ Head(wire) = wire[1]
         /\ Len(wire) \in Nat /\ 1 \in 1 .. Len(wire)
         /\ Len(wire') = Len(wire) - 1
         /\ \A i \in 1 .. Len(wire') : wire'[i] = wire[i + 1]
         /\ up' = up /\ warm' = warm /\ orphans' = orphans
<1>1. wire # <<>> /\ wire' = Tail(wire)
  BY DEF Execute, ExecGet, ExecSet, ExecExpire, ExecRPush, ExecZAdd, ExecLRange,
         Executes
<1>2. up' = up /\ warm' = warm /\ orphans' = orphans
  BY ZenonT(60) DEF Execute, ExecGet, ExecSet, ExecExpire, ExecRPush, ExecZAdd, ExecLRange,
                    server, history
<1>3. wire \in Seq(Command)
  BY DEF TypeOK
<1>4. /\ Len(Tail(wire)) = Len(wire) - 1
      /\ \A i \in 1 .. Len(Tail(wire)) : Tail(wire)[i] = wire[i + 1]
  BY ZenonT(60), <1>1, <1>3, HeadTailProperties
<1>5. Head(wire) = wire[1] /\ Len(wire) \in Nat /\ 1 \in 1 .. Len(wire)
  BY <1>1, <1>3
<1>. QED
  BY ZenonT(60), <1>1, <1>2, <1>4, <1>5

\* The commands the nextTick callback has sent.
LEMMA StoreTickFacts ==
  ASSUME TypeOK, QueriesKnown, StoreTick
  PROVE  \E q \in Keys, cmds \in Seq(Command) :
           /\ Send(cmds)
           /\ Len(cmds) >= 2
           /\ cmds[1].op = "SET" /\ cmds[1].key = q
           /\ cmds[2] = Expire(q)
           /\ \A i \in 3 .. Len(cmds) : cmds[i].op \in {"RPUSH", "ZADD"}
           /\ up /\ up' = up /\ warm' = warm /\ orphans' = orphans \ {q}
           /\ dict' = dict /\ expires' = expires
<1>1. ticks # <<>>
  BY DEF StoreTick
<1>2. PICK q \in Keys, e \in Entry :
        q = query[Head(ticks)] /\ e = res[Head(ticks)].data
  BY ZenonT(60), <1>1, HeadTick
<1>. DEFINE cmds == SetThenExpire(q, e) \o PushName(e) \o Rank(e)
<1>3. /\ Send(cmds) /\ up /\ up' = up /\ warm' = warm /\ orphans' = orphans \ {q}
      /\ dict' = dict /\ expires' = expires
  BY ZenonT(60), <1>2 DEF StoreTick, StoreKey, redis, keyspace
<1>4. /\ cmds \in Seq(Command)
      /\ Len(cmds) >= 2
      /\ cmds[1] = Set(q, e) /\ cmds[2] = Expire(q)
      /\ \A i \in 3 .. Len(cmds) : cmds[i].op \in {"RPUSH", "ZADD"}
  BY ZenonT(60), StoreCommands
<1>. HIDE DEF cmds
<1>5. cmds[1].op = "SET" /\ cmds[1].key = q
  <2>1. Set(q, e).op = "SET" /\ Set(q, e).key = q
    BY DEF Set
  <2>. QED
    BY ZenonT(60), <1>4, <2>1
<1>. QED
  BY ZenonT(60), <1>3, <1>4, <1>5

\* What is pending at a loss: the connection, and perhaps the SET and EXPIRE
\* that the throwing callback has sent.
Pending(pending) ==
    /\ pending \in Seq(Command)
    /\ Len(wire) <= Len(pending)
    /\ \A i \in 1 .. Len(wire) : pending[i] = wire[i]
    /\ \A i \in 1 .. Len(pending) :
         i \notin 1 .. Len(wire) =>
           /\ pending[i].op \in {"SET", "EXPIRE"}
           /\ pending[i].op = "SET" =>
                i + 1 \in 1 .. Len(pending) /\ pending[i + 1] = Expire(pending[i].key)

\* The commands of the throwing callback come after the connection's.
LEMMA PendingStore ==
  ASSUME TypeOK, NEW q \in Keys, NEW e \in Entry
  PROVE  Pending(wire \o SetThenExpire(q, e))
<1>. DEFINE se == SetThenExpire(q, e)
            all == wire \o se
<1>1. wire \in Seq(Command) /\ Len(wire) \in Nat
  BY TypeFacts
<1>2. se \in Seq(Command) /\ Len(se) = 2 /\ se[1] = Set(q, e) /\ se[2] = Expire(q)
  BY StoreTypes DEF SetThenExpire
<1>. HIDE DEF se
<1>3. /\ all \in Seq(Command)
      /\ Len(all) = Len(wire) + Len(se)
      /\ \A i \in 1 .. Len(wire) + Len(se) :
           all[i] = IF i <= Len(wire) THEN wire[i] ELSE se[i - Len(wire)]
  BY <1>1, <1>2, ConcatProperties
<1>. HIDE DEF all
<1>4. /\ Len(all) = Len(wire) + 2
      /\ \A i \in 1 .. Len(wire) : all[i] = wire[i]
      /\ all[Len(wire) + 1] = Set(q, e) /\ all[Len(wire) + 2] = Expire(q)
  BY <1>1, <1>2, <1>3
<1>5. /\ Set(q, e).op = "SET" /\ Set(q, e).key = q
      /\ Expire(q).op = "EXPIRE"
  BY DEF Set, Expire
<1>6. ASSUME NEW i \in 1 .. Len(all), i \notin 1 .. Len(wire)
      PROVE  /\ all[i].op \in {"SET", "EXPIRE"}
             /\ all[i].op = "SET" =>
                  i + 1 \in 1 .. Len(all) /\ all[i + 1] = Expire(all[i].key)
  <2>1. i = Len(wire) + 1 \/ i = Len(wire) + 2
    BY SMTT(30), <1>1, <1>4, <1>6
  <2>2. CASE i = Len(wire) + 1
    <3>1. i + 1 = Len(wire) + 2 /\ i + 1 \in 1 .. Len(all)
      BY SMTT(30), <1>1, <1>4, <2>2
    <3>. QED
      BY SMTT(30), <1>4, <1>5, <2>2, <3>1
  <2>3. CASE i = Len(wire) + 2
    BY SMTT(30), <1>4, <1>5, <2>3
  <2>. QED
    BY <2>1, <2>2, <2>3
<1>7. Len(wire) <= Len(all)
  BY <1>1, <1>4
<1>. QED
  BY ZenonT(60), <1>3, <1>4, <1>6, <1>7 DEF Pending, all, se

\* A step that loses commands loses the end of what is pending.  If some of it
\* still reaches Redis, the process has ended.
LEMMA LossCases ==
  ASSUME TypeOK, QueriesKnown, Loses
  PROVE  \E pending \in Seq(Command) : \E n \in 0 .. Len(pending) :
           Pending(pending) /\ Lose(pending, n) /\ up /\ (n = 0 \/ ~up')
<1>1. wire \in Seq(Command) /\ Len(wire) \in Nat
  BY TypeFacts
<1>2. Pending(wire) /\ 0 \in 0 .. Len(wire)
  BY <1>1 DEF Pending
<1>3. CASE StoreTickThrows
  <2>1. PICK q \in Keys, e \in Entry :
          q = query[Head(ticks)] /\ e = res[Head(ticks)].data
    BY <1>3, HeadTick DEF StoreTickThrows
  <2>. DEFINE all == wire \o SetThenExpire(q, e)
  <2>2. up /\ \E n \in 0 .. Len(all) : Lose(all, n) /\ ~up'
    BY ZenonT(60), <1>3, <2>1 DEF StoreTickThrows, StoreKey, Crash
  <2>3. Pending(all)
    BY ZenonT(60), PendingStore
  <2>. HIDE DEF all
  <2>4. all \in Seq(Command)
    BY ZenonT(60), <2>3 DEF Pending
  <2>. QED
    BY ZenonT(60), <2>2, <2>3, <2>4
<1>4. CASE ConnectionLost
  BY ZenonT(60), <1>1, <1>2, <1>4 DEF ConnectionLost
<1>5. CASE ConnectionLostCrash \/ Kill
  BY ZenonT(60), <1>1, <1>2, <1>5 DEF ConnectionLostCrash, Kill, Crash
<1>. QED
  BY ZenonT(60), <1>3, <1>4, <1>5 DEF Loses, Fault

\* What a loss leaves on the connection.
LEMMA LoseFacts ==
  ASSUME NEW pending \in Seq(Command), NEW n \in 0 .. Len(pending), Lose(pending, n)
  PROVE  /\ Len(pending) \in Nat /\ n \in Nat /\ Len(wire') = n
         /\ \A i \in 1 .. n : i \in 1 .. Len(pending) /\ wire'[i] = pending[i]
         /\ warm' = {} /\ orphans \subseteq orphans'
         /\ \A i \in 1 .. Len(pending) :
              i \notin 1 .. n /\ pending[i].op = "EXPIRE" => pending[i].key \in orphans'
         /\ dict' = dict /\ expires' = expires /\ latest' = latest /\ due' = due
<1>1. Len(pending) \in Nat /\ n \in Nat
  OBVIOUS
<1>2. Len(wire') = n /\ \A i \in 1 .. n : wire'[i] = pending[i]
  BY SubSeqProperties DEF Lose
<1>3. \A i \in 1 .. n : i \in 1 .. Len(pending)
  BY <1>1
<1>4. ASSUME NEW i \in 1 .. Len(pending), i \notin 1 .. n, pending[i].op = "EXPIRE"
      PROVE  pending[i].key \in orphans'
  <2>1. i \in n + 1 .. Len(pending)
    BY <1>1, <1>4
  <2>. QED
    BY ZenonT(60), <1>4, <2>1 DEF Lose, LostExpires
<1>5. /\ warm' = {} /\ orphans \subseteq orphans'
      /\ dict' = dict /\ expires' = expires /\ latest' = latest /\ due' = due
  BY ZenonT(60) DEF Lose, redis, keyspace
<1>. QED
  BY ZenonT(60), <1>1, <1>2, <1>3, <1>4, <1>5

\* A loss leaves only GETs that were there, and no warm request.
LEMMA LossFacts ==
  ASSUME TypeOK, QueriesKnown, Loses
  PROVE  /\ warm' = {}
         /\ \A i \in 1 .. Len(wire') :
              wire'[i].op = "GET" => \E j \in 1 .. Len(wire) : wire'[i] = wire[j]
<1>1. PICK pending \in Seq(Command) : \E n \in 0 .. Len(pending) :
        Pending(pending) /\ Lose(pending, n)
  BY ZenonT(60), LossCases
<1>2. PICK n \in 0 .. Len(pending) : Pending(pending) /\ Lose(pending, n)
  BY ZenonT(60), <1>1
<1>3. /\ Len(wire') = n /\ warm' = {}
      /\ \A i \in 1 .. n : i \in 1 .. Len(pending) /\ wire'[i] = pending[i]
  BY ZenonT(60), <1>2, LoseFacts
<1>4. \A i \in 1 .. Len(pending) :
        pending[i].op = "GET" => i \in 1 .. Len(wire) /\ pending[i] = wire[i]
  <2>1. "GET" \notin {"SET", "EXPIRE"}
    OBVIOUS
  <2>. QED
    BY ZenonT(60), <1>2, <2>1 DEF Pending
<1>. QED
  BY ZenonT(60), <1>3, <1>4

\* SetHasExpire is kept.
LEMMA SetHasExpireStep ==
  ASSUME TypeOK, QueriesKnown, SetHasExpire, [Next]_vars
  PROVE  SetHasExpire'
<1>. SUFFICES ASSUME NEW i \in 1 .. Len(wire'), wire'[i].op = "SET"
              PROVE  \/ i + 1 \in 1 .. Len(wire') /\ wire'[i + 1] = Expire(wire'[i].key)
                     \/ ~up' /\ wire'[i].key \in orphans'
  BY ZenonT(60) DEF SetHasExpire, Expire
<1>. DEFINE Goal ==
       \/ i + 1 \in 1 .. Len(wire') /\ wire'[i + 1] = Expire(wire'[i].key)
       \/ ~up' /\ wire'[i].key \in orphans'
<1>0. Len(wire) \in Nat
  BY DEF TypeOK
<1>1. ASSUME up' = up, up \/ orphans' = orphans,
             i \in 1 .. Len(wire), wire'[i] = wire[i],
             Len(wire') >= Len(wire), Len(wire') \in Nat,
             i + 1 \in 1 .. Len(wire) => wire'[i + 1] = wire[i + 1]
      PROVE  Goal
  <2>1. \/ i + 1 \in 1 .. Len(wire) /\ wire[i + 1] = Expire(wire[i].key)
        \/ ~up /\ wire[i].key \in orphans
    BY ZenonT(60), <1>1 DEF SetHasExpire
  <2>2. i + 1 \in 1 .. Len(wire) => i + 1 \in 1 .. Len(wire')
    BY SMTT(30), <1>0, <1>1
  <2>. QED
    BY ZenonT(60), <1>1, <2>1, <2>2
<1>. HIDE DEF Goal
<1>2. CASE wire' = wire /\ orphans' = orphans /\ (up' = up \/ wire = <<>>)
  <2>1. wire # <<>>
    BY <1>2
  <2>2. i \in 1 .. Len(wire) /\ Len(wire') >= Len(wire) /\ Len(wire') \in Nat
    BY <1>0, <1>2
  <2>3. up' = up /\ (up \/ orphans' = orphans)
    BY SMTT(30), <1>2, <2>1
  <2>4. wire'[i] = wire[i] /\ wire'[i + 1] = wire[i + 1]
    BY <1>2
  <2>. QED
    BY SMTT(30), <1>1, <2>2, <2>3, <2>4 DEF Goal
<1>3. ASSUME NEW cmds \in Seq(Command), Send(cmds), up' = up, orphans' = orphans,
             Len(cmds) = 1, cmds[1].op # "SET"
      PROVE  Goal
  <2>1. /\ Len(wire') = Len(wire) + 1
        /\ \A k \in 1 .. Len(wire) : wire'[k] = wire[k]
        /\ wire'[Len(wire) + 1] = cmds[1]
    <3>1. 1 \in 1 .. Len(cmds)
      BY <1>3
    <3>2. /\ Len(wire') = Len(wire) + Len(cmds)
          /\ \A k \in 1 .. Len(wire) : wire'[k] = wire[k]
          /\ \A k \in 1 .. Len(cmds) : wire'[Len(wire) + k] = cmds[k]
      BY ZenonT(60), <1>3, SendFacts
    <3>. QED
      BY ZenonT(60), <1>3, <3>1, <3>2
  <2>2. i # Len(wire) + 1
    BY <1>3, <2>1
  <2>3. i \in 1 .. Len(wire) /\ Len(wire') >= Len(wire) /\ Len(wire') \in Nat
    BY <1>0, <2>1, <2>2
  <2>. QED
    BY ZenonT(60), <1>1, <1>3, <2>1, <2>3
<1>4. ASSUME NEW r \in Requests, NEW raw \in RawQueries, Search2(r, raw)
      PROVE  Goal
  <2>. DEFINE c == Get(r, Normalise[raw])
  <2>1. Normalise[raw] \in Keys /\ Send(<<c>>) /\ up' = up /\ orphans' = orphans
    BY ZenonT(60), <1>4, ConstantsAssumption DEF Search2
  <2>2. c \in Command /\ c.op = "GET"
    BY ZenonT(60), <2>1, CommandTypes DEF Get
  <2>. HIDE DEF c
  <2>3. <<c>> \in Seq(Command) /\ Len(<<c>>) = 1 /\ <<c>>[1].op = "GET"
    BY <2>2, SingleCommand
  <2>. QED
    BY ZenonT(60), <1>3, <2>1, <2>2, <2>3
<1>5. ASSUME NEW r \in Requests, LatestSearches(r)
      PROVE  Goal
  <2>. DEFINE c == LRangeOf(r)
  <2>1. Send(<<c>>) /\ up' = up /\ orphans' = orphans
    BY ZenonT(60), <1>5 DEF LatestSearches
  <2>2. c \in Command /\ c.op = "LRANGE"
    BY CommandTypes DEF LRangeOf
  <2>. HIDE DEF c
  <2>3. <<c>> \in Seq(Command) /\ Len(<<c>>) = 1 /\ <<c>>[1].op = "LRANGE"
    BY <2>2, SingleCommand
  <2>. QED
    BY ZenonT(60), <1>3, <2>1, <2>2, <2>3
<1>6. CASE StoreTick
  <2>1. PICK q \in Keys, cmds \in Seq(Command) :
           /\ Send(cmds)
           /\ Len(cmds) >= 2
           /\ cmds[1].op = "SET" /\ cmds[1].key = q
           /\ cmds[2] = Expire(q)
           /\ \A k \in 3 .. Len(cmds) : cmds[k].op \in {"RPUSH", "ZADD"}
           /\ up /\ up' = up
    BY ZenonT(60), <1>6, StoreTickFacts
  <2>2. /\ Len(cmds) \in Nat /\ Len(wire') = Len(wire) + Len(cmds)
        /\ \A k \in 1 .. Len(wire) : wire'[k] = wire[k]
        /\ \A k \in 1 .. Len(cmds) : wire'[Len(wire) + k] = cmds[k]
    BY ZenonT(60), <2>1, SendFacts
  <2>3. CASE i \in 1 .. Len(wire)
    <3>1. Len(wire') >= Len(wire) /\ Len(wire') \in Nat
      BY <1>0, <2>2
    <3>2. up' = up /\ (up \/ orphans' = orphans)
      BY ZenonT(60), <2>1
    <3>3. wire'[i] = wire[i] /\ (i + 1 \in 1 .. Len(wire) => wire'[i + 1] = wire[i + 1])
      BY ZenonT(60), <2>2, <2>3
    <3>. QED
      BY SMTT(30), <1>1, <2>3, <3>1, <3>2, <3>3 DEF Goal
  <2>4. CASE i \notin 1 .. Len(wire)
    <3>1. PICK k \in 1 .. Len(cmds) : i = Len(wire) + k
      <4>1. i - Len(wire) \in 1 .. Len(cmds) /\ i = Len(wire) + (i - Len(wire))
        BY ZenonT(60), <1>0, <2>2, <2>4, Beyond
      <4>. QED
        BY ZenonT(60), <4>1
    <3>2. wire'[i] = cmds[k]
      BY ZenonT(60), <2>2, <3>1
    <3>3. k # 2
      BY <2>1, <3>2 DEF Expire
    <3>4. k = 1
      <4>1. k \notin 3 .. Len(cmds)
        BY ZenonT(60), <2>1, <3>2
      <4>. QED
        BY <2>2, <3>3, <4>1
    <3>5. wire'[Len(wire) + 2] = Expire(q)
      BY SMTT(30), <2>1, <2>2
    <3>6. i + 1 = Len(wire) + 2 /\ i + 1 \in 1 .. Len(wire')
      BY SMTT(30), <1>0, <2>1, <2>2, <3>1, <3>4
    <3>. QED
      BY ZenonT(60), <2>1, <3>2, <3>4, <3>5, <3>6 DEF Goal
  <2>. QED
    BY ZenonT(60), <2>3, <2>4
<1>7. CASE Execute
  <2>1. /\ Len(wire') = Len(wire) - 1 /\ up' = up /\ orphans' = orphans
        /\ \A k \in 1 .. Len(wire') : wire'[k] = wire[k + 1]
    BY ZenonT(60), <1>7, TailFacts
  <2>2. /\ i + 1 \in 1 .. Len(wire) /\ wire'[i] = wire[i + 1]
        /\ (i + 1) + 1 \in 1 .. Len(wire) =>
             i + 1 \in 1 .. Len(wire') /\ wire'[i + 1] = wire[(i + 1) + 1]
    BY <1>0, <2>1
  <2>3. \/ /\ (i + 1) + 1 \in 1 .. Len(wire)
           /\ wire[(i + 1) + 1] = Expire(wire[i + 1].key)
        \/ ~up /\ wire[i + 1].key \in orphans
    BY ZenonT(60), <2>2 DEF SetHasExpire
  <2>. QED
    BY ZenonT(60), <2>1, <2>2, <2>3 DEF Goal
<1>8. CASE Loses
  <2>1. PICK pending \in Seq(Command) : \E n \in 0 .. Len(pending) :
          Pending(pending) /\ Lose(pending, n) /\ up /\ (n = 0 \/ ~up')
    BY ZenonT(60), <1>8, LossCases
  <2>2. PICK n \in 0 .. Len(pending) :
          Pending(pending) /\ Lose(pending, n) /\ up /\ (n = 0 \/ ~up')
    BY ZenonT(60), <2>1
  <2>3. /\ Len(pending) \in Nat /\ n \in Nat /\ Len(wire') = n
        /\ \A k \in 1 .. n : k \in 1 .. Len(pending) /\ wire'[k] = pending[k]
        /\ \A k \in 1 .. Len(pending) :
             k \notin 1 .. n /\ pending[k].op = "EXPIRE" => pending[k].key \in orphans'
    BY ZenonT(60), <2>2, LoseFacts
  <2>4. i \in 1 .. Len(pending) /\ wire'[i] = pending[i] /\ n # 0
    BY <2>3
  <2>5. i + 1 \in 1 .. Len(pending) /\ pending[i + 1] = Expire(pending[i].key)
    <3>1. CASE i \in 1 .. Len(wire)
      <4>1. pending[i] = wire[i]
        BY ZenonT(60), <2>2, <3>1 DEF Pending
      <4>2. i + 1 \in 1 .. Len(wire) /\ wire[i + 1] = Expire(wire[i].key)
        BY ZenonT(60), <2>2, <2>4, <3>1, <4>1 DEF SetHasExpire
      <4>3. pending[i + 1] = wire[i + 1] /\ Len(wire) <= Len(pending)
        BY ZenonT(60), <2>2, <4>2 DEF Pending
      <4>4. i + 1 \in 1 .. Len(pending)
        BY <1>0, <2>3, <4>2, <4>3
      <4>. QED
        BY ZenonT(60), <4>1, <4>2, <4>3, <4>4
    <3>2. CASE i \notin 1 .. Len(wire)
      BY ZenonT(60), <2>2, <2>4, <3>2 DEF Pending
    <3>. QED
      BY ZenonT(60), <3>1, <3>2
  <2>6. Expire(pending[i].key).op = "EXPIRE" /\ Expire(pending[i].key).key = pending[i].key
    BY DEF Expire
  <2>7. CASE i + 1 \in 1 .. n
    BY ZenonT(60), <2>3, <2>4, <2>5, <2>7 DEF Goal
  <2>8. CASE i + 1 \notin 1 .. n
    BY ZenonT(60), <2>2, <2>3, <2>4, <2>5, <2>6, <2>8 DEF Goal
  <2>. QED
    BY ZenonT(60), <2>7, <2>8
<1>9. ASSUME NEW q \in Keys, KeyExpires(q)
      PROVE  wire' = wire /\ orphans' = orphans /\ up' = up
  BY ZenonT(60), <1>9 DEF KeyExpires, server
<1>. QED
  BY ZenonT(60), <1>2, <1>4, <1>5, <1>6, <1>7, <1>8, <1>9, WireCases DEF Goal

\* EntryWillExpire is kept.
LEMMA EntryWillExpireStep ==
  ASSUME TypeOK, QueriesKnown, SetHasExpire, EntryWillExpire, [Next]_vars
  PROVE  EntryWillExpire'
<1>. SUFFICES ASSUME NEW q \in Keys, dict'[q] # Null, q \notin expires', q \notin orphans'
              PROVE  \E i \in 1 .. Len(wire') : wire'[i].op = "EXPIRE" /\ wire'[i].key = q
  BY ZenonT(60) DEF EntryWillExpire, OnWire
<1>0. Len(wire) \in Nat /\ dict \in [Keys -> Entry \cup {Null}]
  BY TypeFacts
<1>1. ASSUME dict[q] # Null, q \notin expires, q \notin orphans
      PROVE  \E i \in 1 .. Len(wire) : wire[i].op = "EXPIRE" /\ wire[i].key = q
  BY <1>1 DEF EntryWillExpire, OnWire
<1>2. CASE orphans' = orphans /\ wire' = wire /\ dict' = dict /\ expires' = expires
  BY ZenonT(60), <1>1, <1>2
<1>3. ASSUME NEW k \in Keys, KeyExpires(k)
      PROVE  \E i \in 1 .. Len(wire') : wire'[i].op = "EXPIRE" /\ wire'[i].key = q
  BY ZenonT(60), <1>0, <1>1, <1>3 DEF KeyExpires, ExpireIfNeeded
<1>4. ASSUME NEW cmds \in Seq(Command), Send(cmds),
             q \notin orphans, dict' = dict, expires' = expires
      PROVE  \E i \in 1 .. Len(wire') : wire'[i].op = "EXPIRE" /\ wire'[i].key = q
  <2>1. PICK i \in 1 .. Len(wire) : wire[i].op = "EXPIRE" /\ wire[i].key = q
    BY ZenonT(60), <1>1, <1>4
  <2>2. i \in 1 .. Len(wire') /\ wire'[i] = wire[i]
    BY <1>4, SendFacts
  <2>. QED
    BY ZenonT(60), <2>1, <2>2
<1>5. ASSUME NEW r \in Requests, NEW raw \in RawQueries, Search2(r, raw)
      PROVE  \E i \in 1 .. Len(wire') : wire'[i].op = "EXPIRE" /\ wire'[i].key = q
  <2>1. Normalise[raw] \in Keys /\ Send(<<Get(r, Normalise[raw])>>)
    BY ZenonT(60), <1>5, ConstantsAssumption DEF Search2
  <2>2. <<Get(r, Normalise[raw])>> \in Seq(Command)
    <3>1. Get(r, Normalise[raw]) \in Command
      BY ZenonT(60), <2>1, CommandTypes
    <3>. QED
      BY ZenonT(60), <3>1, SingleCommand
  <2>3. orphans' = orphans /\ dict' = dict /\ expires' = expires
    BY ZenonT(60), <1>5 DEF Search2, redis, keyspace, history
  <2>. QED
    BY ZenonT(60), <1>4, <2>1, <2>2, <2>3
<1>6. ASSUME NEW r \in Requests, LatestSearches(r)
      PROVE  \E i \in 1 .. Len(wire') : wire'[i].op = "EXPIRE" /\ wire'[i].key = q
  <2>1. <<LRangeOf(r)>> \in Seq(Command)
    <3>1. LRangeOf(r) \in Command
      BY ZenonT(60), CommandTypes
    <3>. QED
      BY ZenonT(60), <3>1, SingleCommand
  <2>2. Send(<<LRangeOf(r)>>) /\ orphans' = orphans /\ dict' = dict /\ expires' = expires
    BY ZenonT(60), <1>6 DEF LatestSearches, redis, keyspace, history
  <2>. QED
    BY ZenonT(60), <1>4, <2>1, <2>2
<1>7. CASE StoreTick
  <2>1. PICK k \in Keys, cmds \in Seq(Command) :
          /\ Send(cmds) /\ Len(cmds) >= 2 /\ cmds[2] = Expire(k)
          /\ orphans' = orphans \ {k} /\ dict' = dict /\ expires' = expires
    BY ZenonT(60), <1>7, StoreTickFacts
  <2>2. CASE q \notin orphans
    BY ZenonT(60), <1>4, <2>1, <2>2
  <2>3. CASE q \in orphans
    <3>1. q = k
      BY ZenonT(60), <2>1, <2>3
    <3>2. /\ Len(wire') = Len(wire) + Len(cmds) /\ Len(cmds) \in Nat
          /\ \A j \in 1 .. Len(cmds) : wire'[Len(wire) + j] = cmds[j]
      BY ZenonT(60), <2>1, SendFacts
    <3>3. Len(wire) + 2 \in 1 .. Len(wire') /\ wire'[Len(wire) + 2] = Expire(q)
      BY SMTT(30), <1>0, <2>1, <3>1, <3>2
    <3>. QED
      BY <3>3 DEF Expire
  <2>. QED
    BY ZenonT(60), <2>2, <2>3
<1>8. CASE Execute
  <2>. DEFINE cmd == Head(wire)
  <2>1. /\ Len(wire') = Len(wire) - 1 /\ cmd = wire[1] /\ 1 \in 1 .. Len(wire)
        /\ \A i \in 1 .. Len(wire') : wire'[i] = wire[i + 1]
        /\ orphans' = orphans
    BY SMTT(30), <1>8, TailFacts
  <2>2. ASSUME NEW i \in 2 .. Len(wire), wire[i].op = "EXPIRE", wire[i].key = q
        PROVE  \E j \in 1 .. Len(wire') : wire'[j].op = "EXPIRE" /\ wire'[j].key = q
    <3>1. i - 1 \in 1 .. Len(wire') /\ wire'[i - 1] = wire[i]
      BY <1>0, <2>1
    <3>. QED
      BY SMTT(30), <2>2, <3>1
  <2>3. CASE ExecSet
    <3>1. CASE cmd.key = q
      <4>1. wire[1].op = "SET" /\ wire[1].key = q /\ q \notin orphans
        BY ZenonT(60), <2>1, <2>3, <3>1, ExecSetFacts
      <4>2. 1 + 1 \in 1 .. Len(wire) /\ wire[1 + 1] = Expire(q)
        BY ZenonT(60), <2>1, <4>1 DEF SetHasExpire
      <4>3. 2 \in 2 .. Len(wire) /\ wire[2] = Expire(q)
        BY <1>0, <4>2
      <4>. QED
        BY <2>2, <4>3 DEF Expire
    <3>2. CASE cmd.key # q
      <4>1. dict[q] # Null /\ q \notin expires /\ wire[1].op = "SET"
        BY ZenonT(60), <1>0, <2>1, <2>3, <3>2, ExecSetFacts
      <4>2. PICK i \in 1 .. Len(wire) : wire[i].op = "EXPIRE" /\ wire[i].key = q
        BY ZenonT(60), <1>1, <2>1, <4>1
      <4>3. i # 1
        <5>1. "SET" # "EXPIRE"
          OBVIOUS
        <5>. QED
          BY ZenonT(60), <4>1, <4>2, <5>1
      <4>4. i \in 2 .. Len(wire)
        BY ZenonT(60), <1>0, <4>3, NotFirst
      <4>. QED
        BY ZenonT(60), <2>2, <4>2, <4>4
    <3>. QED
      BY ZenonT(60), <3>1, <3>2
  <2>4. CASE ExecExpire
    <3>1. dict[q] # Null /\ q \notin expires /\ cmd.key # q
      BY ZenonT(60), <2>4, ExecExpireFacts
    <3>2. PICK i \in 1 .. Len(wire) : wire[i].op = "EXPIRE" /\ wire[i].key = q
      BY ZenonT(60), <1>1, <2>1, <3>1
    <3>3. i \in 2 .. Len(wire)
      <4>1. i # 1
        BY ZenonT(60), <2>1, <3>1, <3>2
      <4>. QED
        BY ZenonT(60), <1>0, <4>1, NotFirst
    <3>. QED
      BY ZenonT(60), <2>2, <3>2, <3>3
  <2>5. CASE ~ExecSet /\ ~ExecExpire
    <3>1. dict' = dict /\ expires' = expires /\ wire[1].op # "EXPIRE"
      BY ZenonT(60), <1>8, <2>1, <2>5
         DEF Execute, ExecGet, ExecRPush, ExecZAdd, ExecLRange, Executes, redis, keyspace, history
    <3>2. PICK i \in 1 .. Len(wire) : wire[i].op = "EXPIRE" /\ wire[i].key = q
      BY ZenonT(60), <1>1, <2>1, <3>1
    <3>3. i \in 2 .. Len(wire)
      <4>1. i # 1
        BY ZenonT(60), <3>1, <3>2
      <4>. QED
        BY ZenonT(60), <1>0, <4>1, NotFirst
    <3>. QED
      BY ZenonT(60), <2>2, <3>2, <3>3
  <2>. QED
    BY SMTT(30), <2>3, <2>4, <2>5
<1>9. CASE Loses
  <2>1. PICK pending \in Seq(Command) : \E n \in 0 .. Len(pending) :
          Pending(pending) /\ Lose(pending, n)
    BY ZenonT(60), <1>9, LossCases
  <2>2. PICK n \in 0 .. Len(pending) : Pending(pending) /\ Lose(pending, n)
    BY ZenonT(60), <2>1
  <2>3. /\ Len(pending) \in Nat /\ Len(wire') = n
        /\ \A i \in 1 .. n : wire'[i] = pending[i]
        /\ orphans \subseteq orphans' /\ dict' = dict /\ expires' = expires
        /\ \A i \in 1 .. Len(pending) :
             i \notin 1 .. n /\ pending[i].op = "EXPIRE" => pending[i].key \in orphans'
    BY ZenonT(60), <2>2, LoseFacts
  <2>4. PICK i \in 1 .. Len(wire) : wire[i].op = "EXPIRE" /\ wire[i].key = q
    BY ZenonT(60), <1>1, <2>3
  <2>5. pending[i] = wire[i] /\ Len(wire) <= Len(pending)
    BY ZenonT(60), <2>2 DEF Pending
  <2>6. i \in 1 .. Len(pending)
    BY <1>0, <2>3, <2>5
  <2>7. i \in 1 .. n
    BY ZenonT(60), <2>3, <2>4, <2>5, <2>6
  <2>. QED
    BY ZenonT(60), <2>3, <2>4, <2>5, <2>7
<1>. QED
  BY ZenonT(60), <1>2, <1>3, <1>5, <1>6, <1>7, <1>8, <1>9, WireCases

\* GetsKnown is kept.
LEMMA GetsKnownStep ==
  ASSUME Safe, [Next]_vars
  PROVE  GetsKnown'
<1>. USE DEF Safe
<1>0. /\ wire \in Seq(Command) /\ Len(wire) \in Nat
      /\ dict \in [Keys -> Entry \cup {Null}]
      /\ wire' \in Seq(Command)
  BY TypeStep DEF TypeOK
<1>. SUFFICES ASSUME NEW i \in 1 .. Len(wire'), NEW r \in Requests,
                     wire'[i].op = "GET", wire'[i].req = r
              PROVE  /\ pc'[r] # "idle"
                     /\ wire'[i].key = query'[r]
                     /\ r \in warm' =>
                          \/ dict'[query'[r]] # Null
                          \/ \E j \in 1 .. i - 1 :
                               wire'[j].op = "SET" /\ wire'[j].key = query'[r]
  <2>1. \A i \in 1 .. Len(wire') : wire'[i].op = "GET" => wire'[i].req \in Requests
    BY ZenonT(60), <1>0, ElementCommand, CommandCases
  <2>. QED
    BY ZenonT(60), <2>1 DEF GetsKnown
<1>. DEFINE Covered(n) ==
       \/ dict[query[r]] # Null
       \/ \E j \in 1 .. n : wire[j].op = "SET" /\ wire[j].key = query[r]
<1>1. ASSUME NEW k \in 1 .. Len(wire), wire'[i] = wire[k]
      PROVE  /\ pc[r] # "idle" /\ pc'[r] # "idle"
             /\ query'[r] = query[r]
             /\ wire'[i].key = query[r] /\ query[r] \in Keys
             /\ r \in warm => Covered(k - 1)
  <2>1. /\ pc[r] # "idle" /\ wire[k].key = query[r]
        /\ r \in warm => Covered(k - 1)
    BY ZenonT(60), <1>1 DEF GetsKnown
  <2>2. wire[k].key \in Keys
    <3>1. wire[k] \in Command
      BY ZenonT(60), <1>0, ElementCommand
    <3>2. wire[k].op = "GET"
      BY ZenonT(60), <1>1
    <3>. QED
      BY ZenonT(60), <3>1, <3>2, CommandCases
  <2>. QED
    BY ZenonT(60), <1>1, <2>1, <2>2, Final
<1>. HIDE DEF Covered
<1>. DEFINE Goal ==
       /\ pc'[r] # "idle"
       /\ wire'[i].key = query'[r]
       /\ r \in warm' =>
            \/ dict'[query'[r]] # Null
            \/ \E j \in 1 .. i - 1 : wire'[j].op = "SET" /\ wire'[j].key = query'[r]
<1>2. ASSUME i \in 1 .. Len(wire), \A j \in 1 .. i : wire'[j] = wire[j],
             r \in warm' => r \in warm, dict' = dict
      PROVE  Goal
  <2>1. i \in 1 .. i
    BY ZenonT(60), <1>0, <1>2, UpToItself
  <2>2. \A j \in 1 .. i - 1 : wire'[j] = wire[j]
    BY ZenonT(60), <1>0, <1>2, BeforeIsUpTo
  <2>3. wire'[i] = wire[i]
    BY ZenonT(60), <1>2, <2>1
  <2>4. /\ pc'[r] # "idle" /\ query'[r] = query[r] /\ wire'[i].key = query[r]
        /\ r \in warm => Covered(i - 1)
    BY ZenonT(60), <1>1, <1>2, <2>3
  <2>. QED
    BY ZenonT(60), <1>2, <2>2, <2>4 DEF Covered
<1>3. ASSUME NEW q \in Keys, KeyExpires(q)
      PROVE  Goal
  <2>1. /\ wire' = wire /\ dict' = [dict EXCEPT ![q] = Null]
        /\ r \in warm' => r \in warm /\ query[r] # q
    BY ZenonT(60), <1>3 DEF KeyExpires, ExpireIfNeeded
  <2>. QED
    BY ZenonT(60), <1>0, <1>1, <2>1 DEF Covered
<1>4. ASSUME NEW cmds \in Seq(Command), Send(cmds),
             \A k \in 1 .. Len(cmds) : cmds[k].op # "GET",
             warm' = warm, dict' = dict
      PROVE  Goal
  <2>1. /\ Len(wire') = Len(wire) + Len(cmds) /\ Len(cmds) \in Nat
        /\ \A k \in 1 .. Len(wire) : wire'[k] = wire[k]
        /\ \A k \in 1 .. Len(cmds) : wire'[Len(wire) + k] = cmds[k]
    BY ZenonT(60), <1>4, SendFacts
  <2>2. i \in 1 .. Len(wire)
    <3>1. ASSUME i - Len(wire) \in 1 .. Len(cmds), i = Len(wire) + (i - Len(wire))
          PROVE  FALSE
      <4>1. wire'[i] = cmds[i - Len(wire)]
        BY ZenonT(60), <2>1, <3>1
      <4>. QED
        BY ZenonT(60), <1>4, <3>1, <4>1
    <3>. QED
      BY ZenonT(60), <1>0, <2>1, <3>1, OldOrNew
  <2>3. \A j \in 1 .. i : wire'[j] = wire[j]
    BY ZenonT(60), <1>0, <2>1, <2>2, UpTo
  <2>. QED
    BY ZenonT(60), <1>2, <1>4, <2>2, <2>3
<1>5. ASSUME NEW x \in Requests, NEW raw \in RawQueries, Search2(x, raw)
      PROVE  Goal
  <2>. DEFINE key == Normalise[raw]
              c == Get(x, key)
  <2>1. /\ key \in Keys /\ Send(<<c>>) /\ dict' = dict
        /\ pc[x] = "idle" /\ pc'[x] = "get" /\ query'[x] = key
        /\ warm' = IF Stored(key) THEN warm \cup {x} ELSE warm
    BY ZenonT(60), <1>5, ConstantsAssumption, TypeFacts DEF Search2, Goto, redis, keyspace, history
  <2>2. c \in Command /\ c.req = x /\ c.key = key
    BY ZenonT(60), <2>1, CommandTypes DEF Get
  <2>. HIDE DEF c, key
  <2>3. /\ Len(wire') = Len(wire) + 1
        /\ \A k \in 1 .. Len(wire) : wire'[k] = wire[k]
        /\ wire'[Len(wire) + 1] = c
    <3>1. <<c>> \in Seq(Command) /\ Len(<<c>>) = 1 /\ <<c>>[1] = c
      BY <2>2, SingleCommand
    <3>2. /\ Len(wire') = Len(wire) + Len(<<c>>)
          /\ \A k \in 1 .. Len(wire) : wire'[k] = wire[k]
          /\ \A k \in 1 .. Len(<<c>>) : wire'[Len(wire) + k] = <<c>>[k]
      BY ZenonT(60), <2>1, <3>1, SendFacts
    <3>3. 1 \in 1 .. Len(<<c>>)
      BY ZenonT(60), <2>2, SingleCommand
    <3>. QED
      BY ZenonT(60), <3>1, <3>2, <3>3
  <2>4. CASE i \in 1 .. Len(wire)
    <3>1. wire'[i] = wire[i] /\ pc[r] # "idle"
      BY ZenonT(60), <1>1, <2>3, <2>4
    <3>2. r \in warm' => r \in warm
      BY ZenonT(60), <2>1, <3>1
    <3>3. \A j \in 1 .. i : wire'[j] = wire[j]
      BY ZenonT(60), <1>0, <2>3, <2>4, UpTo
    <3>. QED
      BY <1>2, <2>1, <2>4, <3>2, <3>3
  <2>5. CASE i = Len(wire) + 1
    <3>1. r = x /\ wire'[i].key = key
      BY ZenonT(60), <2>2, <2>3, <2>5
    <3>2. x \notin warm
      BY ZenonT(60), <2>1 DEF WarmSteps
    <3>3. x \in warm' => Stored(key)
      BY ZenonT(60), <2>1, <3>2
    <3>4. ASSUME Stored(key), dict[key] = Null
          PROVE  \E j \in 1 .. i - 1 : wire'[j].op = "SET" /\ wire'[j].key = key
      <4>1. PICK j \in 1 .. Len(wire) : wire[j].op = "SET" /\ wire[j].key = key
        BY <3>4 DEF Stored
      <4>2. j \in 1 .. i - 1 /\ wire'[j] = wire[j]
        BY SMTT(30), <1>0, <2>3, <2>5
      <4>. QED
        BY ZenonT(60), <4>1, <4>2
    <3>. QED
      BY ZenonT(60), <2>1, <3>1, <3>3, <3>4
  <2>6. i \in 1 .. Len(wire) \/ i = Len(wire) + 1
    BY <1>0, <2>3
  <2>. QED
    BY <2>4, <2>5, <2>6
<1>6. ASSUME NEW x \in Requests, LatestSearches(x)
      PROVE  Goal
  <2>. DEFINE c == LRangeOf(x)
  <2>1. Send(<<c>>) /\ warm' = warm /\ dict' = dict
    BY ZenonT(60), <1>6 DEF LatestSearches, redis, keyspace, history
  <2>2. c \in Command /\ c.op # "GET"
    BY SMTT(30), CommandTypes DEF LRangeOf
  <2>. HIDE DEF c
  <2>3. /\ <<c>> \in Seq(Command)
        /\ \A k \in 1 .. Len(<<c>>) : <<c>>[k].op # "GET"
    BY <2>2, SingleCommand
  <2>. HIDE DEF Goal
  <2>. QED
    BY ZenonT(60), <1>4, <2>1, <2>3
<1>7. CASE StoreTick
  <2>1. PICK q \in Keys, cmds \in Seq(Command) :
           /\ Send(cmds)
           /\ cmds[1].op = "SET" /\ cmds[2] = Expire(q)
           /\ \A k \in 3 .. Len(cmds) : cmds[k].op \in {"RPUSH", "ZADD"}
           /\ warm' = warm /\ dict' = dict
    BY ZenonT(60), <1>7, StoreTickFacts
  <2>2. cmds[2].op = "EXPIRE"
    BY SMTT(30), <2>1 DEF Expire
  <2>3. \A k \in 1 .. Len(cmds) : cmds[k].op # "GET"
    BY <2>1, <2>2
  <2>. QED
    BY ZenonT(60), <1>4, <2>1, <2>3
<1>8. CASE Execute
  <2>1. /\ Len(wire') = Len(wire) - 1 /\ 1 \in 1 .. Len(wire)
        /\ \A k \in 1 .. Len(wire') : wire'[k] = wire[k + 1]
        /\ warm' = warm
    BY <1>8, TailFacts
  <2>2. i + 1 \in 1 .. Len(wire) /\ wire'[i] = wire[i + 1]
    <3>1. Len(wire) \in Nat /\ Len(wire') = Len(wire) - 1
      BY ZenonT(60), <1>0, <2>1
    <3>2. i + 1 \in 1 .. Len(wire)
      BY <3>1
    <3>. QED
      BY ZenonT(60), <2>1, <3>2
  <2>3. /\ pc'[r] # "idle" /\ query'[r] = query[r]
        /\ wire'[i].key = query[r] /\ query[r] \in Keys
        /\ r \in warm => Covered(i)
    <3>1. /\ pc'[r] # "idle" /\ query'[r] = query[r]
          /\ wire'[i].key = query[r] /\ query[r] \in Keys
          /\ r \in warm => Covered((i + 1) - 1)
      BY ZenonT(60), <1>1, <2>2
    <3>2. (i + 1) - 1 = i
      <4>1. Len(wire') \in Nat
        BY ZenonT(60), <1>0, LenProperties
      <4>. QED
        BY ZenonT(60), <4>1, Neighbours
    <3>. QED
      BY ZenonT(60), <3>1, <3>2
  <2>4. /\ dict[query[r]] # Null => dict'[query[r]] # Null
        /\ wire[1].op = "SET" /\ wire[1].key = query[r] => dict'[query[r]] # Null
    <3>1. CASE ExecSet
      BY ZenonT(60), <1>0, <2>3, <3>1, ExecSetFacts, NullAssumption
    <3>2. CASE ~ExecSet
      <4>1. dict' = dict
        BY ZenonT(60), <1>8, <3>2 DEF Execute, ExecGet, ExecExpire, ExpireCommand, ExecRPush,
                          ExecZAdd, ExecLRange, redis, keyspace, history
      <4>2. wire[1].op # "SET"
        BY ZenonT(60), <1>8, <3>2, TailFacts
           DEF Execute, ExecGet, ExecExpire, ExecRPush, ExecZAdd, ExecLRange, Executes
      <4>. QED
        BY <4>1, <4>2
    <3>. QED
      BY ZenonT(60), <3>1, <3>2
  <2>5. ASSUME NEW j \in 2 .. i, wire[j].op = "SET", wire[j].key = query[r]
        PROVE  \E m \in 1 .. i - 1 : wire'[m].op = "SET" /\ wire'[m].key = query[r]
    <3>1. j - 1 \in 1 .. i - 1 /\ wire'[j - 1] = wire[j]
      BY <1>0, <2>1
    <3>. QED
      BY ZenonT(60), <2>5, <3>1
  <2>6. ASSUME r \in warm, dict'[query[r]] = Null
        PROVE  \E j \in 2 .. i : wire[j].op = "SET" /\ wire[j].key = query[r]
    <3>1. PICK j \in 1 .. i : wire[j].op = "SET" /\ wire[j].key = query[r]
      BY <2>3, <2>4, <2>6 DEF Covered
    <3>2. j # 1
      BY ZenonT(60), <2>4, <2>6, <3>1
    <3>3. i \in Nat
      <4>1. Len(wire') \in Nat
        BY ZenonT(60), <1>0, LenProperties
      <4>. QED
        BY ZenonT(60), <4>1, PositionNat
    <3>. QED
      BY ZenonT(60), <3>1, <3>2, <3>3, NotFirst
  <2>. QED
    BY ZenonT(60), <2>1, <2>3, <2>5, <2>6
<1>9. CASE Loses
  <2>1. warm' = {} /\ \E k \in 1 .. Len(wire) : wire'[i] = wire[k]
    <3>1. TypeOK /\ QueriesKnown
      BY ZenonT(60)
    <3>. QED
      BY ZenonT(60), <1>9, <3>1, LossFacts
  <2>. QED
    BY ZenonT(60), <1>1, <2>1
<1>10. CASE wire' = wire /\ warm' = warm /\ dict' = dict
  BY <1>0, <1>2, <1>10
<1>. QED
  BY ZenonT(60), <1>3, <1>5, <1>6, <1>7, <1>8, <1>9, <1>10, WireCases

\* WarmSteps is kept.
LEMMA WarmStepsStep ==
  ASSUME Safe, [Next]_vars
  PROVE  WarmSteps'
<1>. USE DEF Safe
<1>. SUFFICES ASSUME NEW x \in Requests, x \in warm'
              PROVE  /\ pc'[x] \in {"get", "reply", "end"}
                     /\ pc'[x] = "reply" => got'[x] # Null
  <2>1. warm' \subseteq Requests
    BY ZenonT(60), TypeStep DEF TypeOK
  <2>. QED
    BY ZenonT(60), <2>1 DEF WarmSteps
<1>. DEFINE Goal == /\ pc'[x] \in {"get", "reply", "end"}
                    /\ pc'[x] = "reply" => got'[x] # Null
<1>1. ASSUME x \in warm, pc'[x] = pc[x], got'[x] = got[x]
      PROVE  Goal
  BY ZenonT(60), <1>1 DEF WarmSteps
<1>2. ASSUME NEW r \in Requests, Arrive(r)
      PROVE  Goal
  <2>1. got' = got
    BY ZenonT(60), <1>2 DEF Arrive, Search2, Search2Throws, Tags, LatestSearches
  <2>2. CASE x # r
    <3>1. pc'[x] = pc[x]
      BY <1>2, <2>2, OthersUntouched
    <3>2. x \in warm
      BY ZenonT(60), <1>2, <2>2 DEF Arrive, Search2, Search2Throws, Tags, LatestSearches, history
    <3>. QED
      BY ZenonT(60), <1>1, <2>1, <3>1, <3>2
  <2>3. CASE x = r
    <3>1. x \notin warm
      BY ZenonT(60), <1>2, <2>3, ArriveOwn DEF WarmSteps
    <3>2. PICK raw \in RawQueries : Search2(r, raw)
      BY ZenonT(60), <1>2, <3>1 DEF Arrive, Search2Throws, Tags, LatestSearches, history
    <3>. QED
      BY ZenonT(60), <2>3, <3>2 DEF Search2, Goto, TypeOK
  <2>. QED
    BY <2>2, <2>3
<1>3. ASSUME NEW r \in Requests, Proceed(r)
      PROVE  Goal
  <2>1. got' = got /\ warm' = warm
    BY ZenonT(60), <1>3
       DEF Proceed, CacheHit, CacheMiss, SearchFinds, DetailsAnswer,
           DetailsUnparsable, SpotifyRejects, LastfmAnswer, LastfmFails,
           TagsAnswer, TagsFail, LatestReply, history
  <2>2. CASE x # r
    BY ZenonT(60), <1>1, <1>3, <2>1, <2>2, OthersUntouched
  <2>3. CASE x = r
    <3>1. /\ pc[r] \in {"get", "reply", "end"}
          /\ pc[r] = "reply" => got[r] # Null
      BY <2>1, <2>3 DEF WarmSteps
    <3>2. CacheHit(r)
      BY ZenonT(60), <1>3, <3>1
         DEF Proceed, CacheMiss, SearchFinds, DetailsAnswer,
             DetailsUnparsable, SpotifyRejects, LastfmAnswer, LastfmFails,
             TagsAnswer, TagsFail, LatestReply
    <3>. QED
      BY ZenonT(60), <2>3, <3>2 DEF CacheHit, Goto, TypeOK
  <2>. QED
    BY <2>2, <2>3
<1>4. CASE ExecGet
  <2>. DEFINE cmd == Head(wire)
  <2>1. /\ warm' = warm /\ cmd = wire[1] /\ 1 \in 1 .. Len(wire) /\ cmd.op = "GET"
    BY ZenonT(60), <1>4, TailFacts DEF Execute, ExecGet, Executes
  <2>2. cmd.req \in Requests /\ cmd.key \in Keys
    <3>1. wire[1] \in Command /\ wire[1].op = "GET"
      BY <2>1, TypeFacts
    <3>2. wire[1].req \in Requests /\ wire[1].key \in Keys
      BY ZenonT(60), <3>1, CommandCases
    <3>. QED
      BY ZenonT(60), <2>1, <3>2
  <2>3. CASE x # cmd.req \/ pc[cmd.req] # "get"
    BY ZenonT(60), <1>1, <1>4, <2>1, <2>2, <2>3 DEF ExecGet, Goto, TypeOK
  <2>4. CASE x = cmd.req /\ pc[cmd.req] = "get"
    <3>1. cmd.key = query[x] /\ dict[query[x]] # Null
      <4>1. /\ wire[1].op = "GET" /\ wire[1].req = x /\ 1 \in 1 .. Len(wire)
            /\ x \in warm
        BY <2>1, <2>4
      <4>2. /\ wire[1].key = query[x]
            /\ \/ dict[query[x]] # Null
               \/ \E j \in 1 .. 1 - 1 : wire[j].op = "SET" /\ wire[j].key = query[x]
        BY ZenonT(60), <4>1 DEF GetsKnown
      <4>. QED
        BY SMTT(30), <2>1, <4>2
    <3>2. got'[x] = dict[cmd.key] /\ pc'[x] = "reply"
      BY ZenonT(60), <1>4, <2>2, <2>4 DEF ExecGet, Goto, TypeOK
    <3>. QED
      BY ZenonT(60), <3>1, <3>2
  <2>. QED
    BY <2>3, <2>4
<1>5. CASE ExecLRange
  <2>1. warm' = warm /\ got' = got /\ pc[x] # "lrange"
    BY <1>5 DEF ExecLRange, WarmSteps, history
  <2>2. pc'[x] = pc[x]
    BY ZenonT(60), <1>5, <2>1 DEF ExecLRange, Goto, TypeOK
  <2>. QED
    BY ZenonT(60), <1>1, <2>1, <2>2
<1>6. CASE Execute /\ ~ExecGet /\ ~ExecLRange
  BY <1>1, <1>6 DEF Execute, ExecSet, ExecExpire, ExecRPush, ExecZAdd, server, history
<1>7. ASSUME NEW q \in Keys, KeyExpires(q)
      PROVE  Goal
  BY ZenonT(60), <1>1, <1>7 DEF KeyExpires, server
<1>8. CASE StoreTick \/ Restart \/ UNCHANGED vars
  BY ZenonT(60), <1>1, <1>8 DEF StoreTick, Restart, vars, server, history
<1>9. CASE Loses
  BY <1>9, LossFacts
<1>. QED
  BY ZenonT(60), <1>2, <1>3, <1>4, <1>5, <1>6, <1>7, <1>8, <1>9, StepCases
     DEF Background, Callback, Loses

(***************************************************************************)
(* Theorems.                                                               *)
(***************************************************************************)

\* The inductive invariant holds in every state of the API server.
THEOREM SafeAlways == Spec => []Safe
<1>1. Init => Safe
  BY InitSafe
<1>2. Safe /\ [Next]_vars => Safe'
  <2>. SUFFICES ASSUME Safe, [Next]_vars
                PROVE  Safe'
    OBVIOUS
  <2>1. TypeOK' /\ QueriesKnown' /\ NotYetSent'
    BY TypeStep, QueriesKnownStep, NotYetSentStep DEF Safe
  <2>2. ExpiresInDict' /\ StoredWasSent' /\ WrittenWasSent'
    BY ExpiresInDictStep, StoredWasSentStep, WrittenWasSentStep DEF Safe
  <2>3. EntryWillExpire' /\ SetHasExpire'
    BY EntryWillExpireStep, SetHasExpireStep DEF Safe
  <2>4. GetsKnown' /\ WarmSteps'
    BY GetsKnownStep, WarmStepsStep
  <2>. QED
    BY <2>1, <2>2, <2>3, <2>4 DEF Safe
<1>. QED
  BY <1>1, <1>2, PTL DEF Spec

\* The variables of the API server keep their types.
THEOREM TypeCorrect == Spec => []TypeOK
<1>1. Safe => TypeOK
  BY DEF Safe
<1>. QED
  BY <1>1, SafeAlways, PTL

\* The assertion of getExpire (db.c:779) never fails for the keys of the
\* application.
THEOREM ExpiresAlwaysInDict == Spec => []ExpiresInDict
<1>1. Safe => ExpiresInDict
  BY DEF Safe
<1>. QED
  BY <1>1, SafeAlways, PTL

\* Whatever number of searches run at once, an entry of the cache was sent to
\* a client that asked for its query (api.js:125-129).
THEOREM CacheHoldsWhatWasSent == Spec => []StoredWasSent
<1>1. Safe => StoredWasSent
  BY DEF Safe
<1>. QED
  BY <1>1, SafeAlways, PTL

\* Every entry of the cache has a time to live or an EXPIRE on its way, unless
\* its own EXPIRE was lost and none was sent since (api.js:129-130).
THEOREM CacheExpires == Spec => []EntryWillExpire
<1>1. Safe => EntryWillExpire
  BY DEF Safe
<1>. QED
  BY <1>1, SafeAlways, PTL

\* A search finds the entry that was written before it (api.js:68-77).
THEOREM SearchesSeeWrites == Spec => []ReadYourWrites
<1>1. Safe => ReadYourWrites
  BY DEF Safe, WarmSteps, ReadYourWrites
<1>. QED
  BY <1>1, SafeAlways, PTL

=============================================================================
