----------------------------- MODULE SearchApi -----------------------------
(***************************************************************************)
(* The JSON API of the server: routes/api.js with the Spotify and Last.fm  *)
(* wrappers of settings/settings.js, one Node process, its connection to   *)
(* Redis and the Redis keyspace behind it.                                 *)
(*                                                                         *)
(* A request runs as a chain of promise callbacks.  Each callback is one   *)
(* step, started by an answer from Redis, Spotify or Last.fm; the chains   *)
(* of different requests interleave at these points only.                  *)
(***************************************************************************)
EXTENDS RedisKeyspace, FiniteSets

CONSTANTS
    Requests,     \* HTTP requests to /api, each made once
    RawQueries,   \* req.body.query as it arrives
    Normalise,    \* toLowerCase().trim(): raw query -> key of Keys, or Blank
    Blank,        \* the empty string
    Names,        \* artist names as Spotify spells them
    Undefined,    \* JavaScript's undefined
    Shown,        \* how many latest searches are shown (5 in the code)
    MaxFaults     \* bound on connection losses and kills of the process

ASSUME ConstantsAssumption ==
    /\ Null \notin Keys \cup Requests
    /\ Blank \notin Keys
    /\ Undefined \notin Keys \cup Names \cup RawQueries
    /\ Normalise \in [RawQueries -> Keys \cup {Blank}]
    /\ Shown \in Nat \ {0}
    /\ MaxFaults \in Nat

VARIABLES
    up,       \* the Node process is running
    pc,       \* pc[r]: what the promise chain of r waits for
    query,    \* query[r]: query_string of a search, Null for other routes
    got,      \* got[r]: the reply to the GET of r
    spot,     \* spot[r]: retrieved_data[0], the Spotify half of the answer
    res,      \* res[r]: the response sent for r, or Null
    ticks,    \* requests whose process.nextTick callbacks are pending
    wire,     \* commands written to the Redis connection, not yet executed
    latest,   \* the Redis list "latestsearches"
    highpf,   \* the Redis sorted set "highpf"
    listed,   \* listed[r]: the reply to the LRANGE of r
    faults,   \* number of connection losses and kills so far
    cut,      \* history: commands may have been lost from the connection
    warm,     \* history: searches made while their entry was stored or on
              \* its way to Redis, and not expired or lost since
    orphans,  \* history: keys whose EXPIRE was lost, and not sent again since
    due       \* history: due[r]: how many names were recorded, or on their
              \* way to Redis, when r asked for the latest searches

server  == <<up, pc, query, got, spot, res, ticks, listed>>
redis   == <<keyspace, latest, highpf>>
history == <<cut, warm, orphans, due>>
vars    == <<server, redis, wire, faults, history>>

(***************************************************************************)
(* Data.                                                                   *)
(***************************************************************************)

\* retrieved_data[0]: fulfilled with the parsed artist details, whose name is
\* Undefined when Spotify answered with an error object, or rejected with "".
SpotifyPart ==
    [state : {"fulfilled"}, name : Names \cup {Undefined}]
        \cup [state : {"rejected"}, name : {Undefined}]

NoPart == [state |-> "rejected", name |-> Undefined]

\* What Last.fm can be asked for: a query or a name, or "undefined".
Artist == Keys \cup Names \cup {Undefined}

\* retrieved_data as sent and stored.  asked: the artist name given to
\* Last.fm.  found: Last.fm's answer has an artist.  high: the playcount per
\* follower is above 60 with more than 10000 followers.
Entry ==
    [state : {"fulfilled", "rejected"}, name : Names \cup {Undefined},
     asked : Artist, found : BOOLEAN, high : BOOLEAN]

Response == [status : {200, 500}, cached : BOOLEAN, data : Entry \cup {Null}]

ASSUME NullAssumption == Null \notin Entry \cup Response

Command ==
    UNION {[op : {"GET"},    req : Requests, key : Keys,   val : {Null}],
           [op : {"SET"},    req : {Null},   key : Keys,   val : Entry],
           [op : {"EXPIRE"}, req : {Null},   key : Keys,   val : {Null}],
           [op : {"RPUSH"},  req : {Null},   key : {Null}, val : Artist],
           [op : {"ZADD"},   req : {Null},   key : {Null}, val : Entry],
           [op : {"LRANGE"}, req : Requests, key : {Null}, val : {Null}]}

Get(r, q)    == [op |-> "GET", req |-> r, key |-> q, val |-> Null]
Set(q, e)    == [op |-> "SET", req |-> Null, key |-> q, val |-> e]
Expire(q)    == [op |-> "EXPIRE", req |-> Null, key |-> q, val |-> Null]
RPush(n)     == [op |-> "RPUSH", req |-> Null, key |-> Null, val |-> n]
ZAdd(e)      == [op |-> "ZADD", req |-> Null, key |-> Null, val |-> e]
LRangeOf(r)  == [op |-> "LRANGE", req |-> r, key |-> Null, val |-> Null]

Steps ==
    {"idle", "get", "reply", "search", "details", "lastfm", "tags", "lrange",
     "list", "end", "sendThrew", "noDetails", "noLastfm", "lost"}

TypeOK ==
    /\ dict \in [Keys -> Entry \cup {Null}]
    /\ expires \subseteq Keys
    /\ up \in BOOLEAN
    /\ pc \in [Requests -> Steps]
    /\ query \in [Requests -> Keys \cup {Null, Blank}]
    /\ got \in [Requests -> Entry \cup {Null}]
    /\ spot \in [Requests -> SpotifyPart]
    /\ res \in [Requests -> Response \cup {Null}]
    /\ ticks \in Seq(Requests)
    /\ wire \in Seq(Command)
    /\ latest \in Seq(Artist)
    /\ highpf \subseteq Entry
    /\ listed \in [Requests -> Seq(Artist)]
    /\ faults \in 0 .. MaxFaults
    /\ cut \in BOOLEAN
    /\ warm \subseteq Requests
    /\ orphans \subseteq Keys
    /\ due \in [Requests -> Nat]

Init ==
    /\ KeyspaceInit
    /\ up = TRUE
    /\ pc = [r \in Requests |-> "idle"]
    /\ query = [r \in Requests |-> Null]
    /\ got = [r \in Requests |-> Null]
    /\ spot = [r \in Requests |-> NoPart]
    /\ res = [r \in Requests |-> Null]
    /\ ticks = <<>>
    /\ wire = <<>>
    /\ latest = <<>>
    /\ highpf = {}
    /\ listed = [r \in Requests |-> <<>>]
    /\ faults = 0
    /\ cut = FALSE
    /\ warm = {}
    /\ orphans = {}
    /\ due = [r \in Requests |-> 0]

(***************************************************************************)
(* Node steps.  A request arrives as an event of its own, and Node runs    *)
(* the pending nextTick callbacks before the next event.  Q runs all ready *)
(* promise callbacks in one event, so these may come before a nextTick     *)
(* callback that one of them has scheduled.                                *)
(***************************************************************************)

Event == up /\ ticks = <<>>

Goto(r, step) == pc' = [pc EXCEPT ![r] = step]

Respond(r, status, cached, data) ==
    res' = [res EXCEPT
              ![r] = [status |-> status, cached |-> cached, data |-> data]]

\* The last handler of app.js: what a route throws is answered with a 500.
ErrorHandler(r) == Respond(r, 500, FALSE, Null)

\* node_redis writes commands to the connection in the order of the calls.
Send(cmds) == wire' = wire \o cmds

\* An entry for q is in Redis, or its SET is on the connection.
Stored(q) ==
    \/ dict[q] # Null
    \/ \E i \in 1 .. Len(wire) : wire[i].op = "SET" /\ wire[i].key = q

\* POST /search2 with a query: ask Redis for the entry of the query.
Search2(r, raw) ==
    /\ Event /\ pc[r] = "idle"
    /\ raw # Undefined /\ Normalise[raw] # Blank
    /\ query' = [query EXCEPT ![r] = Normalise[raw]]
    /\ Send(<<Get(r, Normalise[raw])>>)
    /\ Goto(r, "get")
    /\ warm' = IF Stored(Normalise[raw]) THEN warm \cup {r} ELSE warm
    /\ UNCHANGED <<up, got, spot, res, ticks, listed, redis, faults, cut, orphans, due>>

\* POST /search2 without a usable query.  A missing one has no toLowerCase;
\* for an empty one send_bad_request_response is called with the message in
\* the place of res, which has no status method.  Both throw a TypeError out
\* of the route.
Search2Throws(r, raw) ==
    /\ Event /\ pc[r] = "idle"
    /\ IF raw = Undefined
         THEN UNCHANGED query
         ELSE /\ Normalise[raw] = Blank
              /\ query' = [query EXCEPT ![r] = Blank]
    /\ ErrorHandler(r)
    /\ Goto(r, "end")
    /\ UNCHANGED <<up, got, spot, ticks, listed, redis, wire, faults, history>>

\* The reply to GET is an entry: both spreads pass it on and it is sent.
CacheHit(r) ==
    /\ up /\ pc[r] = "reply" /\ got[r] # Null
    /\ Respond(r, 200, TRUE, got[r])
    /\ Goto(r, "end")
    /\ UNCHANGED <<up, query, got, spot, ticks, listed, redis, wire, faults, history>>

\* A mistaken callback that does not look at the reply.
MissAnyway(r) ==
    /\ up /\ pc[r] = "reply"
    /\ Goto(r, "search")
    /\ UNCHANGED <<up, query, got, spot, res, ticks, listed, redis, wire, faults, history>>

\* The reply to GET is nil: start get_details_without_artist_before, which
\* searches Spotify for the query.
CacheMiss(r) ==
    /\ up /\ pc[r] = "reply" /\ got[r] = Null
    /\ Goto(r, "search")
    /\ UNCHANGED <<up, query, got, spot, res, ticks, listed, redis, wire, faults, history>>

\* The Spotify search found an artist with an id: ask for its details.
SearchFinds(r) ==
    /\ up /\ pc[r] = "search"
    /\ Goto(r, "details")
    /\ UNCHANGED <<up, query, got, spot, res, ticks, listed, redis, wire, faults, history>>

\* The details of the artist, or an error object without a name: fulfilled
\* either way, and Last.fm is asked for the name.
DetailsAnswer(r, name) ==
    /\ up /\ pc[r] = "details"
    /\ spot' = [spot EXCEPT ![r] = [state |-> "fulfilled", name |-> name]]
    /\ Goto(r, "lastfm")
    /\ UNCHANGED <<up, query, got, res, ticks, listed, redis, wire, faults, history>>

\* The details are no JSON: JSON.parse throws in the callback of the first
\* spread, the rejection handler of the second one logs it, and nothing is
\* ever sent.
DetailsUnparsable(r) ==
    /\ up /\ pc[r] = "details"
    /\ Goto(r, "noDetails")
    /\ UNCHANGED <<up, query, got, spot, res, ticks, listed, redis, wire, faults, history>>

\* A mistaken chain that has no rejection handler for Spotify's promise.
SpotifyUnhandled(r, notfound) ==
    /\ up /\ pc[r] \in {"search", "details"}
    /\ Goto(r, "end")
    /\ UNCHANGED <<up, query, got, spot, res, ticks, listed, redis, wire, faults, history>>

\* Spotify's promise is rejected: a network error in either call, a search
\* answer that is no JSON or has no artist id.  When the host was not found
\* the client gets a 500 at once.  In every case the chain goes on to ask
\* Last.fm for the query itself.
SpotifyRejects(r, notfound) ==
    /\ up /\ pc[r] \in {"search", "details"}
    /\ IF notfound THEN Respond(r, 500, FALSE, Null) ELSE UNCHANGED res
    /\ Goto(r, "lastfm")
    /\ UNCHANGED <<up, query, got, spot, ticks, listed, redis, wire, faults, history>>

\* The artist name given to LastFM.artist.get_info.
Asked(r) == IF spot[r].state = "fulfilled" THEN spot[r].name ELSE query[r]

\* A mistaken answer that leaves the Last.fm half out.
SpotifyHalf(r, found, high) == spot[r]

RetrievedData(r, found, high) ==
    [state |-> spot[r].state, name |-> spot[r].name, asked |-> Asked(r),
     found |-> found, high |-> high]

\* res.send throws once a response has been sent.
HeadersSent(r) == res[r] # Null

\* Last.fm answered with JSON: send the pair and schedule the callback that
\* stores it.  After an earlier 500 res.send throws, the rejection of this
\* callback's promise is nobody's, and nothing is stored.  A high ratio takes
\* both the followers of Spotify's artist and the playcount of Last.fm's.
LastfmAnswer(r, found, high) ==
    /\ up /\ pc[r] = "lastfm"
    /\ high => found /\ spot[r].name # Undefined
    /\ IF HeadersSent(r)
         THEN /\ Goto(r, "sendThrew")
              /\ UNCHANGED <<res, ticks>>
         ELSE /\ Respond(r, 200, FALSE, RetrievedData(r, found, high))
              /\ ticks' = Append(ticks, r)
              /\ Goto(r, "end")
    /\ UNCHANGED <<up, query, got, spot, listed, redis, wire, faults, history>>

\* Last.fm failed or did not answer with JSON: no handler, nothing is sent.
LastfmFails(r) ==
    /\ up /\ pc[r] = "lastfm"
    /\ Goto(r, IF HeadersSent(r) THEN "end" ELSE "noLastfm")
    /\ UNCHANGED <<up, query, got, spot, res, ticks, listed, redis, wire, faults, history>>

(***************************************************************************)
(* Losses.  Of the commands pending on the Redis connection the first n    *)
(* still reach Redis.  Requests in progress are lost with the process.     *)
(***************************************************************************)

LostExpires(pending, n) ==
    {pending[i].key : i \in {j \in n + 1 .. Len(pending) : pending[j].op = "EXPIRE"}}

Lose(pending, n) ==
    /\ wire' = SubSeq(pending, 1, n)
    /\ cut' = TRUE
    /\ warm' = {}
    /\ orphans' = orphans \cup LostExpires(pending, n)
    /\ UNCHANGED <<redis, due>>

Waiting == {"get", "reply", "search", "details", "lastfm", "tags", "lrange", "list"}

Crash(pending, n) ==
    /\ Lose(pending, n)
    /\ up' = FALSE
    /\ ticks' = <<>>
    /\ pc' = [r \in Requests |-> IF pc[r] \in Waiting THEN "lost" ELSE pc[r]]
    /\ UNCHANGED <<query, got, spot, res, listed>>

(***************************************************************************)
(* The nextTick callback that stores an answer after it was sent.          *)
(***************************************************************************)

\* getName: Spotify's name, else Last.fm's; a TypeError when Last.fm's answer
\* has no artist either.
GetNameThrows(e) == e.name = Undefined /\ ~e.found

GetName(e) == IF e.name # Undefined THEN e.name ELSE e.asked

\* A mistaken query_string shared by all requests: a later search has
\* overwritten it by the time the callback runs.
SharedKey(r) ==
    LET later == {x \in Requests : pc[x] = "get"}
    IN  IF later = {} THEN query[r] ELSE query[CHOOSE x \in later : TRUE]

\* The query_string the callback of r closes over.
StoreKey(r) == query[r]

\* A mistaken order of the two commands.
ExpireThenSet(q, e) == <<Expire(q), Set(q, e)>>

SetThenExpire(q, e) == <<Set(q, e), Expire(q)>>

\* A mistaken callback that records only the artists Spotify knows.
PushSpotifyName(e) == IF e.name # Undefined THEN <<RPush(e.name)>> ELSE <<>>

PushName(e) == <<RPush(GetName(e))>>

Rank(e) == IF e.high THEN <<ZAdd(e)>> ELSE <<>>

\* SET, EXPIRE, RPUSH, and ZADD for a high ratio.
StoreTick ==
    /\ up /\ ticks # <<>>
    /\ LET r == Head(ticks)
           e == res[r].data
       IN  /\ ~GetNameThrows(e)
           /\ Send(SetThenExpire(StoreKey(r), e) \o PushName(e) \o Rank(e))
           /\ orphans' = orphans \ {StoreKey(r)}
    /\ ticks' = Tail(ticks)
    /\ UNCHANGED <<up, pc, query, got, spot, res, listed, redis, faults, cut, warm, due>>

\* When getName throws it does so after SET and EXPIRE and outside the try:
\* the exception is uncaught and ends the process.
StoreTickThrows ==
    /\ up /\ ticks # <<>>
    /\ LET r == Head(ticks)
           e == res[r].data
           pending == wire \o SetThenExpire(StoreKey(r), e)
       IN  /\ GetNameThrows(e)
           /\ \E n \in 0 .. Len(pending) : Crash(pending, n)
    /\ UNCHANGED faults

(***************************************************************************)
(* The other routes.                                                       *)
(***************************************************************************)

\* GET /tags/:artist asks Last.fm for the top tags.
Tags(r) ==
    /\ Event /\ pc[r] = "idle"
    /\ Goto(r, "tags")
    /\ UNCHANGED <<up, query, got, spot, res, ticks, listed, redis, wire, faults, history>>

TagsAnswer(r) ==
    /\ up /\ pc[r] = "tags"
    /\ Respond(r, 200, FALSE, Null)
    /\ Goto(r, "end")
    /\ UNCHANGED <<up, query, got, spot, ticks, listed, redis, wire, faults, history>>

\* A failure of Last.fm or a body that is no JSON has no handler.
TagsFail(r) ==
    /\ up /\ pc[r] = "tags"
    /\ Goto(r, "noLastfm")
    /\ UNCHANGED <<up, query, got, spot, res, ticks, listed, redis, wire, faults, history>>

\* The RPUSHes among the first n commands.
Pushes(cmds, n) == {i \in 1 .. n : cmds[i].op = "RPUSH"}

\* How many names are in the list or on their way to it.
Recorded == Len(latest) + Cardinality(Pushes(wire, Len(wire)))

\* GET /latestsearches reads the end of the list.
LatestSearches(r) ==
    /\ Event /\ pc[r] = "idle"
    /\ Send(<<LRangeOf(r)>>)
    /\ Goto(r, "lrange")
    /\ due' = [due EXCEPT ![r] = Recorded]
    /\ UNCHANGED <<up, query, got, spot, res, ticks, listed, redis, faults, cut, warm, orphans>>

LatestReply(r) ==
    /\ up /\ pc[r] = "list"
    /\ Respond(r, 200, FALSE, Null)
    /\ Goto(r, "end")
    /\ UNCHANGED <<up, query, got, spot, ticks, listed, redis, wire, faults, history>>

(***************************************************************************)
(* Redis executes the commands of the connection in order.  A reply to a   *)
(* request of an ended process goes nowhere.                               *)
(***************************************************************************)

Executes(op) == wire # <<>> /\ Head(wire).op = op /\ wire' = Tail(wire)

ExecGet ==
    LET cmd == Head(wire) IN
    /\ Executes("GET")
    /\ IF pc[cmd.req] = "get"
         THEN /\ got' = [got EXCEPT ![cmd.req] = dict[cmd.key]]
              /\ Goto(cmd.req, "reply")
         ELSE UNCHANGED <<got, pc>>
    /\ UNCHANGED <<up, query, spot, res, ticks, listed, redis, faults, history>>

ExecSet ==
    /\ Executes("SET")
    /\ SetCommand(Head(wire).key, Head(wire).val)
    /\ UNCHANGED <<server, latest, highpf, faults, history>>

ExecExpire ==
    /\ Executes("EXPIRE")
    /\ ExpireCommand(Head(wire).key)
    /\ UNCHANGED <<server, latest, highpf, faults, history>>

ExecRPush ==
    /\ Executes("RPUSH")
    /\ latest' = Append(latest, Head(wire).val)
    /\ UNCHANGED <<server, keyspace, highpf, faults, history>>

\* The member is the entry as JSON and its score the ratio of the numbers in
\* it, so that a ZADD of an existing member leaves its score as it is.
ExecZAdd ==
    /\ Executes("ZADD")
    /\ highpf' = highpf \cup {Head(wire).val}
    /\ UNCHANGED <<server, keyspace, latest, faults, history>>

\* A mistaken range: the first names of the list.
FirstShown(list) == LRange(list, 0, Shown - 1)

\* "latestsearches", -5, -1.
LastShown(list) == LRange(list, -Shown, -1)

ExecLRange ==
    LET cmd == Head(wire) IN
    /\ Executes("LRANGE")
    /\ IF pc[cmd.req] = "lrange"
         THEN /\ listed' = [listed EXCEPT ![cmd.req] = LastShown(latest)]
              /\ Goto(cmd.req, "list")
         ELSE UNCHANGED <<listed, pc>>
    /\ UNCHANGED <<up, query, got, spot, res, ticks, redis, faults, history>>

\* The 10000 seconds of an entry have passed.
KeyExpires(q) ==
    /\ ExpireIfNeeded(q)
    /\ warm' = {r \in warm : query[r] # q}
    /\ UNCHANGED <<server, latest, highpf, wire, faults, cut, orphans, due>>

(***************************************************************************)
(* Faults.                                                                 *)
(***************************************************************************)

\* The Redis connection breaks and is made again.  node_redis rejects the
\* commands without a reply; a rejected GET takes the way of a rejected
\* Spotify promise, since its error has no code.  Commands Redis has not yet
\* executed are lost.
ConnectionLost ==
    /\ up /\ faults < MaxFaults
    /\ \A r \in Requests : pc[r] # "lrange"
    /\ Lose(wire, 0)
    /\ \E unread \in SUBSET {r \in Requests : pc[r] = "reply"} :
         pc' = [r \in Requests |->
                  IF pc[r] = "get" \/ r \in unread THEN "lastfm" ELSE pc[r]]
    /\ faults' = faults + 1
    /\ UNCHANGED <<up, query, got, spot, res, ticks, listed>>

\* The connection breaks under a pending LRANGE, whose .done() throws the
\* error again, or cannot be made again, which is an "error" event that the
\* client of routes/index.js does not listen to.  Both end the process.
ConnectionLostCrash ==
    /\ up /\ faults < MaxFaults
    /\ Crash(wire, 0)
    /\ faults' = faults + 1

\* The process is killed from outside.
Kill ==
    /\ up /\ faults < MaxFaults
    /\ \E n \in 0 .. Len(wire) : Crash(wire, n)
    /\ faults' = faults + 1

\* The process is started again, after Redis has read to the end of the old
\* connection.
Restart ==
    /\ ~up /\ wire = <<>>
    /\ up' = TRUE
    /\ UNCHANGED <<pc, query, got, spot, res, ticks, listed, redis, wire,
                   faults, history>>

(***************************************************************************)
(* The specification.                                                      *)
(***************************************************************************)

Arrive(r) ==
    \/ \E raw \in RawQueries : Search2(r, raw)
    \/ \E raw \in RawQueries \cup {Undefined} : Search2Throws(r, raw)
    \/ Tags(r)
    \/ LatestSearches(r)

\* An answer to a request has come in from Redis, Spotify or Last.fm.
Proceed(r) ==
    \/ CacheHit(r)
    \/ CacheMiss(r)
    \/ SearchFinds(r)
    \/ \E name \in Names \cup {Undefined} : DetailsAnswer(r, name)
    \/ DetailsUnparsable(r)
    \/ \E notfound \in BOOLEAN : SpotifyRejects(r, notfound)
    \/ \E found, high \in BOOLEAN : LastfmAnswer(r, found, high)
    \/ LastfmFails(r)
    \/ TagsAnswer(r)
    \/ TagsFail(r)
    \/ LatestReply(r)

Callback == StoreTick \/ StoreTickThrows

Execute ==
    ExecGet \/ ExecSet \/ ExecExpire \/ ExecRPush \/ ExecZAdd \/ ExecLRange

Fault == ConnectionLost \/ ConnectionLostCrash \/ Kill

Next ==
    \/ \E r \in Requests : Arrive(r) \/ Proceed(r)
    \/ Callback
    \/ Execute
    \/ \E q \in Keys : KeyExpires(q)
    \/ Fault
    \/ Restart

Spec == Init /\ [][Next]_vars

\* Node runs every callback whose event has come, Redis reads every command
\* of the connection, and Spotify and Last.fm answer or close every call.
\* Nothing is assumed of users, of faults, of expiry or of a restart.
Fairness ==
    /\ \A r \in Requests : WF_vars(Proceed(r))
    /\ WF_vars(Callback)
    /\ WF_vars(Execute)

FairSpec == Spec /\ Fairness

(***************************************************************************)
(* Properties.                                                             *)
(***************************************************************************)

OnWire(op, q) == \E i \in 1 .. Len(wire) : wire[i].op = op /\ wire[i].key = q

\* r was answered with freshly fetched data.
Fetched(r) ==
    /\ res[r] # Null
    /\ res[r].status = 200 /\ ~res[r].cached /\ res[r].data # Null

\* Every cached entry has its time to live, or the EXPIRE that gives it one
\* is on its way, unless that very EXPIRE was lost with the connection or the
\* process.  SET and EXPIRE are two commands (api.js:129-130): a SET of one
\* search takes away the time to live that an earlier one gave, and a loss
\* may fall between the two.  A loss orphans no entry of another query, and a
\* fetch that was under way when it happened mends the orphan.
EntryWillExpire ==
    \A q \in Keys :
      dict[q] # Null => q \in expires \/ OnWire("EXPIRE", q) \/ q \in orphans

\* Whatever is cached under a query was sent as the fresh answer to a search
\* for that very query (api.js:125-129): concurrent searches do not mix
\* their entries, and nothing is stored that no client was sent.
StoredWasSent ==
    \A q \in Keys :
      dict[q] # Null =>
        \E r \in Requests : Fetched(r) /\ query[r] = q /\ res[r].data = dict[q]

\* A search made after the entry of its query was written, and before it
\* expired or was lost, is answered from the cache and asks neither Spotify
\* nor Last.fm (api.js:68-77): the GET cannot overtake the SET, and Redis
\* has no moment without the entry while it is replaced.
ReadYourWrites ==
    \A r \in warm :
      /\ pc[r] \notin {"search", "details", "lastfm"}
      /\ pc[r] = "reply" => got[r] # Null

\* Every fetch is recorded in latestsearches (api.js:131), whichever way the
\* artist was found, and once: a hit of the cache is not recorded, and what a
\* loss has taken is not recorded later.  Only a loss makes it less.
PushedOncePerFetch ==
    LET owed == Cardinality({r \in Requests : Fetched(r)}) - Len(ticks)
    IN  Recorded <= owed /\ (~cut => Recorded = owed)

\* Who asks for the latest searches is shown the end of the list as it was
\* recorded when they asked (api.js:51): each name that was sent to Redis
\* before the request, none that was sent after it, and fewer than Shown
\* only if fewer had been recorded.
LatestIsEnd ==
    \A r \in Requests : pc[r] = "list" =>
      LET n == IF due[r] < Shown THEN due[r] ELSE Shown
      IN  /\ due[r] <= Len(latest)
          /\ Len(listed[r]) = n
          /\ \A i \in 1 .. n : listed[r][i] = latest[due[r] - n + i]

\* A search comes to its end: an answer, or one of the failures the code does
\* not answer (api.js:84, 120), or the end of the process.
SearchEnds ==
    \A r \in Requests :
      pc[r] = "get" ~>
        \/ pc[r] \in {"end", "sendThrew"} /\ res[r] # Null
        \/ pc[r] \in {"noDetails", "noLastfm", "lost"}

\* Rapport.md tells of every search that the server returns the data to the
\* client; here for searches that do not lose the process.
Answered ==
    \A r \in Requests :
      pc[r] = "get" ~> res[r] # Null \/ pc[r] = "lost"

\* Rapport.md: the server asks Last.fm for the name Spotify gave, or, when
\* the artist is missing there, for what the user typed.
SameArtistAtBoth ==
    \A r \in Requests :
      Fetched(r) =>
        LET e == res[r].data
        IN  e.asked = IF e.name # Undefined THEN e.name ELSE query[r]

\* An empty query is answered with a 400, which send_bad_request_response
\* (api.js:36-41) is there to send.
BlankIsBadRequest ==
    \A r \in Requests :
      query[r] = Blank /\ res[r] # Null => res[r].status = 400

\* No chain calls res.send after its headers were sent: Rapport.md says that an
\* error is handled and the chain goes on only where it can.  The handler of
\* api.js:86-99 answers ENOTFOUND with a 500 and goes on to the res.send of
\* line 125.
SentOnce == \A r \in Requests : pc[r] # "sendThrew"

\* Without a fault from outside the process runs: Rapport.md says that errors
\* are handled and the chain goes on gracefully.
ServerUp == faults = 0 => up

(***************************************************************************)
(* The inductive invariant.                                                *)
(***************************************************************************)

Searching == {"get", "reply", "search", "details", "lastfm"}

Unsent == {"idle", "get", "reply", "search", "details", "tags", "lrange", "list"}

\* A chain that will send or store something has the query it was made for.
QueriesKnown ==
    /\ \A r \in Requests : pc[r] \in Searching => query[r] \in Keys
    /\ \A i \in 1 .. Len(ticks) : Fetched(ticks[i]) /\ query[ticks[i]] \in Keys

\* Until a chain has Spotify's answer, nothing was sent for it.
NotYetSent ==
    \A r \in Requests : pc[r] \in Unsent => res[r] = Null

SentFor(q, e) ==
    \E r \in Requests : Fetched(r) /\ query[r] = q /\ res[r].data = e

\* What is about to be cached was sent.
WrittenWasSent ==
    \A i \in 1 .. Len(wire) :
      wire[i].op = "SET" => SentFor(wire[i].key, wire[i].val)

\* Its EXPIRE follows each SET, or was lost with the process.
SetHasExpire ==
    \A i \in 1 .. Len(wire) :
      wire[i].op = "SET" =>
        \/ i + 1 \in 1 .. Len(wire) /\ wire[i + 1] = Expire(wire[i].key)
        \/ ~up /\ wire[i].key \in orphans

\* A GET on the connection is the one its request made, and if the request
\* is warm the entry is stored or will be before this GET.
GetsKnown ==
    \A i \in 1 .. Len(wire) :
      wire[i].op = "GET" =>
        LET r == wire[i].req IN
        /\ pc[r] # "idle"
        /\ wire[i].key = query[r]
        /\ r \in warm =>
             \/ dict[query[r]] # Null
             \/ \E j \in 1 .. i - 1 : wire[j].op = "SET" /\ wire[j].key = query[r]

WarmSteps ==
    \A r \in warm :
      /\ pc[r] \in {"get", "reply", "end"}
      /\ pc[r] = "reply" => got[r] # Null

\* What an LRANGE on the connection will find is what was recorded when its
\* request asked: the list, and the RPUSHes ahead of it.
ListsKnown ==
    \A i \in 1 .. Len(wire) :
      wire[i].op = "LRANGE" =>
        LET r == wire[i].req IN
        /\ pc[r] # "idle"
        /\ pc[r] = "lrange" =>
             due[r] = Len(latest) + Cardinality(Pushes(wire, i - 1))

Safe ==
    /\ TypeOK
    /\ QueriesKnown
    /\ NotYetSent
    /\ ExpiresInDict
    /\ StoredWasSent /\ WrittenWasSent
    /\ EntryWillExpire /\ SetHasExpire
    /\ GetsKnown /\ WarmSteps

=============================================================================
