# Music Comparer: TLA+ models, model checking and proofs

Music Comparer compares two artists by what Spotify and Last.fm know of them.
Its own code is the Node application under `src/application/application`; the
Redis server and hiredis are vendored beside it. Paths below are relative to
`src/application/application` unless they start with `redis-2.8.19`.

## The system

| part | code | state | operations |
|---|---|---|---|
| JSON API | `routes/api.js` | one promise chain per request, pending nextTick callbacks, a Redis connection | `POST /search2`, `GET /tags/:artist`, `GET /latestsearches` |
| Spotify and Last.fm wrappers | `settings/settings.js` | none: promises of HTTP calls | search, details, getInfo, getTopTags, getSession |
| Redis | `redis-2.8.19/src` | keys with optional time to live, list `latestsearches`, sorted set `highpf`, sessions, user keys | GET, SET, EXPIRE, RPUSH, LRANGE, ZADD, expiry |
| login and session | `app.js` | session in Redis, user key in Redis | `/login`, `/callback`, `/logout` |
| application page | `routes/index.js` | reads and changes the session | `restricted`, `GET /application` |
| browser client | `public/javascripts/clientside.js` | LocalStorage, tags, charts, table, spinners | compare, search, handleData, tags callback |
| offline support | `public/cache.manifest`, `offline.js` | browser application cache | page load, online and offline events |
| unmounted and stub routes | `routes/artists.js`, `tracks.js`, `users.js`, `albums.js` | some Redis keys | not reachable from the mounted routes |

A search goes: Redis GET; on a miss Spotify search, Spotify details, Last.fm
info; response; then, in a nextTick callback, SET, EXPIRE, RPUSH and possibly
ZADD. Any number of such chains interleave at their callbacks, on one Redis
connection. What makes it hard: concurrent misses and stores, failures at each
link of a chain that has handlers on some links only, a response that may be
sent twice, commands lost with the connection or the process, expiry between
any two steps. `PROJECT.json` lists these hazards at their lines, including
those of parts that are not modelled yet.

## Modules

| module | models |
|---|---|
| `RedisKeyspace` | `db->dict` and `db->expires`, SET, EXPIRE, expiry, the index arithmetic of LRANGE |
| `SearchApi` | the JSON API, the wrappers it uses, the connection and the commands on it, faults |
| `MCSearchApi` | small instances for TLC |
| `SearchApiProofs` | the proofs of the invariant and of what it says of the cache |
| `LatestSearchesProofs` | the proofs about the list `latestsearches` |

In `SearchApi`, `pc[r]` is what the chain of request `r` waits for; `query`,
`got`, `spot` and `res` are the values its callbacks close over; `ticks` is the
queue of nextTick callbacks, `wire` the commands Redis has not executed. One
action is one callback as a whole. A request arrives as an event of its own,
after pending nextTick callbacks (`Event`); promise callbacks that are ready
together run in one event, so they may precede a nextTick callback.

`cut`, `warm`, `orphans` and `due` are history variables: nothing in the model
reads them except the properties and the invariants. `cut` says that commands
may have been lost; `warm` holds the searches made while their entry was stored
or on its way; `orphans` the keys whose EXPIRE was lost and not sent again
since; `due[r]` is how many names were in the list or on their way to it when
`r` asked for the latest searches.

Ends of a chain: `end`; `sendThrew` (line 125 after the 500 of line 91);
`noDetails` (the details are no JSON, line 84); `noLastfm` (line 120 or 45 has
no rejection handler); `lost` (the process ended).

A loss (`Lose`) keeps the first n pending commands: none when the connection
breaks, any number when the process ends, since what was written may still
reach Redis. A GET that is rejected by a broken connection goes through the
rejection handler of lines 86-99, without its 500 because the error has no code
ENOTFOUND (`ConnectionLost`). What a route throws is answered by the last
handler of `app.js` (`ErrorHandler`).

Abstractions:

- An answer is reduced to Spotify's name (or none), the name Last.fm was asked
  for, whether Last.fm knows the artist, and whether the ratio is high. Last.fm's
  spelling of a name is taken to be the name it was asked for.
- `Normalise` stands for `toLowerCase().trim()`: several raw queries share a
  key, and one is blank.
- `highpf` is a set: the member is the whole answer and its score is computed
  from the numbers in that answer, so a ZADD of an existing member does not
  change its score.
- Time: a key with a time to live may lapse at any later step.
- The 400 of line 62 is the 500 it becomes; the second `get_info` of line 94
  changes no state.
- Express, Q, node_redis and the Node event loop are not in the repository.
  They are modelled from their use and marked external in `PROJECT.json`.
- A restart waits until Redis has read to the end of the old connection.
- Redis itself does not fail; its persistence is not modelled.

## Runs

All runs use `MCSearchApi`. Deadlock checking is off, because all requests of
an instance may have been served.

| run | instance | checks | result |
|---|---|---|---|
| `search_api` | 3 requests, 2 queries, 1 fault, symmetry | `TypeOK`, `ExpiresInDict`, `EntryWillExpire`, `StoredWasSent`, `ReadYourWrites`, `PushedOncePerFetch` | holds, 1,912,071 states |
| `latest_searches` | 4 requests, 1 query, 2 shown, no outside fault, symmetry | `LatestIsEnd` | holds, 1,010,531 states |
| `search_ends` | 2 requests, 2 queries, 1 fault, fairness | `SearchEnds` | holds, 79,567 states |
| `search_answered` | 1 request, fairness | `Answered` | violated |
| `same_artist` | 1 request | `SameArtistAtBoth` | violated |
| `server_up` | 1 request | `ServerUp` | violated |
| `blank_query` | 1 request | `BlankIsBadRequest` | violated |
| `sent_once` | 1 request | `SentOnce` | violated |

- `ExpiresInDict`: the assertion of `getExpire` (`redis-2.8.19/src/db.c:779`).
- `EntryWillExpire`: a cached entry has a time to live or an EXPIRE on its way,
  unless its own EXPIRE was lost (`orphans`). Such an entry may stay for ever,
  which is a weakness of SET followed by EXPIRE. The property says that a loss
  has no other victim: an entry of another query keeps its time to live, and so
  does one whose SET was sent again.
- `StoredWasSent`: what is cached for a query was sent, fresh, to a search for
  that query.
- `ReadYourWrites`: a search made after the entry was written, and before it
  expired or was lost, is answered from the cache.
- `PushedOncePerFetch`: the names in `latestsearches`, with the RPUSHes on
  their way, are as many as the fetches whose callback has run; a hit is not
  recorded. After a loss they may be fewer but never more: a lost fetch is not
  recorded later, and nothing promises that it is.
- `LatestIsEnd`: a reader gets the end of the list as recorded when they asked:
  each name sent before their request, none sent after it. The list between the
  request and the reply grows by exactly the RPUSHes ahead of the LRANGE.
- `SearchEnds`: a search ends with an answer (in `end` or `sendThrew`), in one of
  the two unanswered failures, or with the process.

The violations are disagreements of the code with `src/Rapport.md` or with its
own helper:

- `Answered`: a failed Last.fm call, or details that are no JSON, leave the
  request unanswered.
- `SameArtistAtBoth`: details without a name make the code ask Last.fm for
  `undefined`.
- `ServerUp`: an artist neither service knows is an uncaught TypeError of
  `getName` (line 131, outside the `try`).
- `BlankIsBadRequest`: `send_bad_request_response` is called without `res`.
- `SentOnce`: the handler of lines 86-99 answers ENOTFOUND with a 500 and goes
  on with the chain, which reaches `res.send` again at line 125. Express throws
  there (`HeadersSent`, external): the client keeps its 500, the Last.fm answer
  is neither sent nor stored, and the rejection is nobody's.

Bounds. Two requests are the least for a race; three let a third search read
while two store, and two queries let entries be mixed up. One fault hits any
point, and a crash of line 131 can still follow it. With four requests and two
names shown the list is shorter than, as long as and longer than what is shown;
the code's 5 is the constant `Shown`. Symmetry is over requests only and is not
used with liveness.

Fairness is weak and only for `Proceed(r)` (Node runs a callback whose event
has come, and Spotify and Last.fm answer or close each call), `Callback` and
`Execute`. `request` is called without a timeout, so that the services answer or
close is an assumption. Nothing is assumed of users, faults, expiry or restart.

## Proofs

`SearchApiProofs` and, for the last two, `LatestSearchesProofs`, which extends
it, prove for every value of the constants that satisfies `ConstantsAssumption`
and `NullAssumption`:

| theorem | statement |
|---|---|
| `SafeAlways` | `Spec => []Safe`, the inductive invariant |
| `TypeCorrect` | `Spec => []TypeOK` |
| `ExpiresAlwaysInDict` | `Spec => []ExpiresInDict` |
| `CacheHoldsWhatWasSent` | `Spec => []StoredWasSent` |
| `CacheExpires` | `Spec => []EntryWillExpire` |
| `SearchesSeeWrites` | `Spec => []ReadYourWrites` |
| `FetchesRecordedOnce` | `Spec => []PushedOncePerFetch` |
| `LatestAreTheEnd` | `Spec => []LatestIsEnd` |

`Safe` strengthens the properties where they are not inductive. `StoredWasSent`
needs the same of every SET on the connection (`WrittenWasSent`) and of every
pending callback (`QueriesKnown`), and that a sent response stays
(`NotYetSent`). `EntryWillExpire` needs each SET on the connection to be
followed by its EXPIRE, or to be what an ended process left with the EXPIRE lost
(`SetHasExpire`), since executing the SET removes the time to live. `ReadYourWrites` needs, for each GET of a warm search, the entry
in Redis or a SET ahead of it on the connection (`GetsKnown`, `WarmSteps`). Each
conjunct has a lemma for its step.

`PushedOncePerFetch` is inductive together with `Safe` and the finiteness of the
set of fetches (`OneEach`; the set of requests may be infinite). The argument
counts: the answer that makes a fetch schedules one callback, the callback sends
one RPUSH, executing it moves one from the connection to the list
(`ExecuteRecords`, by a bijection between the RPUSHes before and after), and a
loss leaves a subset of the RPUSHes (`LossRecords`).

`LatestIsEnd` needs `ListsKnown`: for each LRANGE on the connection, the list and
the RPUSHes ahead of it make up what its request is due. Executing a command
keeps that sum, sending one puts nothing ahead, and a loss leaves no request
waiting for its list. When the LRANGE is first, the list is as long as `due`, and
`LRangeIsEnd` says what `-Shown, -1` selects from it.

Model-checked only: `SearchEnds`, because liveness under fairness is beyond the
prover.

## Not modelled, and the plan

1. `Session`: `app.js` and `routes/index.js` with the session store: logout
   against the error path of `/application`, a second login, `/callback`
   without a token or with a failed `getSession`.
2. `ClientSide`: comparisons, LocalStorage, late answers, tags, spinners.
3. An abstract lookup specification (a query is answered with data for it) that
   `SearchApi` implements, and the composition of client and server.
4. `OfflinePage`: application cache and page load.
5. Pure functions: `addCommas`, the tag intersection, LRANGE against a
   reference definition.
6. Proofs of the new modules' invariants.

Left out for good: the rest of Redis, hiredis, chart.js, please.js and
sorttable (vendored), the rate limiter (a library; 1000 free retries), stub
routes and the start script's port (no state).
