--------------------------- MODULE FrontMiddleware ---------------------------
(***************************************************************************)
(* What a request passes before its handler: the rate limit per address,   *)
(* and on /api/auth the idempotency keys.                                  *)
(*                                                                         *)
(* The limiter takes a token under a lock; stale buckets are evicted on    *)
(* the way.  Idempotency is a lookup, the handler and an insert, and two   *)
(* requests with one key may be anywhere between them.  Buckets are in     *)
(* memory, the rows of idempotency_keys survive the process.  Time passes  *)
(* in ticks; a bucket keeps the ticks since it was seen.                   *)
(***************************************************************************)
EXTENDS Naturals

CONSTANTS
    Addresses, \* client addresses
    Keys,      \* Idempotency-Key values
    Bodies,    \* hashes of request bodies
    Requests,  \* handler goroutines
    Burst,     \* rate_limit.burst
    Rate,      \* rate_limit.requests_per_second, per tick
    BucketTTL, \* age, in ticks, above which a bucket is evicted
    MaxRuns,   \* bound on the handlers that succeed
    Absent     \* no bucket, no row, no key

VARIABLES
    bucket,   \* bucket[a]: limiter of the address, or Absent
    row,      \* row[a][k]: row of idempotency_keys, or Absent
    job,      \* job[r]: local state of a request
    runs,     \* handlers that succeeded so far; they number the answers
    replayed  \* replayed[a][k]: <<body, answer>> that were replayed from the row

\* tokens: what was left when the bucket was last seen, age ticks ago.
Bucket == [tokens : 0 .. Burst, age : 0 .. BucketTTL + 1]
Row == [body : Bodies, answer : 1 .. MaxRuns, live : BOOLEAN]

\* key: Absent without the header, and on the routes without idempotency; the body
\* does not matter then.
Idle == [pc |-> "idle", address |-> Absent, key |-> Absent, body |-> Absent, answer |-> 0]

Least(x, y) == IF x <= y THEN x ELSE y

MiddlewareInit ==
    /\ bucket = [a \in Addresses |-> Absent]
    /\ row = [a \in Addresses |-> [k \in Keys |-> Absent]]
    /\ job = [r \in Requests |-> Idle]
    /\ runs = 0
    /\ replayed = [a \in Addresses |-> [k \in Keys |-> {}]]

Finish(r) == job' = [job EXCEPT ![r] = Idle]

----------------------------------------------------------------------------
(* NewRateLimit *)

\* rate.Limiter: what there is to take from a bucket now.
Tokens(b) == Least(Burst, b.tokens + Rate * b.age)

\* Broken variant of Stale: any bucket that rested.
StaleEarly(b) == b.age > 0

Stale(b) == b.age > BucketTTL

\* get() evicts, finds or makes the bucket; Allow() takes a token.
Arrive(r, a, key, body) ==
    /\ job[r].pc = "idle"
    /\ LET kept == [x \in Addresses |-> IF bucket[x] # Absent /\ Stale(bucket[x])
                                        THEN Absent ELSE bucket[x]]
           there == IF kept[a] = Absent THEN Burst ELSE Tokens(kept[a])
       IN  /\ bucket' = [kept EXCEPT ![a] =
                           [tokens |-> IF there = 0 THEN 0 ELSE there - 1, age |-> 0]]
           /\ job' = [job EXCEPT ![r] =
                         IF there = 0 THEN [Idle EXCEPT !.pc = "refused"]
                         ELSE [pc |-> IF key = Absent THEN "handle" ELSE "lookup",
                               address |-> a, key |-> key, body |-> body, answer |-> 0]]
    /\ UNCHANGED <<row, runs, replayed>>

\* 429.
Refused(r) ==
    /\ job[r].pc = "refused"
    /\ Finish(r)
    /\ UNCHANGED <<bucket, row, runs, replayed>>

Tick ==
    /\ bucket' = [a \in Addresses |->
                    IF bucket[a] = Absent THEN Absent
                    ELSE [bucket[a] EXCEPT !.age = Least(@ + 1, BucketTTL + 1)]]
    /\ bucket' # bucket
    /\ UNCHANGED <<row, job, runs, replayed>>

----------------------------------------------------------------------------
(* NewIdempotency *)

RowOf(r) == row[job[r].address][job[r].key]

Matches(r) == RowOf(r) # Absent /\ RowOf(r).live /\ RowOf(r).body = job[r].body

\* The answer of the row is replayed.
Replay(r) ==
    /\ job[r].pc = "lookup" /\ Matches(r)
    /\ replayed' = [replayed EXCEPT ![job[r].address][job[r].key] =
                       @ \cup {<<job[r].body, RowOf(r).answer>>}]
    /\ Finish(r)
    /\ UNCHANGED <<bucket, row, runs>>

\* There is no row that fits, or the query fails: both mean that the handler runs.
Miss(r) ==
    /\ job[r].pc = "lookup"
    /\ job' = [job EXCEPT ![r].pc = "handle"]
    /\ UNCHANGED <<bucket, row, runs, replayed>>

\* The handler answers 2xx; with a key, its answer is stored next.
Succeed(r) ==
    /\ job[r].pc = "handle" /\ runs < MaxRuns
    /\ runs' = runs + 1
    /\ IF job[r].key = Absent THEN Finish(r)
       ELSE job' = [job EXCEPT ![r].pc = "store", ![r].answer = runs + 1]
    /\ UNCHANGED <<bucket, row, replayed>>

\* Any other answer is not stored.
Fail(r) ==
    /\ job[r].pc = "handle"
    /\ Finish(r)
    /\ UNCHANGED <<bucket, row, runs, replayed>>

\* Broken variant of Store: ON CONFLICT DO UPDATE.
StoreLast(r) ==
    /\ job[r].pc = "store"
    /\ row' = [row EXCEPT ![job[r].address][job[r].key] =
                  [body |-> job[r].body, answer |-> job[r].answer, live |-> TRUE]]
    /\ Finish(r)
    /\ UNCHANGED <<bucket, runs, replayed>>

\* ON CONFLICT DO NOTHING, whether the row that is there has expired or not.
Store(r) ==
    /\ job[r].pc = "store"
    /\ row' = IF RowOf(r) # Absent THEN row
              ELSE [row EXCEPT ![job[r].address][job[r].key] =
                       [body |-> job[r].body, answer |-> job[r].answer, live |-> TRUE]]
    /\ Finish(r)
    /\ UNCHANGED <<bucket, runs, replayed>>

\* The insert is lost with the context of a client that hung up.
LoseStore(r) ==
    /\ job[r].pc = "store"
    /\ Finish(r)
    /\ UNCHANGED <<bucket, row, runs, replayed>>

\* expires_at passes; no code deletes the row.
Expire(a, k) ==
    /\ row[a][k] # Absent /\ row[a][k].live
    /\ row' = [row EXCEPT ![a][k].live = FALSE]
    /\ UNCHANGED <<bucket, job, runs, replayed>>

\* The process ends: buckets and requests are gone.
Forget ==
    /\ bucket' = [a \in Addresses |-> Absent]
    /\ job' = [r \in Requests |-> Idle]
    /\ UNCHANGED <<row, runs, replayed>>
=============================================================================
