----------------------------- MODULE GuidServer -----------------------------
(***************************************************************************)
(* The GUID service (apps/guidserver): several instances hand out ranges   *)
(* ("diapasons") of GUIDs to game servers.  An instance buffers ranges in  *)
(* memory (AvailableDiapasons) and refills the buffer by advancing a       *)
(* counter in Redis with WATCH/MULTI/EXEC.                                 *)
(*                                                                         *)
(* One (realm, GUID type) pair is modelled: every pair has its own Redis   *)
(* key and its own buffer.  Actors: gRPC handlers (GetGuids), and in each  *)
(* instance one dispatcher goroutine and a pool of request processors.     *)
(***************************************************************************)
EXTENDS Integers, Sequences, FiniteSets

CONSTANTS
    Servers,        \* guidserver instances sharing one Redis
    Handlers,       \* gRPC handler goroutines
    Processors,     \* requestProcessor goroutines of each instance
    Sizes,          \* pool sizes that game servers ask for
    RequestGuidsBufferMultiplayer,
    DBMax,          \* largest GUID stored in MySQL before the first start
    Retries,        \* optimistic lock attempts of increaseKey
    NoCallback,     \* a guidsRequest without callback channel
    MaxCalls,       \* bound: GetGuids calls
    MaxRedisErrors, \* bound: Redis commands that fail or time out
    MaxCrashes      \* bound: instance restarts

ASSUME SizesAssumption == Sizes \subseteq Nat \ {0}
ASSUME MultiplierAssumption == RequestGuidsBufferMultiplayer \in Nat \ {0}
ASSUME DBMaxAssumption == DBMax \in Nat
ASSUME RetriesAssumption == Retries \in Nat \ {0}
ASSUME NoCallbackAssumption == NoCallback \notin Handlers

VARIABLES
    maxGuid,    \* the Redis key; 0 when absent
    boot,       \* boot[s]: progress of NewGuidService
    bootMax,    \* bootMax[s]: what it read from MySQL
    cache,      \* cache[s]: AvailableDiapasons of the instance
    requestChan, workChan, responseChan,  \* the three channels of an instance
    inProcess,  \* inProcess[s]: amounts in requestsWithRespInProcess
    callbacks,  \* callbacks[s]: callbacksQueue, as <<amount, handler>> pairs
    call,       \* call[h]: the GetGuids call a handler is executing
    work,       \* work[p]: the increaseKey transaction of a processor
    used,       \* history: the GUIDs that GetGuids calls have returned
    twice,      \* history: the GUIDs returned by more than one call
    mishaps,    \* history: what went wrong so far
    calls, redisErrors, crashes           \* bounded counters

storageVars == <<maxGuid, work>>
instanceVars == <<boot, bootMax, cache, workChan, responseChan, inProcess, callbacks>>
boundVars == <<calls, redisErrors, crashes>>
vars == <<maxGuid, boot, bootMax, cache, requestChan, workChan, responseChan,
          inProcess, callbacks, call, work, used, twice, mishaps, calls, redisErrors, crashes>>

-----------------------------------------------------------------------------
(* Diapasons: Start..End is the range, CurrentGuid the next GUID to use. *)

GuidDiapason == [start: Nat, end: Nat]
GuidDiapasonWithState == [start: Nat, end: Nat, cur: Nat]

GuidsLeft(d) == IF d.cur > d.end THEN 0 ELSE d.end - d.cur + 1

\* Reserving size * multiplier GUIDs at a time.
Amounts == {n * RequestGuidsBufferMultiplayer : n \in Sizes}

\* Number of unused GUIDs in the diapasons before the k-th.
LeftBefore(ds, k) ==
    Cardinality(UNION {{j} \X (ds[j].cur .. ds[j].end) : j \in 1..(k-1)})

TotalCount(ds) ==
    Cardinality(UNION {{j} \X (ds[j].start .. ds[j].end) : j \in 1..Len(ds)})

\* PctUsage() >= pct, without the rounding of its floating point division.
PctUsageAtLeast(ds, pct) ==
    \/ ds = <<>>
    \/ 100 * LeftBefore(ds, Len(ds) + 1) <= (100 - pct) * TotalCount(ds)

\* CleanupEmpty: drops the leading diapasons that have nothing left.
CleanupEmpty(ds) ==
    LET nonEmpty == {i \in 1..Len(ds) : GuidsLeft(ds[i]) # 0}
    IN  IF nonEmpty = {} THEN <<>>
        ELSE SubSeq(ds, CHOOSE i \in nonEmpty : \A j \in nonEmpty : i <= j, Len(ds))

\* The k-th diapason is the one in which a request for n GUIDs is fulfilled.
FulfilledIn(ds, n, k) ==
    /\ n <= LeftBefore(ds, k) + GuidsLeft(ds[k])
    /\ \A j \in 1..(k-1) : ~(n <= LeftBefore(ds, j) + GuidsLeft(ds[j]))

\* The unused GUIDs of the first k diapasons.
Unused(ds, k) == UNION {ds[j].cur .. ds[j].end : j \in 1..k}

\* UseGuids: the diapasons before the fulfilling one are returned whole, but
\* the loop advances CurrentGuid of its own copy, so they stay as they were.
UseUpTo(ds, n, k) ==
    LET rest == n - LeftBefore(ds, k)
    IN  [guids |-> Unused(ds, k - 1) \cup (ds[k].cur .. (ds[k].cur + rest - 1)),
         left  |-> CleanupEmpty([ds EXCEPT ![k].cur = @ + rest])]

UseAll(ds) ==
    [guids |-> Unused(ds, Len(ds)), left |-> CleanupEmpty(ds)]

UseGuids(ds, n) ==
    LET ks == {k \in 1..Len(ds) : FulfilledIn(ds, n, k)}
    IN  IF ks = {} THEN UseAll(ds) ELSE UseUpTo(ds, n, CHOOSE k \in ks : TRUE)

\* AddDiapason: extends the last diapason when the new one is adjacent.
AddDiapason(ds, d) ==
    IF ds # <<>> /\ ds[Len(ds)].end = d.start - 1
    THEN [ds EXCEPT ![Len(ds)].end = d.end]
    ELSE Append(ds, [start |-> d.start, end |-> d.end, cur |-> d.start])

-----------------------------------------------------------------------------
Request == [amount: Amounts, callback: Handlers \cup {NoCallback}]
Response == [request: Request, newGuids: GuidDiapason]

NoCall == [pc |-> "idle"]
NoWork == [pc |-> "idle"]

Init ==
    /\ maxGuid \in {0, DBMax}
    /\ boot = [s \in Servers |-> "start"]
    /\ bootMax = [s \in Servers |-> 0]
    /\ cache = [s \in Servers |-> <<>>]
    /\ requestChan = [s \in Servers |-> <<>>]
    /\ workChan = [s \in Servers |-> <<>>]
    /\ responseChan = [s \in Servers |-> <<>>]
    /\ inProcess = [s \in Servers |-> {}]
    /\ callbacks = [s \in Servers |-> {}]
    /\ call = [h \in Handlers |-> NoCall]
    /\ work = [p \in Servers \X Processors |-> NoWork]
    /\ used = {} /\ twice = {}
    /\ mishaps = {}
    /\ calls = 0 /\ redisErrors = 0 /\ crashes = 0

\* A write to the key marks every transaction that WATCHes it.
Touch(ws) == [p \in DOMAIN ws |-> IF ws[p].pc = "exec"
                                  THEN [ws[p] EXCEPT !.dirty = TRUE] ELSE ws[p]]

-----------------------------------------------------------------------------
(* NewGuidService: seed the Redis key from MySQL when it is absent.  MySQL *)
(* holds the GUIDs of what game servers have saved so far.                 *)

BootReadRedis(s) ==
    /\ boot[s] = "start"
    /\ boot' = [boot EXCEPT ![s] = IF maxGuid = 0 THEN "mysql" ELSE "up"]
    /\ UNCHANGED <<maxGuid, bootMax, cache, requestChan, workChan, responseChan, inProcess,
                   callbacks, call, work, used, twice, mishaps, boundVars>>

BootReadMysql(s) ==
    /\ boot[s] = "mysql"
    /\ \E saved \in {DBMax} \cup used :
          /\ saved >= DBMax
          /\ bootMax' = [bootMax EXCEPT ![s] = saved]
    /\ boot' = [boot EXCEPT ![s] = "seed"]
    /\ UNCHANGED <<maxGuid, cache, requestChan, workChan, responseChan, inProcess,
                   callbacks, call, work, used, twice, mishaps, boundVars>>

BootSetRedis(s) ==
    /\ boot[s] = "seed"
    /\ maxGuid' = bootMax[s]
    /\ work' = Touch(work)
    /\ boot' = [boot EXCEPT ![s] = "up"]
    /\ mishaps' = mishaps \cup IF bootMax[s] < maxGuid THEN {"counterSetBack"} ELSE {}
    /\ UNCHANGED <<bootMax, cache, requestChan, workChan, responseChan, inProcess,
                   callbacks, call, used, twice, boundVars>>

-----------------------------------------------------------------------------
(* GetGuids, executed by a gRPC handler. *)

GetGuids(h, s, n) ==
    /\ calls < MaxCalls
    /\ boot[s] = "up"
    /\ call[h] = NoCall
    /\ call' = [call EXCEPT ![h] = [pc |-> "check", server |-> s, size |-> n]]
    /\ calls' = calls + 1
    /\ UNCHANGED <<storageVars, instanceVars, requestChan, used, twice, mishaps, redisErrors, crashes>>

\* PctUsage() under the read lock decides what to do next.
CheckUsage(h) ==
    /\ call[h].pc = "check"
    /\ LET ds == cache[call[h].server]
       IN  call' = [call EXCEPT ![h].pc = IF PctUsageAtLeast(ds, 99) THEN "requestAndWait"
                                            ELSE IF PctUsageAtLeast(ds, 70) THEN "request"
                                            ELSE "use"]
    /\ UNCHANGED <<storageVars, instanceVars, requestChan, used, twice, mishaps, boundVars>>

SendRequest(h) ==
    /\ call[h].pc \in {"request", "requestAndWait"}
    /\ LET wait == call[h].pc = "requestAndWait"
           s == call[h].server
           r == [amount |-> call[h].size * RequestGuidsBufferMultiplayer,
                 callback |-> IF wait THEN h ELSE NoCallback]
       IN  /\ requestChan' = [requestChan EXCEPT ![s] = Append(@, r)]
           /\ call' = [call EXCEPT ![h].pc = IF wait THEN "wait" ELSE "use"]
    /\ UNCHANGED <<storageVars, instanceVars, used, twice, mishaps, boundVars>>

\* UseGuids() under the write lock; an empty result starts GetGuids again.
TakeGuids(h) ==
    /\ call[h].pc = "use"
    /\ LET s == call[h].server
           taken == UseGuids(cache[s], call[h].size)
       IN  IF cache[s] = <<>>
           THEN /\ call' = [call EXCEPT ![h].pc = "check"]
                /\ UNCHANGED <<cache, used, twice>>
           ELSE /\ call' = [call EXCEPT ![h] = NoCall]
                /\ cache' = [cache EXCEPT ![s] = taken.left]
                /\ twice' = twice \cup (used \cap taken.guids)
                /\ used' = used \cup taken.guids
    /\ UNCHANGED <<storageVars, boot, bootMax, requestChan, workChan, responseChan, inProcess,
                   callbacks, mishaps, boundVars>>

-----------------------------------------------------------------------------
(* The dispatcher goroutine of startProcessingGoroutines. *)

\* Mutant: the callback of a duplicate request is forgotten.
DispatchRequest_DroppingCallback(s) ==
    /\ requestChan[s] # <<>>
    /\ requestChan' = [requestChan EXCEPT ![s] = Tail(@)]
    /\ LET r == Head(requestChan[s])
       IN  IF r.amount \in inProcess[s] THEN UNCHANGED <<inProcess, workChan>>
           ELSE /\ inProcess' = [inProcess EXCEPT ![s] = @ \cup {r.amount}]
                /\ workChan' = [workChan EXCEPT ![s] = Append(@, r)]
    /\ UNCHANGED <<storageVars, boot, bootMax, cache, responseChan, callbacks, call, used, twice, mishaps, boundVars>>

\* A request whose key is already in process only leaves its callback.
DispatchRequest(s) ==
    /\ requestChan[s] # <<>>
    /\ LET r == Head(requestChan[s])
       IN  /\ requestChan' = [requestChan EXCEPT ![s] = Tail(@)]
           /\ IF r.amount \in inProcess[s]
              THEN /\ callbacks' = [callbacks EXCEPT ![s] =
                                       IF r.callback = NoCallback THEN @
                                       ELSE @ \cup {<<r.amount, r.callback>>}]
                   /\ UNCHANGED <<inProcess, workChan>>
              ELSE /\ inProcess' = [inProcess EXCEPT ![s] = @ \cup {r.amount}]
                   /\ workChan' = [workChan EXCEPT ![s] = Append(@, r)]
                   /\ UNCHANGED callbacks
    /\ UNCHANGED <<storageVars, boot, bootMax, cache, responseChan, call, used, twice, mishaps, boundVars>>

\* The handlers a response wakes: the requester and the queued callbacks.
Woken(s, r) == {r.callback} \cup {h \in Handlers : <<r.amount, h>> \in callbacks[s]}

\* The callback channels are unbuffered: each send waits for its handler to receive.
DispatchResponse(s) ==
    /\ responseChan[s] # <<>>
    /\ LET r == Head(responseChan[s]).request
       IN  /\ \A h \in Handlers \cap Woken(s, r) : call[h].pc = "wait"
           /\ cache' = [cache EXCEPT ![s] = AddDiapason(@, Head(responseChan[s]).newGuids)]
           /\ call' = [h \in Handlers |-> IF h \in Woken(s, r)
                                          THEN [call[h] EXCEPT !.pc = "check"] ELSE call[h]]
           /\ callbacks' = [callbacks EXCEPT ![s] = {c \in @ : c[1] # r.amount}]
           /\ inProcess' = [inProcess EXCEPT ![s] = @ \ {r.amount}]
    /\ responseChan' = [responseChan EXCEPT ![s] = Tail(@)]
    /\ UNCHANGED <<storageVars, boot, bootMax, requestChan, workChan, used, twice, mishaps, boundVars>>

-----------------------------------------------------------------------------
(* A requestProcessor goroutine: increaseKey, an optimistic transaction on *)
(* the Redis key, retried while another writer touches the key.            *)

Respond(p, d) ==
    /\ responseChan' = [responseChan EXCEPT ![p[1]] =
                            Append(@, [request |-> work[p].request, newGuids |-> d])]

StartWork(p) ==
    /\ work[p] = NoWork
    /\ workChan[p[1]] # <<>>
    /\ work' = [work EXCEPT ![p] = [pc |-> "watch", request |-> Head(workChan[p[1]]),
                                    tries |-> 0, read |-> 0, dirty |-> FALSE]]
    /\ workChan' = [workChan EXCEPT ![p[1]] = Tail(@)]
    /\ UNCHANGED <<maxGuid, boot, bootMax, cache, requestChan, responseChan, inProcess,
                   callbacks, call, used, twice, mishaps, boundVars>>

\* WATCH key; GET key.
Watch(p) ==
    /\ work[p].pc = "watch"
    /\ work' = [work EXCEPT ![p].pc = "exec", ![p].read = maxGuid, ![p].dirty = FALSE]
    /\ UNCHANGED <<maxGuid, instanceVars, requestChan, call, used, twice, mishaps, boundVars>>

\* Mutant: EXEC without WATCH.
ExecCommit_Unwatched(p) ==
    /\ work[p].pc = "exec"
    /\ LET newMax == work[p].read + work[p].request.amount
       IN  /\ maxGuid' = newMax
           /\ work' = [Touch(work) EXCEPT ![p] = NoWork]
           /\ Respond(p, [start |-> newMax - work[p].request.amount + 1, end |-> newMax])
    /\ UNCHANGED <<boot, bootMax, cache, requestChan, workChan, inProcess, callbacks, call,
                   used, twice, mishaps, boundVars>>

\* EXEC of a transaction whose key nobody wrote since WATCH.
ExecCommit(p) ==
    /\ work[p].pc = "exec" /\ ~work[p].dirty
    /\ LET newMax == work[p].read + work[p].request.amount
       IN  /\ maxGuid' = newMax
           /\ work' = [Touch(work) EXCEPT ![p] = NoWork]
           /\ Respond(p, [start |-> newMax - work[p].request.amount + 1, end |-> newMax])
    /\ UNCHANGED <<boot, bootMax, cache, requestChan, workChan, inProcess, callbacks, call,
                   used, twice, mishaps, boundVars>>

\* Mutant: the transaction is retried without limit.
ExecAbort_NoLimit(p) ==
    /\ work[p].pc = "exec" /\ work[p].dirty
    /\ work' = [work EXCEPT ![p].pc = "watch", ![p].tries = @ + 1]
    /\ UNCHANGED <<maxGuid, boot, bootMax, cache, requestChan, workChan, responseChan, inProcess,
                   callbacks, call, used, twice, mishaps, boundVars>>

\* TxFailedErr: watch again, or give up after the last retry.
ExecAbort(p) ==
    /\ work[p].pc = "exec" /\ work[p].dirty
    /\ IF work[p].tries + 1 < Retries
       THEN /\ work' = [work EXCEPT ![p].pc = "watch", ![p].tries = @ + 1]
            /\ UNCHANGED <<responseChan, mishaps>>
       ELSE /\ work' = [work EXCEPT ![p] = NoWork]
            /\ Respond(p, [start |-> 0, end |-> 0])
            /\ mishaps' = mishaps \cup {"reservationFailed"}
    /\ UNCHANGED <<maxGuid, boot, bootMax, cache, requestChan, workChan, inProcess, callbacks,
                   call, used, twice, boundVars>>

\* A Redis command fails or times out; an EXEC may have been applied.
RedisError(p) ==
    /\ redisErrors < MaxRedisErrors
    /\ work[p].pc \in {"watch", "exec"}
    /\ \/ /\ UNCHANGED maxGuid
          /\ work' = [work EXCEPT ![p] = NoWork]
       \/ /\ work[p].pc = "exec" /\ ~work[p].dirty
          /\ maxGuid' = work[p].read + work[p].request.amount
          /\ work' = [Touch(work) EXCEPT ![p] = NoWork]
    /\ Respond(p, [start |-> 0, end |-> 0])
    /\ mishaps' = mishaps \cup {"reservationFailed"}
    /\ redisErrors' = redisErrors + 1
    /\ UNCHANGED <<boot, bootMax, cache, requestChan, workChan, inProcess, callbacks, call,
                   used, twice, calls, crashes>>

-----------------------------------------------------------------------------
\* An instance dies: its memory is lost and its calls end with an error.
Crash(s) ==
    /\ crashes < MaxCrashes
    /\ boot' = [boot EXCEPT ![s] = "start"]
    /\ bootMax' = [bootMax EXCEPT ![s] = 0]
    /\ cache' = [cache EXCEPT ![s] = <<>>]
    /\ requestChan' = [requestChan EXCEPT ![s] = <<>>]
    /\ workChan' = [workChan EXCEPT ![s] = <<>>]
    /\ responseChan' = [responseChan EXCEPT ![s] = <<>>]
    /\ inProcess' = [inProcess EXCEPT ![s] = {}]
    /\ callbacks' = [callbacks EXCEPT ![s] = {}]
    /\ call' = [h \in Handlers |-> IF call[h] # NoCall /\ call[h].server = s
                                   THEN NoCall ELSE call[h]]
    /\ work' = [p \in Servers \X Processors |-> IF p[1] = s THEN NoWork ELSE work[p]]
    /\ crashes' = crashes + 1
    /\ UNCHANGED <<maxGuid, used, twice, mishaps, calls, redisErrors>>

HandlerStep(h) == CheckUsage(h) \/ SendRequest(h) \/ TakeGuids(h)
BootStep(s) == BootReadRedis(s) \/ BootReadMysql(s) \/ BootSetRedis(s)
DispatcherStep(s) == DispatchRequest(s) \/ DispatchResponse(s)
ProcessorStep(p) == StartWork(p) \/ Watch(p) \/ ExecCommit(p) \/ ExecAbort(p)

Next ==
    \/ \E s \in Servers : BootStep(s) \/ DispatcherStep(s) \/ Crash(s)
    \/ \E h \in Handlers : HandlerStep(h)
    \/ \E h \in Handlers, s \in Servers, n \in Sizes : GetGuids(h, s, n)
    \/ \E p \in Servers \X Processors : ProcessorStep(p) \/ RedisError(p)

Spec == Init /\ [][Next]_vars

-----------------------------------------------------------------------------
WorkState == [pc: {"watch", "exec"}, request: Request, tries: 0..(Retries - 1),
              read: Nat, dirty: BOOLEAN]
CallState == [pc: {"check", "request", "requestAndWait", "wait", "use"},
              server: Servers, size: Sizes]

\* Every variable keeps the shape the Go types give it.
TypeOK ==
    /\ maxGuid \in Nat
    /\ boot \in [Servers -> {"start", "mysql", "seed", "up"}]
    /\ bootMax \in [Servers -> Nat]
    /\ cache \in [Servers -> Seq(GuidDiapasonWithState)]
    /\ requestChan \in [Servers -> Seq(Request)]
    /\ workChan \in [Servers -> Seq(Request)]
    /\ responseChan \in [Servers -> Seq(Response)]
    /\ inProcess \in [Servers -> SUBSET Amounts]
    /\ callbacks \in [Servers -> SUBSET (Amounts \X Handlers)]
    /\ call \in [Handlers -> CallState \cup {NoCall}]
    /\ work \in [Servers \X Processors -> WorkState \cup {NoWork}]
    /\ used \subseteq Nat
    /\ twice \subseteq Nat
    /\ mishaps \subseteq {"reservationFailed", "counterSetBack"}
    /\ calls \in Nat /\ redisErrors \in Nat /\ crashes \in Nat

\* "Next provides cluster unique safe to use guid" (game-server/libsidecar/guids/guids.go):
\* as long as every reservation succeeded and no first start wrote the counter back below
\* what another instance had reserved, no GUID is handed out twice, and none is one that
\* MySQL already held at the first start, however the handlers, processors, optimistic
\* transactions and restarts of the instances interleave.
UniqueWhileHealthy == mishaps = {} => twice = {} /\ \A g \in used : g > DBMax

\* The GUIDs that an instance holds: buffered ranges, and reserved ones on their
\* way from a processor to the dispatcher.
RangesOf(ds) == UNION {ds[i].start .. ds[i].end : i \in DOMAIN ds}
ArrivingIn(ms) == UNION {ms[i].newGuids.start .. ms[i].newGuids.end : i \in DOMAIN ms}
HeldGuids(s) == RangesOf(cache[s]) \cup ArrivingIn(responseChan[s])

\* No instance that found the key absent wrote it after another one had reserved from it.
CounterKept == "counterSetBack" \notin mishaps

\* The optimistic transactions give every instance ranges of its own, also after
\* aborted, failed and lost attempts and whoever seeded the key: unless a first start
\* sets the counter back, two instances never hold the same GUID (except 0, which
\* stands for a failed reservation).
InstancesDisjoint ==
    CounterKept => \A s, t \in Servers : s # t => HeldGuids(s) \cap HeldGuids(t) \subseteq {0}

\* InstancesDisjoint is inductive together with: what is held has been reserved, and
\* a transaction that would commit has read the counter as it is.
Reserved ==
    CounterKept =>
      /\ \A p \in Servers \X Processors :
            work[p].pc = "exec" /\ ~work[p].dirty => work[p].read = maxGuid
      /\ \A s \in Servers : HeldGuids(s) \subseteq 0..maxGuid

\* A handler blocked on its callback channel is known to exactly one party that
\* will wake it: its request is queued or in flight, or it is in callbacksQueue.
WaitersAreKnown ==
    \A h \in Handlers : call[h] # NoCall /\ call[h].pc = "wait" =>
        LET s == call[h].server
        IN  Cardinality(
                {<<"queue", i>> : i \in {i \in DOMAIN requestChan[s] : requestChan[s][i].callback = h}}
           \cup {<<"work", i>> : i \in {i \in DOMAIN workChan[s] : workChan[s][i].callback = h}}
           \cup {<<"processor", p>> : p \in {p \in Processors : /\ work[<<s, p>>] # NoWork
                                                               /\ work[<<s, p>>].request.callback = h}}
           \cup {<<"response", i>> : i \in {i \in DOMAIN responseChan[s] :
                                                responseChan[s][i].request.callback = h}}
           \cup {<<"callback", c>> : c \in {c \in callbacks[s] : c[2] = h /\ c[1] \in inProcess[s]}}) = 1

=============================================================================
