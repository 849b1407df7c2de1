------------------------------ MODULE Limiter -------------------------------
(***************************************************************************)
(* The rate limiter (ed2ksrv/udp_limit.go): a table of token buckets, one  *)
(* per source address, that is swept when it is at its limit.  The UDP     *)
(* read loop is the only caller of its limiter; the limiters of            *)
(* connections and of callbacks are called by many goroutines.             *)
(*                                                                         *)
(* Time is counted in ticks and tokens in the units one tick refills: a    *)
(* second is Burst ticks, and a packet costs Cost = Burst / rate units.    *)
(* The code's floating-point sums are exact here.                          *)
(***************************************************************************)
EXTENDS Integers, FiniteSets, Sequences

CONSTANTS
    Addresses,   \* source addresses
    Callers,     \* goroutines
    Burst,       \* what a full bucket holds: rate * Cost
    Cost,        \* the units one packet costs
    MaxEntries,  \* udpLimiterMaxEntries
    NoBucket,    \* the table has no bucket for this address
    MaxTime      \* bound: ticks of the clock in a behaviour

Bucket == [tokens : 0..Burst, last : Nat]

ASSUME CostAssumption == Cost \in Nat \ {0} /\ Burst \in Nat /\ Burst >= Cost
ASSUME BoundAssumption == MaxEntries \in Nat /\ MaxTime \in Nat
ASSUME BucketAssumption == NoBucket \notin Bucket

VARIABLES
    callers,  \* the goroutines that call allow of this limiter
    now,      \* time.Now
    seen,     \* udpLimiter.seen
    pc,       \* a caller is outside, or between the clock and the lock
    at,       \* local: the time a caller has read
    address,  \* local: the address it asks for
    answer,   \* the last answer: an address, and whether it was let in
    grants    \* history: address -> the times at which it was let in

vars == <<callers, now, seen, pc, at, address, answer, grants>>

Known == {a \in Addresses : seen[a] # NoBucket}

Init ==
    /\ callers \in SUBSET Callers \ {{}}
    /\ now = 0
    /\ seen = [a \in Addresses |-> NoBucket]
    /\ pc = [c \in Callers |-> "outside"]
    /\ at = [c \in Callers |-> 0]
    /\ address \in [Callers -> Addresses]
    /\ answer = <<>>
    /\ grants = [a \in Addresses |-> <<>>]

Tick ==
    /\ now < MaxTime
    /\ now' = now + 1
    /\ UNCHANGED <<callers, seen, pc, at, address, answer, grants>>

\* allow reads the clock before it takes the lock.
ReadClock(c) ==
    /\ pc[c] = "outside"
    /\ pc' = [pc EXCEPT ![c] = "waiting"]
    /\ at' = [at EXCEPT ![c] = now]
    /\ \E a \in Addresses : address' = [address EXCEPT ![c] = a]
    /\ UNCHANGED <<callers, now, seen, answer, grants>>

\* (Mutants: the sweep drops a bucket one packet early; it drops none.)
SweepMutant(t) ==
    [a \in Addresses |->
        IF seen[a] # NoBucket /\ seen[a].tokens + (t - seen[a].last) >= Burst - Cost
        THEN NoBucket ELSE seen[a]]
SweepNothingMutant(t) == seen

\* sweepLocked: drop the buckets that would be full by now.
Sweep(t) ==
    [a \in Addresses |->
        IF seen[a] # NoBucket /\ seen[a].tokens + (t - seen[a].last) >= Burst
        THEN NoBucket ELSE seen[a]]

\* The table allow works on.
Table(t) == IF Cardinality(Known) >= MaxEntries THEN Sweep(t) ELSE seen

\* (Mutants: the refill has no limit; a late caller takes the bucket back; the
\* elapsed time is not credited.)
RefillUncappedMutant(b, t) ==
    IF t <= b.last THEN b ELSE [tokens |-> b.tokens + (t - b.last), last |-> t]
RefillStaleMutant(b, t) ==
    [tokens |-> IF t <= b.last THEN b.tokens
                ELSE IF b.tokens + (t - b.last) > Burst THEN Burst
                ELSE b.tokens + (t - b.last),
     last |-> t]
RefillLostMutant(b, t) == IF t <= b.last THEN b ELSE [b EXCEPT !.last = t]

\* A bucket with what it has gained since it was last used, if time has passed.
Refill(b, t) ==
    IF t <= b.last THEN b
    ELSE [tokens |-> IF b.tokens + (t - b.last) > Burst THEN Burst
                     ELSE b.tokens + (t - b.last),
          last |-> t]

\* (A mutant: a packet is let in on any fraction of a token.)
EnoughMutant(b) == b.tokens > 0

\* Is there a whole token?
Enough(b) == b.tokens >= Cost

Spend(b) == [b EXCEPT !.tokens = @ - Cost]

\* The answer to a caller, which leaves.
Answers(c, ok) ==
    /\ answer' = <<address[c], ok>>
    /\ grants' = IF ok THEN [grants EXCEPT ![address[c]] = Append(@, at[c])] ELSE grants
    /\ pc' = [pc EXCEPT ![c] = "outside"]
    /\ UNCHANGED <<callers, now, at, address>>

\* allow, under the lock, for an address that is not in the table: a full
\* bucket, which pays for this packet.
AllowNew(c) ==
    /\ pc[c] = "waiting"
    /\ Table(at[c])[address[c]] = NoBucket
    /\ seen' = [Table(at[c]) EXCEPT ![address[c]] =
                   [tokens |-> Burst - Cost, last |-> at[c]]]
    /\ Answers(c, TRUE)

\* allow, under the lock, for an address in the table.
AllowKnown(c) ==
    LET b == Refill(Table(at[c])[address[c]], at[c]) IN
    /\ pc[c] = "waiting"
    /\ Table(at[c])[address[c]] # NoBucket
    /\ seen' = [Table(at[c]) EXCEPT ![address[c]] = IF Enough(b) THEN Spend(b) ELSE b]
    /\ Answers(c, Enough(b))

Next == Tick \/ \E c \in callers : ReadClock(c) \/ AllowNew(c) \/ AllowKnown(c)

Spec == Init /\ [][Next]_vars

----------------------------------------------------------------------------
(* Properties.                                                             *)

\* Every variable has its type: a bucket never holds less than nothing nor more
\* than a burst, and nobody works with a time that is still to come.
TypeOK ==
    /\ callers \in SUBSET Callers
    /\ now \in Nat
    /\ seen \in [Addresses -> Bucket \cup {NoBucket}]
    /\ pc \in [Callers -> {"outside", "waiting"}]
    /\ at \in [Callers -> 0..now]
    /\ \A a \in Known : seen[a].last <= now
    /\ address \in [Callers -> Addresses]
    /\ answer \in {<<>>} \cup (Addresses \X BOOLEAN)
    /\ grants \in [Addresses -> Seq(Nat)]

\* A bucket's time never goes back, however late a caller gets the lock: no
\* interval is credited twice (allow, the test of elapsed).
TimeMonotone ==
    [][\A a \in Addresses :
         (seen[a] # NoBucket /\ seen'[a] # NoBucket) => seen'[a].last >= seen[a].last]_vars

\* An address is refused only if it was let in within the last second: the
\* limiter damps volume and never shuts an address out (udp_limit.go:8-10).
RefusalJustified ==
    [][\A c \in Callers :
         (pc[c] = "waiting" /\ pc'[c] = "outside" /\ answer' = <<address[c], FALSE>>)
            => \E i \in DOMAIN grants[address[c]] :
                  grants[address[c]][i] > at[c] - Burst]_vars

\* The limiter has one caller, as the one of the UDP read loop.
OneCaller == \E c \in Callers : callers = {c}

\* In every interval an address is let in at most as often as one burst and the
\* rate allow, although its bucket may have been swept in between, if there is one
\* caller.  (Of several one may work with a time before that of the last sweep,
\* find its bucket gone and be given a full one.)
RateBound ==
    OneCaller =>
    \A a \in Addresses : \A j \in DOMAIN grants[a] : \A i \in 1..j :
        (j - i + 1) * Cost <= Burst + (grants[a][j] - grants[a][i])

\* "the table is swept when it crosses this size" (udp_limit.go:24): with one
\* caller it grows past its limit only by addresses heard of within one and the
\* same second.
SweepBoundsTable ==
    OneCaller /\ Cardinality(Known) > MaxEntries =>
        \A a, b \in Known : seen[a].last - seen[b].last < Burst

\* With one caller the limiter is a token bucket per address: sweeping cannot be
\* noticed.  Its time is the time the caller has read.
Clock == at[CHOOSE c \in callers : TRUE]

LevelOf(b, t) ==
    IF b = NoBucket \/ b.tokens + (t - b.last) > Burst THEN Burst
    ELSE b.tokens + (t - b.last)

Level == [a \in Addresses |-> LevelOf(seen[a], Clock)]

Abstract == INSTANCE TokenBucket WITH now <- Clock, level <- Level

Implements ==
    /\ OneCaller => Abstract!Init
    /\ [][OneCaller => [Abstract!Next]_(Abstract!vars)]_vars
=============================================================================
