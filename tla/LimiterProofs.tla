--------------------------- MODULE LimiterProofs ----------------------------
(* Theorems about Limiter, for any number of addresses, any rate and limit. *)
EXTENDS Limiter, FiniteSetTheorems, TLAPS

\* What the operators on buckets return.
LEMMA BucketTypes ==
    ASSUME NEW b \in Bucket, NEW t \in Nat
    PROVE  /\ Refill(b, t) \in Bucket
           /\ Refill(b, t).last >= b.last
           /\ t <= b.last \/ Refill(b, t).last = t
           /\ Enough(b) => Spend(b) \in Bucket
           /\ Spend(b).last = b.last
  BY CostAssumption DEF Bucket, Refill, Enough, Spend

\* The table allow works on is the old one, less some buckets.
LEMMA TableTypes ==
    ASSUME TypeOK, NEW t \in Nat, NEW a \in Addresses
    PROVE  /\ Table(t)[a] \in {seen[a], NoBucket}
           /\ Table(t) \in [Addresses -> Bucket \cup {NoBucket}]
  BY DEF TypeOK, Table, Sweep

LEMMA InitTypes == Init => TypeOK
  BY DEF Init, TypeOK, Known

\* The table after a call: the bucket of one address is written, others may have
\* been swept.
LEMMA AllowShape ==
    ASSUME TypeOK, NEW c \in callers, AllowNew(c) \/ AllowKnown(c)
    PROVE  /\ seen' \in [Addresses -> Bucket \cup {NoBucket}]
           /\ \A a \in Addresses \ {address[c]} : seen'[a] \in {seen[a], NoBucket}
           /\ seen'[address[c]] \in Bucket
           /\ seen'[address[c]].last <= now
           /\ seen[address[c]] # NoBucket =>
                 seen'[address[c]].last >= seen[address[c]].last
<1> DEFINE t == at[c]
           x == address[c]
<1>1. t \in Nat /\ t <= now /\ x \in Addresses /\ now \in Nat
  BY DEF TypeOK
<1>2. /\ Table(t) \in [Addresses -> Bucket \cup {NoBucket}]
      /\ \A a \in Addresses : Table(t)[a] \in {seen[a], NoBucket}
  BY <1>1, TableTypes
<1>3. CASE AllowNew(c)
  <2>1. [tokens |-> Burst - Cost, last |-> t] \in Bucket
    BY <1>1, CostAssumption DEF Bucket
  <2>2. seen' = [Table(t) EXCEPT ![x] = [tokens |-> Burst - Cost, last |-> t]]
    BY <1>3 DEF AllowNew
  <2>3. ASSUME seen[x] # NoBucket PROVE t >= seen[x].last
    <3>1. seen[x] \in Bucket /\ Sweep(t)[x] = NoBucket
      BY <1>1, <1>3, <2>3 DEF AllowNew, Table, TypeOK
    <3>2. seen[x].tokens + (t - seen[x].last) >= Burst
      BY <1>1, <2>3, <3>1 DEF Sweep
    <3> QED BY <1>1, <3>1, <3>2, CostAssumption DEF Bucket
  <2> QED BY <1>1, <1>2, <2>1, <2>2, <2>3
<1>4. CASE AllowKnown(c)
  <2> DEFINE b == Refill(Table(t)[x], t)
             n == IF Enough(b) THEN Spend(b) ELSE b
  <2>1. Table(t)[x] = seen[x] /\ seen[x] \in Bucket /\ x \in Known
    BY <1>1, <1>2, <1>4, BucketAssumption DEF AllowKnown, TypeOK, Known
  <2>2. seen[x].last <= now /\ seen[x].last \in Nat
    BY <2>1 DEF TypeOK, Bucket
  <2>3. b \in Bucket /\ b.last >= seen[x].last /\ b.last <= now
    BY <1>1, <2>1, <2>2, BucketTypes DEF Refill
  <2>4. n \in Bucket /\ n.last = b.last
    BY <2>3, BucketTypes DEF Bucket
  <2>5. seen' = [Table(t) EXCEPT ![x] = n]
    BY <1>4 DEF AllowKnown
  <2> HIDE DEF n, b
  <2> QED BY <1>1, <1>2, <2>1, <2>3, <2>4, <2>5
<1> QED BY <1>3, <1>4

LEMMA NextTypes == TypeOK /\ [Next]_vars => TypeOK'
<1> SUFFICES ASSUME TypeOK, [Next]_vars PROVE TypeOK'
  OBVIOUS
<1>1. CASE Tick
  <2>1. now' = now + 1 /\ UNCHANGED <<callers, seen, pc, at, address, answer, grants>>
    BY <1>1 DEF Tick
  <2>2. at' \in [Callers -> 0..now']
    BY <2>1 DEF TypeOK
  <2>3. \A a \in Known' : seen'[a].last <= now'
    BY <2>1 DEF TypeOK, Known, Bucket
  <2> QED BY <2>1, <2>2, <2>3 DEF TypeOK
<1>2. ASSUME NEW c \in callers, ReadClock(c) PROVE TypeOK'
  BY <1>2 DEF ReadClock, TypeOK, Known
<1>3. ASSUME NEW c \in callers, AllowNew(c) \/ AllowKnown(c) PROVE TypeOK'
  <2>1. PICK ok \in BOOLEAN : Answers(c, ok)
    <3>1. CASE AllowNew(c)
      <4>1. Answers(c, TRUE)
        BY <3>1 DEF AllowNew
      <4> QED BY <4>1
    <3>2. CASE AllowKnown(c)
      <4> DEFINE ok == Enough(Refill(Table(at[c])[address[c]], at[c]))
      <4>1. Answers(c, ok)
        BY <3>2 DEF AllowKnown
      <4>2. ok \in BOOLEAN
        BY DEF Enough
      <4> QED BY <4>1, <4>2
    <3> QED BY <1>3, <3>1, <3>2
  <2>2. /\ now' = now /\ at' = at /\ address' = address /\ callers' = callers
        /\ address[c] \in Addresses
    BY <2>1 DEF Answers, TypeOK
  <2>3. grants' \in [Addresses -> Seq(Nat)]
    BY <2>1 DEF Answers, TypeOK
  <2>4. /\ answer' \in {<<>>} \cup (Addresses \X BOOLEAN)
        /\ pc' \in [Callers -> {"outside", "waiting"}]
    BY <2>1, <2>2 DEF Answers, TypeOK
  <2>5. /\ seen' \in [Addresses -> Bucket \cup {NoBucket}]
        /\ \A a \in Addresses \ {address[c]} : seen'[a] \in {seen[a], NoBucket}
        /\ seen'[address[c]].last <= now
    BY <1>3, AllowShape
  <2>6. \A a \in Known' : seen'[a].last <= now'
    BY <2>2, <2>5 DEF Known, TypeOK
  <2> QED BY <2>2, <2>3, <2>4, <2>5, <2>6 DEF TypeOK
<1>4. CASE UNCHANGED vars
  BY <1>4 DEF vars, TypeOK, Known
<1> QED BY <1>1, <1>2, <1>3, <1>4 DEF Next

\* For any number of concurrent callers a bucket holds between nothing and a
\* burst, and no time lies in the future (allow).
THEOREM TypeCorrect == Spec => []TypeOK
  BY InitTypes, NextTypes, PTL DEF Spec

\* No bucket's time ever goes back, for any number of callers and any delay
\* between their reading of the clock and the lock (allow, sweepLocked).
THEOREM TimeNeverGoesBack == Spec => TimeMonotone
<1>1. ASSUME TypeOK, [Next]_vars, NEW a \in Addresses,
             seen[a] # NoBucket, seen'[a] # NoBucket
      PROVE  seen'[a].last >= seen[a].last
  <2>1. seen[a] \in Bucket
    BY <1>1 DEF TypeOK
  <2>2. CASE seen' = seen
    BY <2>1, <2>2 DEF Bucket
  <2>3. ASSUME NEW c \in callers, AllowNew(c) \/ AllowKnown(c)
        PROVE  seen'[a].last >= seen[a].last
    <3>1. CASE a = address[c]
      BY <1>1, <2>3, <3>1, AllowShape
    <3>2. CASE a # address[c]
      <4>1. seen'[a] = seen[a]
        BY <1>1, <2>3, <3>2, AllowShape
      <4> QED BY <2>1, <4>1 DEF Bucket
    <3> QED BY <3>1, <3>2
  <2> QED BY <1>1, <2>2, <2>3 DEF Next, Tick, ReadClock, vars
<1> DEFINE Forward == \A a \in Addresses :
              (seen[a] # NoBucket /\ seen'[a] # NoBucket) => seen'[a].last >= seen[a].last
<1>2. TypeOK /\ [Next]_vars => [Forward]_vars
  BY <1>1
<1>3. Spec => [][Forward]_vars
  BY <1>2, TypeCorrect, PTL DEF Spec
<1> QED BY <1>3 DEF TimeMonotone

----------------------------------------------------------------------------
(* Refusals, for any number of callers.                                    *)

\* A bucket remembers that its address was let in: at its own time or later, or,
\* while it holds less than a packet costs, no longer ago than its tokens took to
\* gather.
Remembers(a) ==
    \E i \in DOMAIN grants[a] :
        \/ grants[a][i] >= seen[a].last
        \/ seen[a].tokens < Cost /\ grants[a][i] >= seen[a].last - seen[a].tokens

RefusalInv == TypeOK /\ \A a \in Known : Remembers(a)

\* What a refusal knows of the bucket it looked at.
LEMMA RefusalShape ==
    ASSUME TypeOK, NEW c \in callers, AllowKnown(c),
           ~Enough(Refill(Table(at[c])[address[c]], at[c]))
    PROVE  LET x == address[c] IN
           /\ x \in Known /\ seen[x] \in Bucket /\ at[c] \in Nat
           /\ seen'[x] = Refill(seen[x], at[c])
           /\ Refill(seen[x], at[c]).tokens < Cost
           /\ grants' = grants
<1> DEFINE x == address[c]
           t == at[c]
<1>1. x \in Addresses /\ t \in Nat
  BY DEF TypeOK
<1>2. Table(t)[x] = seen[x] /\ seen[x] \in Bucket /\ x \in Known
  BY <1>1, TableTypes DEF AllowKnown, TypeOK, Known
<1>3. Refill(seen[x], t) \in Bucket
  BY <1>1, <1>2, BucketTypes
<1>4. Refill(seen[x], t).tokens < Cost
  BY <1>2, <1>3, CostAssumption DEF Enough, Bucket
<1>5. seen' = [Table(t) EXCEPT ![x] = Refill(seen[x], t)]
  BY <1>2 DEF AllowKnown
<1>6. seen'[x] = Refill(seen[x], t)
  BY <1>1, <1>5, TableTypes
<1>7. grants' = grants
  BY DEF AllowKnown, Answers
<1> QED BY <1>1, <1>2, <1>4, <1>6, <1>7

LEMMA NextRefusal == RefusalInv /\ [Next]_vars => RefusalInv'
<1> SUFFICES ASSUME RefusalInv, [Next]_vars, NEW a \in Known' PROVE Remembers(a)'
  BY NextTypes DEF RefusalInv
<1> USE DEF RefusalInv
<1>0. a \in Addresses /\ TypeOK
  BY DEF Known
<1>1. CASE UNCHANGED <<seen, grants>>
  BY <1>1 DEF Known, Remembers
<1>2. ASSUME NEW c \in callers, AllowNew(c) \/ AllowKnown(c) PROVE Remembers(a)'
  <2> DEFINE x == address[c]
             t == at[c]
  <2>0. x \in Addresses /\ t \in Nat /\ grants[x] \in Seq(Nat)
    BY DEF TypeOK
  <2>1. CASE a # x
    <3>1. seen'[a] = seen[a] /\ a \in Known
      BY <1>0, <1>2, <2>1, AllowShape DEF Known
    <3>2. grants'[a] = grants[a]
      BY <1>0, <1>2, <2>1 DEF AllowNew, AllowKnown, Answers, TypeOK
    <3> QED BY <3>1, <3>2 DEF Remembers
  <2>2. ASSUME Answers(c, TRUE), a = x
        PROVE  /\ \E i \in DOMAIN grants'[a] : grants'[a][i] = t
               /\ \A i \in DOMAIN grants[a] :
                     i \in DOMAIN grants'[a] /\ grants'[a][i] = grants[a][i]
    <3>1. grants'[a] = Append(grants[a], t)
      BY <2>0, <2>2 DEF Answers, TypeOK
    <3> QED BY <2>0, <2>2, <3>1
  <2>3. CASE a = x /\ AllowNew(c)
    <3>1. seen'[a].last = t
      BY <2>0, <2>3, TableTypes DEF AllowNew
    <3>2. Answers(c, TRUE)
      BY <2>3 DEF AllowNew
    <3> QED BY <2>0, <2>2, <2>3, <3>1, <3>2 DEF Remembers
  <2>4. CASE a = x /\ AllowKnown(c)
    <3> DEFINE b == Refill(Table(t)[x], t)
    <3>1. /\ Table(t)[x] = seen[x] /\ seen[x] \in Bucket /\ x \in Known
          /\ seen[x].last \in Nat /\ seen[x].tokens \in 0..Burst
      BY <2>0, <2>4, TableTypes DEF AllowKnown, TypeOK, Known, Bucket
    <3>2. Remembers(a)
      BY <2>4, <3>1
    <3>3. CASE Enough(b)
      <4>1. Answers(c, TRUE)
        BY <2>4, <3>3 DEF AllowKnown, Enough
      <4>2. seen'[x].last = b.last
        <5>1. seen'[x] = Spend(b)
          BY <2>0, <2>4, <3>3, TableTypes DEF AllowKnown
        <5>2. b \in Bucket
          BY <2>0, <3>1, BucketTypes
        <5> QED BY <2>0, <5>1, <5>2, BucketTypes
      <4>3. CASE t <= seen[x].last
        <5>1. b = seen[x]
          BY <3>1, <4>3 DEF Refill
        <5>2. \E i \in DOMAIN grants[a] : grants[a][i] >= seen[x].last
          <6>1. ~(seen[x].tokens < Cost)
            BY <3>1, <3>3, <5>1, CostAssumption DEF Enough
          <6> QED BY <2>4, <3>2, <6>1 DEF Remembers
        <5> QED BY <2>2, <2>4, <4>1, <4>2, <5>1, <5>2 DEF Remembers
      <4>4. CASE ~(t <= seen[x].last)
        <5>1. b.last = t
          BY <2>0, <3>1, <4>4, BucketTypes
        <5> QED BY <2>0, <2>2, <2>4, <4>1, <4>2, <5>1 DEF Remembers
      <4> QED BY <4>3, <4>4
    <3>4. CASE ~Enough(b)
      <4>1. /\ seen'[x] = Refill(seen[x], t)
            /\ Refill(seen[x], t).tokens < Cost
            /\ grants' = grants
        BY <2>4, <3>4, RefusalShape
      <4>2. CASE t <= seen[x].last
        BY <2>4, <3>2, <4>1, <4>2 DEF Remembers, Refill
      <4>3. CASE ~(t <= seen[x].last)
        <5>1. /\ seen'[x].last = t
              /\ seen'[x].tokens = seen[x].tokens + (t - seen[x].last)
              /\ seen'[x].tokens < Cost
          BY <2>0, <3>1, <4>1, <4>3, CostAssumption DEF Refill
        <5>2. PICK i \in DOMAIN grants[a] :
                 \/ grants[a][i] >= seen[x].last
                 \/ grants[a][i] >= seen[x].last - seen[x].tokens
          BY <2>4, <3>2 DEF Remembers
        <5>3. grants[a][i] \in Nat
          BY <2>0, <2>4, <5>2
        <5>4. grants'[a][i] >= seen'[x].last - seen'[x].tokens
          BY <2>0, <3>1, <4>1, <5>1, <5>2, <5>3
        <5> QED BY <2>4, <4>1, <5>1, <5>2, <5>4 DEF Remembers
      <4> QED BY <4>2, <4>3
    <3> HIDE DEF b
    <3> QED BY <3>3, <3>4
  <2> QED BY <1>2, <2>1, <2>3, <2>4
<1> QED BY <1>1, <1>2 DEF Next, Tick, ReadClock, vars

\* Nobody who has not been let in within the last second is refused, for any
\* number of callers and however late they get the lock (allow).
THEOREM RefusalsAreJustified == Spec => RefusalJustified
<1>1. Init => RefusalInv
  BY InitTypes DEF Init, RefusalInv, Known
<1>2. Spec => []RefusalInv
  BY <1>1, NextRefusal, PTL DEF Spec
<1>3. ASSUME RefusalInv, [Next]_vars, NEW c \in Callers,
             pc[c] = "waiting", pc'[c] = "outside", answer' = <<address[c], FALSE>>
      PROVE  \E i \in DOMAIN grants[address[c]] :
                grants[address[c]][i] > at[c] - Burst
  <2> DEFINE x == address[c]
             t == at[c]
  <2>1. c \in callers /\ AllowKnown(c) /\ ~Enough(Refill(Table(t)[x], t))
    <3>1. PICK d \in callers : AllowNew(d) \/ AllowKnown(d)
      BY <1>3 DEF Next, Tick, ReadClock, vars, RefusalInv, TypeOK
    <3>2. d = c
      BY <1>3, <3>1 DEF AllowNew, AllowKnown, Answers, RefusalInv, TypeOK
    <3>3. ~AllowNew(c)
      BY <1>3 DEF AllowNew, Answers
    <3>4. AllowKnown(c)
      BY <3>1, <3>2, <3>3
    <3>5. ASSUME Enough(Refill(Table(t)[x], t)) PROVE FALSE
      <4>1. Answers(c, TRUE)
        BY <3>4, <3>5 DEF AllowKnown, Enough
      <4>2. <<address[c], TRUE>> = <<address[c], FALSE>>
        BY <1>3, <4>1 DEF Answers
      <4> QED BY ONLY <4>2
    <3> QED BY <3>1, <3>2, <3>4, <3>5
  <2>2. /\ x \in Known /\ seen[x] \in Bucket /\ t \in Nat
        /\ Refill(seen[x], t).tokens < Cost
    BY <1>3, <2>1, RefusalShape DEF RefusalInv
  <2>3. /\ seen[x].last \in Nat /\ seen[x].tokens \in 0..Burst
        /\ grants[x] \in Seq(Nat)
    BY <1>3, <2>2 DEF Bucket, RefusalInv, TypeOK
  <2>4. t - seen[x].last + seen[x].tokens < Cost
    BY <2>2, <2>3, CostAssumption DEF Refill
  <2>5. PICK i \in DOMAIN grants[x] :
           \/ grants[x][i] >= seen[x].last
           \/ grants[x][i] >= seen[x].last - seen[x].tokens
    BY <1>3, <2>2 DEF RefusalInv, Remembers
  <2>6. grants[x][i] \in Nat
    BY <2>3, <2>5
  <2>7. ASSUME NEW g \in Nat, NEW l \in Nat, NEW k \in 0..Burst,
               g >= l \/ g >= l - k, t - l + k < Cost
        PROVE  g > t - Burst
    BY <2>2, <2>7, CostAssumption
  <2>8. grants[x][i] > t - Burst
    BY <2>3, <2>4, <2>5, <2>6, <2>7
  <2> QED BY <2>8
<1> DEFINE Justified ==
       \A c \in Callers :
         (pc[c] = "waiting" /\ pc'[c] = "outside" /\ answer' = <<address[c], FALSE>>)
            => \E i \in DOMAIN grants[address[c]] :
                  grants[address[c]][i] > at[c] - Burst
<1>4. RefusalInv /\ [Next]_vars => [Justified]_vars
  BY <1>3
<1>5. Spec => [][Justified]_vars
  BY <1>2, <1>4, PTL DEF Spec
<1> QED BY <1>5 DEF RefusalJustified

----------------------------------------------------------------------------
(* One caller: the limiter implements TokenBucket.                         *)

\* No bucket is ahead of the caller.
BehindClock == \A a \in Known : seen[a].last <= Clock

RefinementInv == TypeOK /\ BehindClock

\* There is one clock, that of the caller.
LEMMA ClockOfCaller ==
    ASSUME OneCaller, NEW c \in callers, UNCHANGED callers
    PROVE  Clock = at[c] /\ Clock' = at'[c]
  BY DEF OneCaller, Clock

\* It stands still during a call.
LEMMA CallerTime ==
    ASSUME OneCaller, TypeOK, NEW c \in callers, AllowNew(c) \/ AllowKnown(c)
    PROVE  Clock = at[c] /\ Clock' = at[c] /\ at[c] \in Nat
<1>1. UNCHANGED <<callers, at>>
  BY DEF AllowNew, AllowKnown, Answers
<1>2. at[c] \in Nat
  BY DEF TypeOK
<1> QED BY <1>1, <1>2, ClockOfCaller

LEMMA InitRefinement == Init => RefinementInv
  BY InitTypes DEF Init, RefinementInv, BehindClock, Known

\* A sweep cannot be noticed: what it drops is full.
LEMMA SweepInvisible ==
    ASSUME TypeOK, Clock \in Nat, NEW a \in Addresses
    PROVE  LevelOf(Table(Clock)[a], Clock) = LevelOf(seen[a], Clock)
<1>1. CASE Table(Clock)[a] = seen[a]
  BY <1>1
<1>2. CASE Table(Clock)[a] # seen[a]
  <2>1. /\ Table(Clock)[a] = NoBucket
        /\ seen[a] \in Bucket
        /\ seen[a].tokens + (Clock - seen[a].last) >= Burst
    BY <1>2 DEF TypeOK, Table, Sweep
  <2>2. seen[a].tokens + (Clock - seen[a].last) \in Int
    BY <2>1 DEF Bucket
  <2> QED BY <2>1, <2>2, CostAssumption DEF LevelOf
<1> QED BY <1>1, <1>2

\* A refilled bucket holds its level, and spending lowers it by the cost.
LEMMA RefillIsLevel ==
    ASSUME NEW b \in Bucket, NEW t \in Nat, b.last <= t
    PROVE  /\ Refill(b, t) \in Bucket
           /\ Refill(b, t).last = t
           /\ Refill(b, t).tokens = LevelOf(b, t)
           /\ LevelOf(Refill(b, t), t) = LevelOf(b, t)
           /\ Enough(Refill(b, t)) =>
                 LevelOf(Spend(Refill(b, t)), t) = LevelOf(b, t) - Cost
<1>1. b # NoBucket
  BY BucketAssumption
<1>2. Refill(b, t) \in Bucket /\ Refill(b, t).last = t /\ Refill(b, t).tokens = LevelOf(b, t)
  <2>1. b.tokens \in 0..Burst /\ b.last \in Nat /\ Burst \in Nat
    BY CostAssumption DEF Bucket
  <2>2. Refill(b, t) \in Bucket
    BY BucketTypes
  <2>3. CASE t <= b.last
    BY <1>1, <2>1, <2>2, <2>3 DEF Refill, LevelOf
  <2>4. CASE ~(t <= b.last)
    <3>1. Refill(b, t) = [tokens |-> LevelOf(b, t), last |-> t]
      BY <1>1, <2>4 DEF Refill, LevelOf
    <3> QED BY <2>2, <3>1
  <2> QED BY <2>3, <2>4
<1>3. ASSUME NEW n \in Bucket, n.last = t PROVE LevelOf(n, t) = n.tokens
  BY <1>3, BucketAssumption, CostAssumption DEF LevelOf, Bucket
<1>4. ASSUME Enough(Refill(b, t))
      PROVE  /\ Spend(Refill(b, t)) \in Bucket
             /\ Spend(Refill(b, t)).last = t
             /\ Spend(Refill(b, t)).tokens = Refill(b, t).tokens - Cost
  BY <1>2, <1>4, BucketTypes DEF Spend, Bucket
<1> QED BY <1>2, <1>3, <1>4

LEMMA NextRefinement ==
    ASSUME OneCaller PROVE RefinementInv /\ [Next]_vars => RefinementInv'
<1> SUFFICES ASSUME RefinementInv, [Next]_vars PROVE BehindClock'
  BY NextTypes DEF RefinementInv
<1> USE DEF RefinementInv
<1>1. CASE Tick
  BY <1>1 DEF Tick, BehindClock, Known, Clock
<1>2. ASSUME NEW c \in callers, ReadClock(c) PROVE BehindClock'
  <2>1. Clock' = now /\ UNCHANGED seen
    BY <1>2, ClockOfCaller DEF ReadClock, TypeOK
  <2> QED BY <2>1 DEF BehindClock, Known, TypeOK
<1>3. ASSUME NEW c \in callers, AllowNew(c) \/ AllowKnown(c) PROVE BehindClock'
  <2>1. Clock' = at[c] /\ Clock = at[c] /\ at[c] \in Nat /\ address[c] \in Addresses
    BY <1>3, CallerTime DEF TypeOK
  <2>2. seen'[address[c]].last <= at[c]
    <3>1. CASE AllowNew(c)
      BY <2>1, <3>1, TableTypes DEF AllowNew
    <3>2. CASE AllowKnown(c)
      <4> DEFINE x == address[c]
                 b == Refill(Table(at[c])[x], at[c])
      <4>1. Table(at[c])[x] = seen[x] /\ seen[x] \in Bucket /\ seen[x].last <= at[c]
        BY <2>1, <3>2, TableTypes DEF AllowKnown, TypeOK, BehindClock, Known
      <4>2. b \in Bucket /\ b.last = at[c]
        BY <2>1, <4>1, RefillIsLevel
      <4>3. seen'[x] = IF Enough(b) THEN Spend(b) ELSE b
        BY <2>1, <3>2, TableTypes DEF AllowKnown
      <4>4. Spend(b).last = b.last
        BY <2>1, <4>2, BucketTypes
      <4> HIDE DEF b
      <4> QED BY <2>1, <4>2, <4>3, <4>4
    <3> QED BY <1>3, <3>1, <3>2
  <2>3. \A a \in Addresses \ {address[c]} : seen'[a] \in {seen[a], NoBucket}
    BY <1>3, AllowShape
  <2> QED BY <2>1, <2>2, <2>3 DEF BehindClock, Known
<1>4. CASE UNCHANGED vars
  BY <1>4 DEF vars, BehindClock, Known, Clock
<1> QED BY <1>1, <1>2, <1>3, <1>4 DEF Next

\* Who calls a limiter does not change.
LEMMA CallersStay == [Next]_vars => (OneCaller' <=> OneCaller)
  BY DEF Next, Tick, ReadClock, AllowNew, AllowKnown, Answers, vars, OneCaller

LEMMA AlwaysRefinement == Spec => [](OneCaller => RefinementInv)
<1>1. Init => (OneCaller => RefinementInv)
  BY InitRefinement
<1>2. (OneCaller => RefinementInv) /\ [Next]_vars => (OneCaller => RefinementInv)'
  BY NextRefinement, CallersStay
<1> QED BY <1>1, <1>2, PTL DEF Spec

\* A call is an admission or a refusal of the abstract bucket of its address.
LEMMA AllowSimulation ==
    ASSUME OneCaller, RefinementInv, NEW c \in callers, AllowNew(c) \/ AllowKnown(c)
    PROVE  \/ Answers(c, TRUE) /\ Abstract!Admit(address[c])
           \/ Answers(c, FALSE) /\ Abstract!Refuse(address[c])
<1> USE DEF RefinementInv
<1> DEFINE x == address[c]
<1>1. /\ Clock' = Clock /\ Clock = at[c] /\ Clock \in Nat /\ x \in Addresses
      /\ Table(Clock) \in [Addresses -> Bucket \cup {NoBucket}]
      /\ Table(Clock)[x] \in {seen[x], NoBucket}
  BY CallerTime, TableTypes DEF TypeOK
<1>2. ASSUME NEW n \in Bucket, seen' = [Table(Clock) EXCEPT ![x] = n]
      PROVE  Level' = [Level EXCEPT ![x] = LevelOf(n, Clock)]
  BY <1>1, <1>2, SweepInvisible DEF Level
<1>3. CASE AllowNew(c)
  <2> DEFINE n == [tokens |-> Burst - Cost, last |-> Clock]
  <2>1. n \in Bucket /\ LevelOf(n, Clock) = Burst - Cost
    BY <1>1, CostAssumption, BucketAssumption DEF Bucket, LevelOf
  <2>2. Level[x] = Burst
    BY <1>1, <1>3, SweepInvisible DEF AllowNew, Level, LevelOf
  <2>3. Level' = [Level EXCEPT ![x] = Burst - Cost]
    BY <1>1, <1>2, <1>3, <2>1 DEF AllowNew
  <2>4. Answers(c, TRUE)
    BY <1>3 DEF AllowNew
  <2> QED BY <1>1, <2>2, <2>3, <2>4, CostAssumption DEF Abstract!Admit, Answers
<1>4. CASE AllowKnown(c)
  <2> DEFINE b == Refill(Table(Clock)[x], Clock)
  <2>1. /\ Table(Clock)[x] = seen[x] /\ seen[x] \in Bucket /\ seen[x].last <= Clock
    BY <1>1, <1>4 DEF AllowKnown, TypeOK, BehindClock, Known
  <2>2. /\ b \in Bucket /\ b.tokens = Level[x] /\ LevelOf(b, Clock) = Level[x]
        /\ Enough(b) => LevelOf(Spend(b), Clock) = Level[x] - Cost
        /\ Enough(b) => Spend(b) \in Bucket
    BY <1>1, <2>1, RefillIsLevel, BucketTypes DEF Level
  <2>3. /\ seen' = [Table(Clock) EXCEPT ![x] = IF Enough(b) THEN Spend(b) ELSE b]
        /\ Answers(c, Enough(b))
    BY <1>1, <1>4 DEF AllowKnown
  <2>4. Enough(b) <=> Level[x] >= Cost
    BY <2>2 DEF Enough
  <2> HIDE DEF b
  <2>5. CASE Enough(b)
    <3>1. Level' = [Level EXCEPT ![x] = Level[x] - Cost]
      BY <1>2, <2>2, <2>3, <2>5
    <3>2. Answers(c, TRUE)
      BY <2>3, <2>5 DEF Enough
    <3> QED BY <1>1, <2>4, <2>5, <3>1, <3>2 DEF Abstract!Admit, Answers
  <2>6. CASE ~Enough(b)
    <3>1. Level' = [Level EXCEPT ![x] = Level[x]]
      BY <1>2, <2>2, <2>3, <2>6
    <3>2. Level' = Level
      BY <1>1, <3>1 DEF Level
    <3>3. Answers(c, FALSE)
      <4>1. Enough(b) = FALSE
        BY <2>6 DEF Enough
      <4> QED BY <2>3, <4>1
    <3>4. Level[x] < Cost
      BY <2>2, <2>4, <2>6, CostAssumption DEF Bucket
    <3> QED BY <1>1, <3>2, <3>3, <3>4 DEF Abstract!Refuse, Answers
  <2> QED BY <2>5, <2>6
<1> QED BY <1>3, <1>4

\* Every step of the limiter is a step of the abstract buckets, or none.
LEMMA StepSimulation ==
    ASSUME OneCaller, RefinementInv, [Next]_vars
    PROVE  [Abstract!Next]_(Abstract!vars)
<1> USE DEF RefinementInv
<1>1. CASE Tick
  BY <1>1 DEF Tick, Abstract!vars, Clock, Level
<1>2. ASSUME NEW c \in callers, ReadClock(c) PROVE [Abstract!Next]_(Abstract!vars)
  <2>1. /\ Clock' = now /\ now \in Nat /\ Clock \in Nat /\ Clock <= now
        /\ UNCHANGED <<seen, answer>>
    BY <1>2, ClockOfCaller DEF ReadClock, TypeOK
  <2>2. CASE Clock = now
    BY <2>1, <2>2 DEF Abstract!vars, Level
  <2>3. CASE Clock < now
    <3>1. \A a \in Addresses :
             LevelOf(seen[a], now) = Abstract!AtMost(LevelOf(seen[a], Clock) + (now - Clock))
      BY <2>1, <2>3, CostAssumption
         DEF LevelOf, Abstract!AtMost, TypeOK, Bucket
    <3>2. Level' = [a \in Addresses |-> Abstract!AtMost(Level[a] + (Clock' - Clock))]
      BY <2>1, <3>1 DEF Level
    <3> QED BY <2>1, <2>3, <3>2 DEF Abstract!Next, Abstract!Elapse
  <2> QED BY <2>1, <2>2, <2>3
<1>3. ASSUME NEW c \in callers, AllowNew(c) \/ AllowKnown(c)
      PROVE  [Abstract!Next]_(Abstract!vars)
  <2>1. address[c] \in Addresses
    BY DEF TypeOK
  <2> QED BY <1>3, <2>1, AllowSimulation DEF Abstract!Next
<1>4. CASE UNCHANGED vars
  BY <1>4 DEF vars, Abstract!vars, Level, Clock
<1> QED BY <1>1, <1>2, <1>3, <1>4 DEF Next

\* With one caller, as in the UDP read loop, the limiter with its bounded table
\* behaves exactly as one bucket per address that is never forgotten.
THEOREM ImplementsTokenBucket == Spec => Implements
<1>1. Init => (OneCaller => Abstract!Init)
  <2> SUFFICES ASSUME Init, OneCaller PROVE Abstract!Init
    OBVIOUS
  <2>1. Clock = 0
    BY DEF Init, Clock, OneCaller
  <2>2. Level = [a \in Addresses |-> Burst]
    BY DEF Init, Level, LevelOf
  <2> QED BY <2>1, <2>2 DEF Init, Abstract!Init
<1> DEFINE Simulated == OneCaller => [Abstract!Next]_(Abstract!vars)
<1>2. (OneCaller => RefinementInv) /\ [Next]_vars => [Simulated]_vars
  BY StepSimulation
<1>3. Spec => [][Simulated]_vars
  BY <1>2, AlwaysRefinement, PTL DEF Spec
<1>4. Spec => (OneCaller => Abstract!Init)
  BY <1>1, PTL DEF Spec
<1> QED BY <1>3, <1>4 DEF Implements

----------------------------------------------------------------------------
(* One caller: what the refinement gives, and the size of the table.       *)

\* Every admission since the i-th is paid for: by what the bucket held then, at
\* most a burst, and by the time that has passed; the level is what is left.
Paid ==
    \A a \in Addresses : \A i \in DOMAIN grants[a] :
        /\ grants[a][i] <= Clock
        /\ (Len(grants[a]) - i + 1) * Cost + Level[a] <= Burst + (Clock - grants[a][i])

RateInv == RefinementInv /\ Paid /\ RateBound

LevelOK == Clock \in Nat /\ Level \in [Addresses -> 0..Burst]

LEMMA LevelTypes == ASSUME OneCaller PROVE RefinementInv => LevelOK
<1> SUFFICES ASSUME RefinementInv PROVE LevelOK
  OBVIOUS
<1>1. Clock \in Nat
  BY DEF OneCaller, Clock, RefinementInv, TypeOK
<1>2. ASSUME NEW a \in Addresses PROVE LevelOf(seen[a], Clock) \in 0..Burst
  <2>1. CASE seen[a] = NoBucket
    BY <2>1, CostAssumption DEF LevelOf
  <2>2. CASE seen[a] # NoBucket
    <3>1. seen[a] \in Bucket /\ seen[a].last <= Clock
      BY <2>2 DEF RefinementInv, TypeOK, BehindClock, Known
    <3> QED BY <1>1, <3>1, CostAssumption DEF LevelOf, Bucket
  <2> QED BY <2>1, <2>2
<1> QED BY <1>1, <1>2 DEF LevelOK, Level

LEMMA LevelTypesNext == OneCaller' /\ RefinementInv' => LevelOK'
<1>1. OneCaller /\ RefinementInv => LevelOK
  BY LevelTypes
<1> QED BY <1>1, PTL

\* One more admission costs Cost more.
LEMMA OneMore == ASSUME NEW n \in Int PROVE (n + 1) * Cost = n * Cost + Cost
  BY CostAssumption

LEMMA NextRate == ASSUME OneCaller PROVE RateInv /\ [Next]_vars => RateInv'
<1> SUFFICES ASSUME RateInv, [Next]_vars PROVE Paid' /\ RateBound'
  BY NextRefinement DEF RateInv
<1>0. /\ RefinementInv /\ RefinementInv' /\ TypeOK
      /\ Clock \in Nat /\ Level \in [Addresses -> 0..Burst]
      /\ Clock' \in Nat /\ Level' \in [Addresses -> 0..Burst]
  <2>1. RefinementInv /\ RefinementInv'
    BY NextRefinement DEF RateInv
  <2>2. LevelOK /\ LevelOK'
    BY <2>1, LevelTypes, LevelTypesNext, CallersStay
  <2> QED BY <2>1, <2>2 DEF RefinementInv, LevelOK
<1>1. CASE UNCHANGED <<callers, seen, at, grants>>
  BY <1>1 DEF RateInv, Paid, RateBound, Level, Clock
<1>2. ASSUME NEW c \in callers, ReadClock(c) PROVE Paid' /\ RateBound'
  <2>1. /\ Clock' = now /\ Clock <= now /\ now \in Nat /\ UNCHANGED <<seen, grants>>
    BY <1>0, <1>2, ClockOfCaller DEF ReadClock, TypeOK
  <2>2. ASSUME NEW a \in Addresses PROVE Level'[a] <= Level[a] + (Clock' - Clock)
    <3>1. LevelOf(seen[a], now) <= LevelOf(seen[a], Clock) + (now - Clock)
      BY <1>0, <2>1, CostAssumption, SMTT(30) DEF LevelOf, TypeOK, Bucket
    <3> QED BY <2>1, <3>1 DEF Level
  <2>3. ASSUME NEW a \in Addresses, NEW i \in DOMAIN grants[a]
        PROVE  /\ grants[a][i] <= Clock'
               /\ (Len(grants[a]) - i + 1) * Cost + Level'[a]
                     <= Burst + (Clock' - grants[a][i])
    <3> DEFINE paid == (Len(grants[a]) - i + 1) * Cost
    <3>1. grants[a][i] \in Nat /\ Len(grants[a]) \in Nat /\ i \in Nat
      BY <1>0, <2>3 DEF TypeOK
    <3>2. paid \in Int
      BY <3>1, CostAssumption
    <3>3. grants[a][i] <= Clock /\ paid + Level[a] <= Burst + (Clock - grants[a][i])
      BY <2>3 DEF RateInv, Paid
    <3>4. Level[a] \in Int /\ Level'[a] \in Int
      BY <1>0, <2>3, CostAssumption
    <3> HIDE DEF paid
    <3>5. ASSUME NEW l \in Int, NEW k \in Int, NEW g \in Nat, NEW u \in Nat, NEW v \in Nat,
                 NEW m \in Int, k <= l + (v - u), m + l <= Burst + (u - g)
          PROVE  m + k <= Burst + (v - g)
      BY <3>5, CostAssumption
    <3>6. paid + Level'[a] <= Burst + (Clock' - grants[a][i])
      BY <1>0, <2>2, <2>3, <3>1, <3>2, <3>3, <3>4, <3>5
    <3> QED BY <1>0, <2>1, <3>1, <3>3, <3>6 DEF paid
  <2> QED BY <2>1, <2>3 DEF RateInv, Paid, RateBound
<1>3. ASSUME NEW c \in callers, AllowNew(c) \/ AllowKnown(c) PROVE Paid' /\ RateBound'
  <2> DEFINE x == address[c]
  <2>0. /\ x \in Addresses /\ Clock' = Clock /\ at[c] = Clock
        /\ grants[x] \in Seq(Nat)
    BY <1>0, <1>3, CallerTime DEF TypeOK
  <2>1. CASE Answers(c, FALSE) /\ Abstract!Refuse(x)
    <3>1. Level' = Level /\ grants' = grants
      BY <2>1 DEF Answers, Abstract!Refuse
    <3> QED BY <2>0, <3>1 DEF RateInv, Paid, RateBound
  <2>2. CASE Answers(c, TRUE) /\ Abstract!Admit(x)
    <3> DEFINE n == Len(grants[x])
    <3>1. /\ \A a \in Addresses \ {x} : Level'[a] = Level[a] /\ grants'[a] = grants[a]
          /\ Level[x] >= Cost /\ Level'[x] = Level[x] - Cost
          /\ grants'[x] = Append(grants[x], Clock)
      BY <1>0, <2>0, <2>2 DEF Answers, Abstract!Admit, TypeOK
    <3>2. /\ n \in Nat /\ Len(grants'[x]) = n + 1 /\ DOMAIN grants'[x] = 1..(n + 1)
          /\ DOMAIN grants[x] = 1..n
          /\ \A i \in 1..n : grants'[x][i] = grants[x][i] /\ grants[x][i] \in Nat
          /\ grants'[x][n + 1] = Clock
      <4>1. ASSUME NEW s \in Seq(Nat)
            PROVE  /\ Len(s) \in Nat /\ Len(Append(s, Clock)) = Len(s) + 1
                   /\ DOMAIN Append(s, Clock) = 1..(Len(s) + 1) /\ DOMAIN s = 1..Len(s)
                   /\ \A i \in 1..Len(s) : Append(s, Clock)[i] = s[i] /\ s[i] \in Nat
                   /\ Append(s, Clock)[Len(s) + 1] = Clock
        BY <1>0
      <4> QED BY <2>0, <3>1, <4>1
    <3>3. ASSUME NEW i \in 1..(n + 1)
          PROVE  /\ grants'[x][i] \in Nat /\ grants'[x][i] <= Clock
                 /\ (n + 1 - i + 1) * Cost + Level'[x] <= Burst + (Clock - grants'[x][i])
      <4>0. Level[x] \in 0..Burst /\ Burst \in Nat /\ Cost \in Nat
        BY <1>0, <2>0, CostAssumption
      <4>1. CASE i = n + 1
        <5>1. (n + 1 - i + 1) * Cost = Cost
          BY <3>2, <4>0, <4>1
        <5> QED BY <1>0, <3>1, <3>2, <4>0, <4>1, <5>1
      <4>2. CASE i \in 1..n
        <5> DEFINE k == n - i + 1
        <5>1. k \in Int /\ n + 1 - i + 1 = k + 1
          BY <3>2, <4>2
        <5>2. grants[x][i] <= Clock /\ k * Cost + Level[x] <= Burst + (Clock - grants[x][i])
          BY <2>0, <3>2, <4>2 DEF RateInv, Paid
        <5>3. (k + 1) * Cost = k * Cost + Cost /\ k * Cost \in Int
          BY <4>0, <5>1, OneMore
        <5> HIDE DEF k
        <5>4. (k + 1) * Cost + Level'[x] <= Burst + (Clock - grants'[x][i])
          BY <1>0, <3>1, <3>2, <4>0, <4>2, <5>2, <5>3
        <5> QED BY <3>2, <4>2, <5>1, <5>2, <5>4
      <4> QED BY <3>2, <4>1, <4>2
    <3>4. Paid'
      <4> SUFFICES ASSUME NEW a \in Addresses, NEW i \in DOMAIN grants'[a]
                   PROVE  /\ grants'[a][i] <= Clock'
                          /\ (Len(grants'[a]) - i + 1) * Cost + Level'[a]
                                <= Burst + (Clock' - grants'[a][i])
        BY DEF Paid
      <4>1. CASE a = x
        <5>1. i \in 1..(n + 1) /\ Len(grants'[x]) = n + 1
          BY <3>2, <4>1
        <5> HIDE DEF n, x
        <5>2. /\ grants'[x][i] <= Clock
              /\ (n + 1 - i + 1) * Cost + Level'[x] <= Burst + (Clock - grants'[x][i])
          BY <3>3, <5>1
        <5>3. (Len(grants'[x]) - i + 1) * Cost = (n + 1 - i + 1) * Cost
          <6>1. Len(grants'[x]) - i + 1 = n + 1 - i + 1
            BY <3>2, <5>1
          <6> QED BY ONLY <6>1, Zenon
        <5> QED BY <2>0, <4>1, <5>2, <5>3
      <4>2. CASE a # x
        BY <2>0, <3>1, <4>2 DEF RateInv, Paid
      <4> QED BY <4>1, <4>2
    <3>5. ASSUME NEW j \in 1..(n + 1), NEW i \in 1..j
          PROVE  (j - i + 1) * Cost <= Burst + (grants'[x][j] - grants'[x][i])
      <4>1. CASE j = n + 1
        <5> DEFINE paid == (n + 1 - i + 1) * Cost
        <5>1. paid \in Int /\ i \in 1..(n + 1)
          BY <3>2, <4>1, CostAssumption
        <5>2. paid + Level'[x] <= Burst + (Clock - grants'[x][i]) /\ grants'[x][i] \in Nat
          BY <3>3, <5>1
        <5>3. Level'[x] \in 0..Burst
          BY <1>0, <2>0
        <5> HIDE DEF paid
        <5>4. ASSUME NEW l \in 0..Burst, NEW g \in Nat, paid + l <= Burst + (Clock - g)
              PROVE  paid <= Burst + (Clock - g)
          BY <1>0, <5>1, <5>4, CostAssumption
        <5>5. paid <= Burst + (Clock - grants'[x][i])
          BY <5>2, <5>3, <5>4
        <5>6. j - i + 1 = n + 1 - i + 1 /\ grants'[x][j] = Clock
          BY <3>2, <4>1
        <5> QED BY <5>5, <5>6 DEF paid
      <4>2. CASE j \in 1..n
        <5>1. i \in 1..n /\ j \in DOMAIN grants[x]
          BY <3>2, <4>2
        <5> QED BY <2>0, <3>2, <4>2, <5>1 DEF RateInv, RateBound
      <4> QED BY <3>2, <4>1, <4>2, SMTT(30)
    <3>6. RateBound'
      <4> SUFFICES ASSUME NEW a \in Addresses, NEW j \in DOMAIN grants'[a], NEW i \in 1..j
                   PROVE  (j - i + 1) * Cost <= Burst + (grants'[a][j] - grants'[a][i])
        BY DEF RateBound
      <4>1. CASE a = x
        BY <3>2, <3>5, <4>1
      <4>2. CASE a # x
        BY <3>1, <4>2 DEF RateInv, RateBound
      <4> QED BY <4>1, <4>2
    <3> QED BY <3>4, <3>6
  <2> QED BY <1>0, <1>3, <2>1, <2>2, AllowSimulation
<1> QED BY <1>1, <1>2, <1>3 DEF Next, Tick, vars

\* With one caller no address is ever let in faster than one burst and the rate
\* allow, whatever has been swept in between (allow, sweepLocked).
THEOREM RateIsBounded == Spec => []RateBound
<1>1. Init => (OneCaller => RateInv)
  BY InitRefinement DEF Init, RateInv, Paid, RateBound
<1>2. (OneCaller => RateInv) /\ [Next]_vars => (OneCaller => RateInv)'
  BY NextRate, CallersStay
<1>3. (OneCaller => RateInv) => RateBound
  BY DEF RateInv, RateBound
<1> QED BY <1>1, <1>2, <1>3, PTL DEF Spec

TableInv == RefinementInv /\ IsFiniteSet(Known) /\ SweepBoundsTable

LEMMA NextTable == ASSUME OneCaller PROVE TableInv /\ [Next]_vars => TableInv'
<1> SUFFICES ASSUME TableInv, [Next]_vars PROVE IsFiniteSet(Known') /\ SweepBoundsTable'
  BY NextRefinement DEF TableInv
<1>0. RefinementInv /\ TypeOK /\ BehindClock /\ IsFiniteSet(Known) /\ SweepBoundsTable
  BY DEF TableInv, RefinementInv
<1>1. CASE UNCHANGED seen
  BY <1>0, <1>1 DEF SweepBoundsTable, Known
<1>2. ASSUME NEW c \in callers, AllowNew(c) \/ AllowKnown(c)
      PROVE  IsFiniteSet(Known') /\ SweepBoundsTable'
  <2> DEFINE x == address[c]
             t == at[c]
  <2>1. Clock = t /\ Clock' = t /\ t \in Nat /\ x \in Addresses
    BY <1>0, <1>2, CallerTime DEF TypeOK
  <2>2. /\ \A a \in Addresses \ {x} : seen'[a] \in {seen[a], NoBucket}
        /\ Known' \subseteq Known \cup {x}
    BY <1>0, <1>2, AllowShape DEF Known
  <2>3. /\ IsFiniteSet(Known \cup {x})
        /\ Cardinality(Known \cup {x}) <= Cardinality(Known) + 1
        /\ Cardinality(Known) \in Nat
    <3>1. Cardinality(Known) \in Nat
      BY <1>0, FS_CardinalityType
    <3>2. IsFiniteSet(Known \cup {x})
      BY <1>0, FS_AddElement
    <3>3. Cardinality(Known \cup {x}) =
             IF x \in Known THEN Cardinality(Known) ELSE Cardinality(Known) + 1
      BY <1>0, FS_AddElement
    <3> HIDE DEF x
    <3> QED BY <3>1, <3>2, <3>3
  <2>4. IsFiniteSet(Known') /\ Cardinality(Known') <= Cardinality(Known \cup {x})
    BY <2>2, <2>3, FS_Subset
  <2>5. ASSUME Cardinality(Known') > MaxEntries, NEW a \in Known', NEW b \in Known'
        PROVE  seen'[a].last - seen'[b].last < Burst
    <3>1. Cardinality(Known) >= MaxEntries
      <4>1. /\ Cardinality(Known') \in Nat /\ Cardinality(Known \cup {x}) \in Nat
        BY <2>3, <2>4, FS_CardinalityType
      <4> QED BY <2>3, <2>4, <2>5, <4>1, BoundAssumption
    <3>2. Table(t) = Sweep(t)
      BY <3>1 DEF Table
    <3>3. BehindClock' /\ TypeOK'
      BY <1>0, NextRefinement DEF RefinementInv
    <3>4. /\ seen'[a].last \in Nat /\ seen'[b].last \in Nat
          /\ seen'[a].last <= t
      BY <2>1, <2>5, <3>3 DEF BehindClock, TypeOK, Known, Bucket
    <3>5. t - seen'[b].last < Burst
      <4>1. CASE b # x
        <5>1. seen'[b] = Sweep(t)[b] /\ seen'[b] # NoBucket /\ b \in Addresses
          <6>1. \E n : seen' = [Sweep(t) EXCEPT ![x] = n]
            BY <1>2, <3>2 DEF AllowNew, AllowKnown
          <6>2. b \in Addresses /\ seen'[b] # NoBucket
            BY <2>5 DEF Known
          <6> QED BY <4>1, <6>1, <6>2 DEF Sweep
        <5>2. /\ seen'[b] = seen[b] /\ seen[b] \in Bucket
              /\ ~(seen[b].tokens + (t - seen[b].last) >= Burst)
          BY <1>0, <5>1 DEF Sweep, TypeOK
        <5> QED BY <2>1, <5>2, CostAssumption DEF Bucket
      <4>2. CASE b = x
        <5>1. seen'[x].last = t
          <6>1. CASE AllowNew(c)
            BY <1>0, <2>1, <6>1, TableTypes DEF AllowNew
          <6>2. CASE AllowKnown(c)
            <7> DEFINE r == Refill(Table(t)[x], t)
            <7>1. Table(t)[x] = seen[x] /\ seen[x] \in Bucket /\ seen[x].last <= t
              BY <1>0, <2>1, <6>2, TableTypes DEF AllowKnown, TypeOK, BehindClock, Known
            <7>2. r \in Bucket /\ r.last = t /\ Spend(r).last = t
              BY <2>1, <7>1, RefillIsLevel, BucketTypes
            <7>3. seen'[x] = IF Enough(r) THEN Spend(r) ELSE r
              BY <1>0, <2>1, <6>2, TableTypes DEF AllowKnown
            <7> HIDE DEF r
            <7> QED BY <7>2, <7>3
          <6> QED BY <1>2, <6>1, <6>2
        <5> QED BY <2>1, <4>2, <5>1, CostAssumption
      <4> QED BY <4>1, <4>2
    <3> QED BY <2>1, <3>4, <3>5, CostAssumption
  <2> QED BY <2>4, <2>5 DEF SweepBoundsTable
<1> QED BY <1>1, <1>2 DEF Next, Tick, ReadClock, vars

\* With one caller the table outgrows its limit only by addresses of the last
\* second: the sweep leaves no older bucket in it (allow, sweepLocked).
THEOREM TableIsBounded == Spec => []SweepBoundsTable
<1>1. Init => (OneCaller => TableInv)
  <2> SUFFICES ASSUME Init PROVE TableInv
    OBVIOUS
  <2>1. Known = {}
    BY DEF Init, Known
  <2>2. IsFiniteSet(Known) /\ SweepBoundsTable
    BY <2>1, FS_EmptySet DEF SweepBoundsTable
  <2> QED BY <2>2, InitRefinement DEF TableInv
<1>2. (OneCaller => TableInv) /\ [Next]_vars => (OneCaller => TableInv)'
  BY NextTable, CallersStay
<1>3. (OneCaller => TableInv) => SweepBoundsTable
  BY DEF TableInv, SweepBoundsTable
<1> QED BY <1>1, <1>2, <1>3, PTL DEF Spec
=============================================================================
