-------------------------- MODULE LockOrderProofs ---------------------------
(* Theorems about LockOrder, for any number of connections.                *)
EXTENDS LockOrder, FiniteSetTheorems, TLAPS

Kinds == {"note", "lock", "unlock", "lockW", "write", "read", "rlock", "runlock",
          "announce", "commit", "register", "close", "dispatch"}
Ops == [kind : Kinds, on : Clients \cup {None}]

\* What a goroutine may do while it holds clientSession.mu, clientSession.writeMu
\* and Server.mu for reading; how it gives up Server.mu for writing.
InLogin == {"read", "announce", "commit"}
InSend == {"note", "announce", "commit"}
InVisit == {"note"}
Commits == {"commit", "register", "close"}

\* From position n on, s comes to op and has only operations of these kinds before.
Until(s, n, op, kinds) ==
    \E j \in n..Len(s) : s[j] = op /\ \A k \in n..(j - 1) : s[k].kind \in kinds

\* What follows the operation at i gives up the lock it takes.
ReleasedAt(s, i) ==
    /\ s[i].kind = "lock" => Until(s, i + 1, Op("unlock", s[i].on), InLogin)
    /\ s[i].kind = "lockW" => Until(s, i + 1, Op("write", s[i].on), InSend)
    /\ s[i].kind = "rlock" => Until(s, i + 1, Op("runlock", None), InVisit)
    /\ s[i].kind = "announce" => i < Len(s) /\ s[i + 1].kind \in Commits

\* Every lock that s takes it gives up.
Released(s) == \A i \in 1..Len(s) : ReleasedAt(s, i)

----------------------------------------------------------------------------
(* Sequences of lock operations.                                           *)

\* What is left of a sequence once its first operation is done.
LEMMA TailOf ==
    ASSUME NEW S, NEW s \in Seq(S), s # <<>>
    PROVE  /\ Tail(s) \in Seq(S) /\ Len(s) \in Nat \ {0} /\ Len(Tail(s)) = Len(s) - 1
           /\ Head(s) = s[1] /\ Head(s) \in S
           /\ \A i \in 1..(Len(s) - 1) : Tail(s)[i] = s[i + 1]
  OBVIOUS

LEMMA SecondOf ==
    ASSUME NEW S, NEW s \in Seq(S), 1 < Len(s)
    PROVE  Tail(s) # <<>> /\ Head(Tail(s)) = s[1 + 1]
<1>1. s # <<>>
  OBVIOUS
<1> DEFINE t == Tail(s)
           n == Len(s)
<1>2. t \in Seq(S) /\ n \in Nat /\ Len(t) = n - 1 /\ \A i \in 1..(n - 1) : t[i] = s[i + 1]
  BY <1>1, TailOf
<1>3. n > 1
  OBVIOUS
<1> HIDE DEF t, n
<1>4. Len(t) # 0 /\ 1 \in 1..(n - 1)
  BY <1>2, <1>3
<1>5. t # <<>> /\ t[1] = s[1 + 1]
  BY <1>2, <1>4
<1>6. Head(t) = t[1]
  BY <1>2, <1>5, TailOf
<1> QED BY <1>5, <1>6 DEF t

LEMMA UntilShift ==
    ASSUME NEW S, NEW s \in Seq(S), s # <<>>, NEW n \in Nat \ {0}, NEW op, NEW kinds,
           Until(s, n + 1, op, kinds)
    PROVE  Until(Tail(s), n, op, kinds)
<1>1. PICK j \in (n + 1)..Len(s) :
         s[j] = op /\ \A k \in (n + 1)..(j - 1) : s[k].kind \in kinds
  BY DEF Until
<1>2. /\ j - 1 \in n..Len(Tail(s)) /\ Tail(s)[j - 1] = op
  BY <1>1, TailOf
<1>3. ASSUME NEW k \in n..(j - 1 - 1) PROVE Tail(s)[k].kind \in kinds
  <2>1. k + 1 \in (n + 1)..(j - 1) /\ Tail(s)[k] = s[k + 1]
    BY <1>1, <1>3, TailOf
  <2> QED BY <1>1, <2>1
<1> QED BY <1>2, <1>3 DEF Until

\* The first operation is the one looked for, or one of those before it.
LEMMA UntilHead ==
    ASSUME NEW S, NEW s \in Seq(S), NEW op, NEW kinds, Until(s, 1, op, kinds)
    PROVE  /\ s # <<>>
           /\ \/ Head(s) = op
              \/ Head(s).kind \in kinds /\ Until(Tail(s), 1, op, kinds)
<1>1. PICK j \in 1..Len(s) : s[j] = op /\ \A k \in 1..(j - 1) : s[k].kind \in kinds
  BY DEF Until
<1>2. s # <<>>
  BY <1>1
<1>3. Head(s) = s[1] /\ Len(s) \in Nat
  BY <1>2, TailOf
<1>4. CASE j = 1
  BY <1>1, <1>2, <1>3, <1>4
<1>5. CASE j # 1
  <2>1. j \in 2..Len(s) /\ 1 \in 1..(j - 1)
    BY <1>1, <1>3, <1>5
  <2>2. Head(s).kind \in kinds
    BY <1>1, <1>3, <2>1
  <2>3. Until(s, 1 + 1, op, kinds)
    <3>1. j \in (1 + 1)..Len(s) /\ \A k \in (1 + 1)..(j - 1) : k \in 1..(j - 1)
      BY <1>3, <2>1
    <3> QED BY <1>1, <3>1 DEF Until
  <2>4. Until(Tail(s), 1, op, kinds)
    BY <1>2, <2>3, UntilShift
  <2> QED BY <1>2, <2>2, <2>4
<1> QED BY <1>4, <1>5

LEMMA ReleasedTail ==
    ASSUME NEW s \in Seq(Ops), s # <<>>, Released(s)
    PROVE  /\ Released(Tail(s))
           /\ Head(s).kind = "lock" => Until(Tail(s), 1, Op("unlock", Head(s).on), InLogin)
           /\ Head(s).kind = "lockW" => Until(Tail(s), 1, Op("write", Head(s).on), InSend)
           /\ Head(s).kind = "rlock" => Until(Tail(s), 1, Op("runlock", None), InVisit)
           /\ Head(s).kind = "announce" => Tail(s) # <<>> /\ Head(Tail(s)).kind \in Commits
<1>1. /\ Tail(s) \in Seq(Ops) /\ Len(s) \in Nat \ {0} /\ Len(Tail(s)) = Len(s) - 1
      /\ Head(s) = s[1] /\ \A i \in 1..(Len(s) - 1) : Tail(s)[i] = s[i + 1]
  BY TailOf
<1>2. ASSUME NEW i \in 1..Len(Tail(s)) PROVE ReleasedAt(Tail(s), i)
  <2>1. /\ i \in Nat \ {0} /\ i + 1 \in 1..Len(s) /\ Tail(s)[i] = s[i + 1]
        /\ i + 1 \in Nat \ {0}
    BY <1>1, <1>2
  <2>2. ReleasedAt(s, i + 1)
    BY <2>1 DEF Released
  <2>3. \A op, kinds : Until(s, i + 1 + 1, op, kinds) => Until(Tail(s), i + 1, op, kinds)
    BY <2>1, UntilShift
  <2>4. i + 1 < Len(s) => i < Len(Tail(s)) /\ Tail(s)[i + 1] = s[i + 1 + 1]
    BY <1>1, <2>1
  <2> QED BY <2>1, <2>2, <2>3, <2>4 DEF ReleasedAt
<1>3. ReleasedAt(s, 1)
  BY <1>1 DEF Released
<1>4. \A op, kinds : Until(s, 1 + 1, op, kinds) => Until(Tail(s), 1, op, kinds)
  BY UntilShift
<1>5. 1 < Len(s) => Tail(s) # <<>> /\ Head(Tail(s)) = s[1 + 1]
  BY SecondOf
<1> QED BY <1>1, <1>2, <1>3, <1>4, <1>5 DEF Released, ReleasedAt

LEMMA ConcatOf ==
    ASSUME NEW S, NEW s \in Seq(S), NEW t \in Seq(S)
    PROVE  /\ s \o t \in Seq(S) /\ Len(s) \in Nat /\ Len(t) \in Nat
           /\ Len(s \o t) = Len(s) + Len(t)
           /\ \A i \in 1..Len(s) : (s \o t)[i] = s[i]
           /\ \A i \in 1..Len(t) : (s \o t)[i + Len(s)] = t[i]
  OBVIOUS

\* Sequences that give up their locks do so one after the other.
LEMMA ReleasedConcat ==
    ASSUME NEW s \in Seq(Ops), NEW t \in Seq(Ops), Released(s), Released(t)
    PROVE  s \o t \in Seq(Ops) /\ Released(s \o t)
<1> DEFINE u == s \o t
<1>1. /\ u \in Seq(Ops) /\ Len(s) \in Nat /\ Len(t) \in Nat
      /\ Len(u) = Len(s) + Len(t)
      /\ \A i \in 1..Len(s) : u[i] = s[i]
      /\ \A i \in 1..Len(t) : u[i + Len(s)] = t[i]
  BY ConcatOf
<1> HIDE DEF u
<1>2. ASSUME NEW n \in Nat \ {0}, NEW op, NEW kinds, Until(s, n, op, kinds)
      PROVE  Until(u, n, op, kinds)
  <2>1. PICK j \in n..Len(s) : s[j] = op /\ \A k \in n..(j - 1) : s[k].kind \in kinds
    BY <1>2 DEF Until
  <2>2. j \in n..Len(u) /\ u[j] = op
    BY <1>1, <2>1
  <2>3. \A k \in n..(j - 1) : u[k] = s[k]
    BY <1>1, <2>1
  <2> QED BY <2>1, <2>2, <2>3 DEF Until
<1>3. ASSUME NEW n \in Nat \ {0}, NEW op, NEW kinds, Until(t, n, op, kinds)
      PROVE  Until(u, n + Len(s), op, kinds)
  <2>1. PICK j \in n..Len(t) : t[j] = op /\ \A k \in n..(j - 1) : t[k].kind \in kinds
    BY <1>3 DEF Until
  <2>2. j + Len(s) \in (n + Len(s))..Len(u) /\ u[j + Len(s)] = op
    BY <1>1, <2>1
  <2>3. ASSUME NEW k \in (n + Len(s))..(j + Len(s) - 1) PROVE u[k].kind \in kinds
    <3>1. k - Len(s) \in n..(j - 1) /\ k - Len(s) \in 1..Len(t) /\ k = (k - Len(s)) + Len(s)
      BY <1>1, <2>1, <2>3
    <3>2. u[k] = t[k - Len(s)]
      BY <1>1, <3>1
    <3> QED BY <2>1, <3>1, <3>2
  <2> QED BY <2>2, <2>3 DEF Until
<1>4. ASSUME NEW i \in 1..Len(s) PROVE ReleasedAt(u, i)
  <2>1. ReleasedAt(s, i) /\ u[i] = s[i] /\ i + 1 \in Nat \ {0}
    BY <1>1, <1>4 DEF Released
  <2>2. i < Len(s) => i < Len(u) /\ u[i + 1] = s[i + 1]
    BY <1>1, <1>4
  <2> QED BY <1>2, <2>1, <2>2 DEF ReleasedAt
<1>5. ASSUME NEW i \in 1..Len(t) PROVE ReleasedAt(u, i + Len(s))
  <2>1. ReleasedAt(t, i) /\ u[i + Len(s)] = t[i] /\ i + 1 \in Nat \ {0}
    BY <1>1, <1>5 DEF Released
  <2>2. i < Len(t) => i + Len(s) < Len(u) /\ u[i + Len(s) + 1] = t[i + 1]
    <3>1. ASSUME i < Len(t) PROVE i + Len(s) < Len(u) /\ u[i + 1 + Len(s)] = t[i + 1]
      BY <1>1, <1>5, <3>1
    <3>2. i + Len(s) + 1 = i + 1 + Len(s)
      BY <1>1, <1>5
    <3> QED BY <3>1, <3>2
  <2>3. \A op, kinds : Until(t, i + 1, op, kinds) => Until(u, i + Len(s) + 1, op, kinds)
    <3>1. i + 1 + Len(s) = i + Len(s) + 1
      BY <1>1, <1>5
    <3>2. \A op, kinds : Until(t, i + 1, op, kinds) => Until(u, i + 1 + Len(s), op, kinds)
      BY <1>3, <2>1
    <3> QED BY <3>1, <3>2
  <2> QED BY <2>1, <2>2, <2>3 DEF ReleasedAt
<1>6. ASSUME NEW i \in 1..Len(u) PROVE ReleasedAt(u, i)
  <2>1. CASE i <= Len(s)
    BY <1>1, <1>4, <1>6, <2>1
  <2>2. CASE ~(i <= Len(s))
    <3>1. i - Len(s) \in 1..Len(t) /\ (i - Len(s)) + Len(s) = i
      BY <1>1, <1>6, <2>2
    <3>2. ReleasedAt(u, (i - Len(s)) + Len(s))
      BY <1>5, <3>1
    <3> QED BY <3>1, <3>2
  <2> QED BY <2>1, <2>2
<1> QED BY <1>1, <1>6 DEF Released, u

----------------------------------------------------------------------------
(* The handlers.                                                           *)

\* The operations of p's handlers, apart from a login's lock and the dispatch of a
\* frame: p registers and closes only itself, and enters the mutex of another
\* connection only if that has once been registered.
Plain(p) ==
    {o \in Ops :
        /\ o.kind \notin {"dispatch", "lock"}
        /\ o.kind = "note" => o.on \in Clients /\ (o.on = p \/ status[o.on] # "fresh")
        /\ o.kind \in {"lockW", "write", "unlock"} => o.on \in Clients
        /\ o.kind \in {"register", "close"} => o.on = p /\ p \in Clients}

\* The operations of handleConn's loop.
FrameOps(p) ==
    {o \in Ops : /\ o.kind \in {"note", "announce", "commit", "dispatch"}
                 /\ o.kind \in {"note", "dispatch"} => o.on = p /\ p \in Clients}

\* A handler, a frame and a login, from their start.
PlainScript(p, s) == s \in Seq(Plain(p)) /\ Released(s)
FrameScript(p, s) == s \in Seq(FrameOps(p)) /\ Released(s)
LoginScript(p, s) ==
    /\ s \in Seq(Ops) /\ Released(s)
    /\ s # <<>> /\ s[1] = Op("lock", p) /\ p \in Clients
    /\ \A i \in 2..Len(s) : s[i] \in Plain(p)

LEMMA OpsOfScripts ==
    ASSUME NEW p PROVE Seq(Plain(p)) \subseteq Seq(Ops) /\ Seq(FrameOps(p)) \subseteq Seq(Ops)
<1>1. Plain(p) \subseteq Ops /\ FrameOps(p) \subseteq Ops
  BY DEF Plain, FrameOps
<1> QED BY <1>1

LEMMA PlainConcat ==
    ASSUME NEW p, NEW s, NEW t, PlainScript(p, s), PlainScript(p, t)
    PROVE  PlainScript(p, s \o t)
<1>1. /\ s \in Seq(Plain(p)) /\ t \in Seq(Plain(p)) /\ s \in Seq(Ops) /\ t \in Seq(Ops)
      /\ Released(s) /\ Released(t)
  BY OpsOfScripts DEF PlainScript
<1>2. s \o t \in Seq(Plain(p)) /\ Released(s \o t)
  BY <1>1, ConcatOf, ReleasedConcat
<1> QED BY <1>2 DEF PlainScript

LEMMA LoginConcat ==
    ASSUME NEW p, NEW s, NEW t, LoginScript(p, s), PlainScript(p, t)
    PROVE  LoginScript(p, s \o t)
<1> DEFINE u == s \o t
<1>1. /\ s \in Seq(Ops) /\ t \in Seq(Ops) /\ Released(s) /\ Released(t) /\ s # <<>>
      /\ t \in Seq(Plain(p))
  BY OpsOfScripts DEF PlainScript, LoginScript
<1>2. u \in Seq(Ops) /\ Released(u)
  BY <1>1, ReleasedConcat
<1>3. /\ Len(s) \in Nat \ {0} /\ Len(t) \in Nat /\ Len(u) = Len(s) + Len(t)
      /\ \A i \in 1..Len(s) : u[i] = s[i]
      /\ \A i \in 1..Len(t) : u[i + Len(s)] = t[i]
  BY <1>1, ConcatOf, TailOf
<1> HIDE DEF u
<1>4. u # <<>> /\ u[1] = s[1]
  BY <1>2, <1>3
<1>5. ASSUME NEW i \in 2..Len(u) PROVE u[i] \in Plain(p)
  <2>1. CASE i <= Len(s)
    BY <1>3, <2>1 DEF LoginScript
  <2>2. CASE ~(i <= Len(s))
    <3>1. i - Len(s) \in 1..Len(t) /\ (i - Len(s)) + Len(s) = i
      BY <1>3, <1>5, <2>2
    <3>2. u[(i - Len(s)) + Len(s)] = t[i - Len(s)] /\ t[i - Len(s)] \in Plain(p)
      BY <1>1, <1>3, <3>1
    <3> QED BY <3>1, <3>2
  <2> QED BY <2>1, <2>2
<1> QED BY <1>2, <1>4, <1>5 DEF LoginScript, u

\* The pieces the handlers are made of.
LEMMA Pieces ==
    ASSUME NEW p
    PROVE  /\ PlainScript(p, <<>>) /\ PlainScript(p, Read) /\ PlainScript(p, Bump)
           /\ \A c \in Clients : c = p \/ status[c] # "fresh" =>
                 PlainScript(p, Note(c)) /\ PlainScript(p, Send(c))
           /\ p \in Clients =>
                 /\ PlainScript(p, <<Op("announce", None), Op("register", p)>>)
                 /\ PlainScript(p, <<Op("announce", None), Op("close", p)>>)
<1> USE DEF PlainScript, Plain, Released, ReleasedAt, Op, Ops, Kinds, Commits
<1>1. PlainScript(p, <<>>)
  OBVIOUS
<1>2. PlainScript(p, Read)
  BY DEF Read
<1>3. PlainScript(p, Bump)
  BY DEF Bump
<1>4. ASSUME NEW c \in Clients, c = p \/ status[c] # "fresh" PROVE PlainScript(p, Note(c))
  BY <1>4 DEF Note
<1>5. ASSUME NEW c \in Clients, c = p \/ status[c] # "fresh" PROVE PlainScript(p, Send(c))
  <2> DEFINE s == Send(c)
  <2>1. /\ Len(s) = 5 /\ s[1] = Op("lockW", c) /\ s[2] = Op("note", c)
        /\ s[3] = Op("announce", None) /\ s[4] = Op("commit", None) /\ s[5] = Op("write", c)
    BY DEF Send, Note, Bump
  <2>2. s \in Seq(Plain(p))
    BY <1>5 DEF Send, Note, Bump
  <2> HIDE DEF s
  <2>3. Until(s, 1 + 1, Op("write", c), InSend)
    <3>1. 5 \in (1 + 1)..Len(s) /\ \A k \in (1 + 1)..(5 - 1) : k \in {2, 3, 4}
      BY <2>1
    <3>2. \A k \in {2, 3, 4} : s[k].kind \in InSend
      BY <2>1 DEF InSend
    <3> QED BY <2>1, <3>1, <3>2 DEF Until
  <2>4. ASSUME NEW i \in 1..Len(s) PROVE ReleasedAt(s, i)
    <3>1. i \in {1, 2, 3, 4, 5}
      BY <2>1, <2>4
    <3> QED BY <2>1, <2>3, <3>1
  <2> QED BY <2>2, <2>4 DEF s
<1>6. ASSUME p \in Clients PROVE PlainScript(p, <<Op("announce", None), Op("register", p)>>)
  BY <1>6
<1>7. ASSUME p \in Clients PROVE PlainScript(p, <<Op("announce", None), Op("close", p)>>)
  BY <1>7
<1> QED BY <1>1, <1>2, <1>3, <1>4, <1>5, <1>6, <1>7

\* A walk through mutexes of registered connections.
LEMMA VisitsNotes ==
    ASSUME NEW visits \in Visits
    PROVE  /\ visits \in Seq(Ops)
           /\ \A i \in 1..Len(visits) :
                 visits[i].kind = "note" /\ visits[i].on \in Registered
<1>1. PICK q \in SetToAllKPermutations(Registered) :
         visits = [i \in DOMAIN q |-> Op("note", q[i])]
  BY DEF Visits
<1>2. PICK S \in SUBSET Registered : q \in [1..Cardinality(S) -> S]
  BY <1>1 DEF SetToAllKPermutations, SetToSeqs
<1>3. S \subseteq Clients
  BY <1>2 DEF Registered
<1>4. Cardinality(S) \in Nat
  BY <1>3, ClientsAssumption, FS_Subset, FS_CardinalityType
<1>5. \A i \in 1..Cardinality(S) : q[i] \in Registered /\ Op("note", q[i]) \in Ops
  BY <1>2, <1>3 DEF Op, Ops, Kinds
<1>6. visits = [i \in 1..Cardinality(S) |-> Op("note", q[i])]
  BY <1>1, <1>2
<1>7. visits \in Seq(Ops) /\ Len(visits) = Cardinality(S)
  BY <1>4, <1>5, <1>6
<1> QED BY <1>5, <1>6, <1>7 DEF Op

\* The walk of the admin API, and that of sourcesAll under Server.mu.
LEMMA VisitsPlain ==
    ASSUME NEW p, NEW visits \in Visits
    PROVE  /\ PlainScript(p, visits)
           /\ PlainScript(p, <<Op("rlock", None)>> \o visits \o <<Op("runlock", None)>>)
<1>1. /\ visits \in Seq(Ops)
      /\ \A i \in 1..Len(visits) : visits[i].kind = "note" /\ visits[i].on \in Registered
  BY VisitsNotes
<1>2. \A i \in 1..Len(visits) : visits[i] \in Plain(p)
  BY <1>1 DEF Plain, Registered
<1>3. visits \in Seq(Plain(p))
  BY <1>1, <1>2
<1>4. Released(visits)
  BY <1>1 DEF Released, ReleasedAt
<1> DEFINE a == <<Op("rlock", None)>>
           b == a \o visits
           e == <<Op("runlock", None)>>
           s == b \o e
           n == Len(visits)
<1>5. /\ a \in Seq(Plain(p)) /\ Len(a) = 1 /\ a[1] = Op("rlock", None)
      /\ e \in Seq(Plain(p)) /\ Len(e) = 1 /\ e[1] = Op("runlock", None)
  BY DEF Plain, Op, Ops, Kinds
<1> HIDE DEF a, e
<1>6. /\ b \in Seq(Plain(p)) /\ n \in Nat /\ Len(b) = 1 + n /\ b[1] = Op("rlock", None)
      /\ \A i \in 1..n : b[i + 1] = visits[i]
  <2>1. /\ b \in Seq(Plain(p)) /\ n \in Nat /\ Len(b) = Len(a) + n
        /\ \A i \in 1..Len(a) : b[i] = a[i]
        /\ \A i \in 1..n : b[i + Len(a)] = visits[i]
    <3> DEFINE P == Plain(p)
    <3>1. a \in Seq(P) /\ visits \in Seq(P)
      BY <1>3, <1>5
    <3> HIDE DEF P
    <3>2. /\ a \o visits \in Seq(P) /\ Len(visits) \in Nat
          /\ Len(a \o visits) = Len(a) + Len(visits)
          /\ \A i \in 1..Len(a) : (a \o visits)[i] = a[i]
          /\ \A i \in 1..Len(visits) : (a \o visits)[i + Len(a)] = visits[i]
      BY ONLY <3>1, ConcatOf
    <3> QED BY <3>2, Zenon DEF P
  <2> HIDE DEF b, n
  <2> QED BY <1>5, <2>1
<1> HIDE DEF b
<1>7. /\ s \in Seq(Plain(p)) /\ Len(s) = n + 2 /\ s[1] = Op("rlock", None)
      /\ \A i \in 1..n : s[i + 1] = visits[i]
      /\ s[n + 2] = Op("runlock", None)
  <2>1. /\ s \in Seq(Plain(p)) /\ Len(s) = Len(b) + 1
        /\ \A i \in 1..Len(b) : s[i] = b[i]
        /\ \A i \in 1..1 : s[i + Len(b)] = e[i]
    BY <1>5, <1>6, ConcatOf
  <2> HIDE DEF s, n
  <2>2. Len(s) = n + 2 /\ s[1 + Len(b)] = e[1] /\ 1 + Len(b) = n + 2
    BY <1>6, <2>1
  <2> QED BY <1>5, <1>6, <2>1, <2>2
<1> HIDE DEF s, n
<1>8. ASSUME NEW k \in 2..(n + 1) PROVE s[k].kind = "note"
  <2>1. k - 1 \in 1..n /\ (k - 1) + 1 = k
    BY <1>6, <1>8
  <2>2. s[(k - 1) + 1] = visits[k - 1]
    BY <1>7, <2>1
  <2> QED BY <1>1, <2>1, <2>2 DEF n
<1>9. Until(s, 1 + 1, Op("runlock", None), InVisit)
  <2> DEFINE m == n + 2
  <2>1. m \in (1 + 1)..Len(s) /\ s[m] = Op("runlock", None)
    BY <1>6, <1>7
  <2>2. \A k \in (1 + 1)..(m - 1) : k \in 2..(n + 1)
    BY <1>6
  <2>3. \A k \in (1 + 1)..(m - 1) : s[k].kind \in InVisit
    BY <1>8, <2>2 DEF InVisit
  <2> HIDE DEF m
  <2> QED BY <2>1, <2>3 DEF Until
<1>10. ASSUME NEW i \in 1..Len(s) PROVE ReleasedAt(s, i)
  <2>1. i = 1 \/ i \in 2..(n + 1) \/ i = n + 2
    BY <1>6, <1>7, <1>10
  <2>2. CASE i = 1
    BY <1>7, <1>9, <2>2 DEF ReleasedAt, Op
  <2>3. CASE i \in 2..(n + 1)
    BY <1>8, <2>3 DEF ReleasedAt
  <2>4. CASE i = n + 2
    BY <1>7, <2>4 DEF ReleasedAt, Op
  <2> QED BY <2>1, <2>2, <2>3, <2>4
<1>11. PlainScript(p, visits)
  BY <1>3, <1>4 DEF PlainScript
<1>12. PlainScript(p, s)
  BY <1>7, <1>10 DEF PlainScript, Released
<1> QED BY <1>11, <1>12 DEF s, b, a, e

\* A frame up to its dispatch.
LEMMA FrameShape == ASSUME NEW p \in Clients PROVE FrameScript(p, Frame(p))
<1> DEFINE s == Frame(p)
<1>1. /\ Len(s) = 4 /\ s[1] = Op("note", p) /\ s[2] = Op("announce", None)
      /\ s[3] = Op("commit", None) /\ s[4] = Op("dispatch", p)
  BY DEF Frame, Note, Bump
<1>2. s \in Seq(FrameOps(p))
  BY DEF Frame, Note, Bump, FrameOps, Op, Ops, Kinds
<1> HIDE DEF s
<1>3. ASSUME NEW i \in 1..Len(s) PROVE ReleasedAt(s, i)
  <2>1. i \in {1, 2, 3, 4}
    BY <1>1, <1>3
  <2> QED BY <1>1, <2>1 DEF ReleasedAt, Op, Commits
<1> QED BY <1>2, <1>3 DEF s, FrameScript, Released

\* The handlers that dispatch starts, apart from a login.
LEMMA HandlersPlain ==
    ASSUME NEW p \in Clients,
           NEW h \in UNION {Offer(p), Search(p), {Note(p) \o Send(p), Note(p)},
                            GetSources(p), Callback(p), ServerList(p), {<<>>}}
    PROVE  PlainScript(p, h)
<1>1. /\ PlainScript(p, <<>>) /\ PlainScript(p, Read) /\ PlainScript(p, Bump)
      /\ PlainScript(p, Note(p)) /\ PlainScript(p, Send(p))
  BY Pieces
<1>2. \A s, t : PlainScript(p, s) /\ PlainScript(p, t) => PlainScript(p, s \o t)
  BY PlainConcat
<1>3. CASE h \in Offer(p)
  BY <1>1, <1>2, <1>3 DEF Offer
<1>4. CASE h \in Search(p)
  BY <1>1, <1>2, <1>4 DEF Search
<1>5. CASE h \in {Note(p) \o Send(p), Note(p), <<>>}
  BY <1>1, <1>2, <1>5
<1>6. CASE h \in GetSources(p)
  <2>1. PICK visits \in Visits :
           h = <<Op("rlock", None)>> \o visits \o <<Op("runlock", None)>>
               \o Note(p) \o Bump \o Send(p)
    BY <1>6 DEF GetSources
  <2>2. PlainScript(p, <<Op("rlock", None)>> \o visits \o <<Op("runlock", None)>>)
    BY VisitsPlain
  <2> QED BY <1>1, <1>2, <2>1, <2>2
<1>7. CASE h \in Callback(p)
  <2>1. CASE h \in {Bump \o Send(p), Note(p) \o Bump \o Read \o Send(p)}
    BY <1>1, <1>2, <2>1
  <2>2. ASSUME NEW d \in Registered \ {p}, NEW failed \in {<<>>, Send(p)},
               h = Note(p) \o Bump \o Read \o Note(p) \o Send(d) \o failed
        PROVE  PlainScript(p, h)
    <3>1. PlainScript(p, Send(d)) /\ PlainScript(p, failed)
      BY <1>1, <2>2, Pieces DEF Registered
    <3> QED BY <1>1, <1>2, <2>2, <3>1
  <2> QED BY <1>7, <2>1, <2>2 DEF Callback
<1>8. CASE h \in ServerList(p)
  BY <1>1, <1>2, <1>8 DEF ServerList
<1> QED BY <1>3, <1>4, <1>5, <1>6, <1>7, <1>8

\* unregisterClient.
LEMMA LeavePlain ==
    ASSUME NEW p \in Clients, NEW h \in Leave(p) PROVE PlainScript(p, h)
<1>1. /\ PlainScript(p, Read) /\ PlainScript(p, Bump) /\ PlainScript(p, Note(p))
      /\ PlainScript(p, <<Op("announce", None), Op("close", p)>>)
  BY Pieces
<1>2. \A s, t : PlainScript(p, s) /\ PlainScript(p, t) => PlainScript(p, s \o t)
  BY PlainConcat
<1> QED BY <1>1, <1>2 DEF Leave

\* The requests of the admin API.
LEMMA SnapshotPlain == ASSUME NEW h \in Snapshot PROVE PlainScript(Admin, h)
<1>1. PlainScript(Admin, Read) /\ PlainScript(Admin, Bump)
  BY Pieces
<1>2. \A s, t : PlainScript(Admin, s) /\ PlainScript(Admin, t) => PlainScript(Admin, s \o t)
  BY PlainConcat
<1>3. \A visits \in Visits : PlainScript(Admin, visits)
  BY VisitsPlain
<1> QED BY <1>1, <1>2, <1>3 DEF Snapshot

\* A login holds clientSession.mu over allocateClientID.
LEMMA LoginShape ==
    ASSUME NEW p \in Clients, NEW h \in Login(p) PROVE LoginScript(p, h)
<1>1. PICK fallback \in {<<>>, Bump} :
         h = <<Op("lock", p)>> \o Read \o fallback \o <<Op("unlock", p)>>
             \o Note(p) \o <<Op("announce", None), Op("register", p)>>
             \o Read \o Send(p)
  BY DEF Login
<1> DEFINE s == <<Op("lock", p)>> \o Read \o fallback \o <<Op("unlock", p)>>
<1> USE DEF Op, Ops, Kinds
<1>2. LoginScript(p, s)
  <2>1. CASE fallback = <<>>
    <3>1. /\ s \in Seq(Ops) /\ s # <<>> /\ Len(s) = 3 /\ s[1] = Op("lock", p)
          /\ s[2] = Op("read", None) /\ s[3] = Op("unlock", p)
      BY <2>1 DEF Read
    <3> HIDE DEF s
    <3>2. Until(s, 1 + 1, Op("unlock", p), InLogin)
      <4>1. 3 \in (1 + 1)..Len(s) /\ \A k \in (1 + 1)..(3 - 1) : k = 2
        BY <3>1
      <4> QED BY <3>1, <4>1 DEF Until, InLogin
    <3>3. \A i \in 1..Len(s) : i \in {1, 2, 3}
      BY <3>1
    <3>4. Released(s)
      BY <3>1, <3>2, <3>3 DEF Released, ReleasedAt
    <3>5. \A i \in 2..Len(s) : s[i] \in Plain(p)
      BY <3>1, <3>3 DEF Plain
    <3> QED BY <3>1, <3>4, <3>5 DEF LoginScript
  <2>2. CASE fallback = Bump
    <3>1. /\ s \in Seq(Ops) /\ s # <<>> /\ Len(s) = 5 /\ s[1] = Op("lock", p)
          /\ s[2] = Op("read", None) /\ s[3] = Op("announce", None)
          /\ s[4] = Op("commit", None) /\ s[5] = Op("unlock", p)
      BY <2>2 DEF Read, Bump
    <3> HIDE DEF s
    <3>2. Until(s, 1 + 1, Op("unlock", p), InLogin)
      <4>1. 5 \in (1 + 1)..Len(s) /\ \A k \in (1 + 1)..(5 - 1) : k \in {2, 3, 4}
        BY <3>1
      <4> QED BY <3>1, <4>1 DEF Until, InLogin
    <3>3. \A i \in 1..Len(s) : i \in {1, 2, 3, 4, 5}
      BY <3>1
    <3>4. Released(s)
      BY <3>1, <3>2, <3>3 DEF Released, ReleasedAt, Commits
    <3>5. \A i \in 2..Len(s) : s[i] \in Plain(p)
      BY <3>1, <3>3 DEF Plain
    <3> QED BY <3>1, <3>4, <3>5 DEF LoginScript
  <2> QED BY <2>1, <2>2
<1> HIDE DEF s
<1>3. /\ PlainScript(p, Note(p)) /\ PlainScript(p, Read) /\ PlainScript(p, Send(p))
      /\ PlainScript(p, <<Op("announce", None), Op("register", p)>>)
  BY Pieces
<1> HIDE DEF Op
<1>4. \A u, t : LoginScript(p, u) /\ PlainScript(p, t) => LoginScript(p, u \o t)
  BY LoginConcat
<1>5. h = s \o Note(p) \o <<Op("announce", None), Op("register", p)>> \o Read \o Send(p)
  BY <1>1 DEF s
<1> QED BY <1>2, <1>3, <1>4, <1>5

----------------------------------------------------------------------------
(* Every lock is given up, with second logins as well.                     *)

OpsOf(p) == {o \in Ops : o.kind = "dispatch" => p \in Clients}

Types ==
    /\ script \in [Procs -> Seq(Ops)]
    /\ \A p \in Procs : script[p] \in Seq(OpsOf(p))
    /\ mu \in [Clients -> Procs \cup {None}]
    /\ writeMu \in [Clients -> Procs \cup {None}]
    /\ readers \subseteq Procs
    /\ writer \in Procs \cup {None}
    /\ status \in [Clients -> {"fresh", "registered", "over"}]

\* Whoever holds a lock comes to its release, and only does what may be done under
\* that lock before.
MuHeld == \A c \in Clients : mu[c] # None => Until(script[mu[c]], 1, Op("unlock", c), InLogin)
WriteMuHeld ==
    \A c \in Clients : writeMu[c] # None => Until(script[writeMu[c]], 1, Op("write", c), InSend)
ReadersHeld == \A p \in readers : Until(script[p], 1, Op("runlock", None), InVisit)
WriterHeld ==
    writer # None => script[writer] # <<>> /\ Head(script[writer]).kind \in Commits

ReleaseInv ==
    /\ Types
    /\ \A p \in Procs : Released(script[p])
    /\ MuHeld /\ WriteMuHeld /\ ReadersHeld /\ WriterHeld

\* What is next for a goroutine that holds a lock.
LEMMA HolderHead ==
    ASSUME ReleaseInv, NEW p \in Procs
    PROVE  /\ \A c \in Clients : mu[c] = p =>
                 /\ script[p] # <<>>
                 /\ Head(script[p]) = Op("unlock", c) \/ Head(script[p]).kind \in InLogin
           /\ \A c \in Clients : writeMu[c] = p =>
                 /\ script[p] # <<>>
                 /\ Head(script[p]) = Op("write", c) \/ Head(script[p]).kind \in InSend
           /\ p \in readers =>
                 /\ script[p] # <<>>
                 /\ Head(script[p]) = Op("runlock", None) \/ Head(script[p]).kind \in InVisit
           /\ writer = p => script[p] # <<>> /\ Head(script[p]).kind \in Commits
<1>1. script[p] \in Seq(Ops) /\ p # None
  BY NoneAssumption DEF ReleaseInv, Types, Procs
<1>2. \A c \in Clients : mu[c] = p => Until(script[p], 1, Op("unlock", c), InLogin)
  BY <1>1 DEF ReleaseInv, MuHeld
<1>3. \A c \in Clients : writeMu[c] = p => Until(script[p], 1, Op("write", c), InSend)
  BY <1>1 DEF ReleaseInv, WriteMuHeld
<1>4. p \in readers => Until(script[p], 1, Op("runlock", None), InVisit)
  BY DEF ReleaseInv, ReadersHeld
<1>5. writer = p => script[p] # <<>> /\ Head(script[p]).kind \in Commits
  BY <1>1 DEF ReleaseInv, WriterHeld
<1>6. \A op, kinds : Until(script[p], 1, op, kinds) =>
         script[p] # <<>> /\ (Head(script[p]) = op \/ Head(script[p]).kind \in kinds)
  BY <1>1, UntilHead
<1> QED BY <1>2, <1>3, <1>4, <1>5, <1>6

\* A goroutine that holds nothing starts on a new sequence.
LEMMA NewScript ==
    ASSUME ReleaseInv, NEW p \in Procs,
           script[p] = <<>> \/ Head(script[p]).kind = "dispatch",
           NEW h \in Seq(OpsOf(p)), Released(h),
           script' = [script EXCEPT ![p] = h],
           UNCHANGED <<mu, writeMu, readers, writer, status>>
    PROVE  ReleaseInv'
<1>1. /\ \A c \in Clients : mu[c] # p /\ writeMu[c] # p
      /\ p \notin readers /\ writer # p
  <2>1. \A c : /\ Op("unlock", c).kind # "dispatch" /\ Op("write", c).kind # "dispatch"
               /\ Op("runlock", c).kind # "dispatch"
    BY DEF Op
  <2>2. "dispatch" \notin InLogin \cup InSend \cup InVisit \cup Commits
    BY DEF InLogin, InSend, InVisit, Commits
  <2> QED BY <2>1, <2>2, HolderHead
<1>2. script'[p] = h /\ \A q \in Procs \ {p} : script'[q] = script[q]
  BY DEF ReleaseInv, Types
<1>3. h \in Seq(Ops)
  BY DEF OpsOf
<1>4. Types'
  BY <1>2, <1>3 DEF ReleaseInv, Types, OpsOf
<1>5. \A q \in Procs : Released(script'[q])
  BY <1>2 DEF ReleaseInv
<1>6. MuHeld' /\ WriteMuHeld'
  BY <1>1, <1>2 DEF ReleaseInv, Types, MuHeld, WriteMuHeld
<1>7. ReadersHeld' /\ WriterHeld'
  BY <1>1, <1>2 DEF ReleaseInv, Types, ReadersHeld, WriterHeld
<1> QED BY <1>4, <1>5, <1>6, <1>7 DEF ReleaseInv

\* What a goroutine's step of its sequence leaves of what it and others hold.
LEMMA OneStep ==
    ASSUME ReleaseInv, NEW p \in Procs, script[p] # <<>>,
           script' = [script EXCEPT ![p] = Tail(@)]
    PROVE  LET o == Head(script[p]) IN
           /\ o \in Ops
           /\ script' \in [Procs -> Seq(Ops)]
           /\ \A q \in Procs : script'[q] \in Seq(OpsOf(q)) /\ Released(script'[q])
           /\ \A c \in Clients : mu[c] # None =>
                 \/ mu[c] = p /\ o = Op("unlock", c)
                 \/ Until(script'[mu[c]], 1, Op("unlock", c), InLogin)
           /\ \A c \in Clients : writeMu[c] # None =>
                 \/ writeMu[c] = p /\ o = Op("write", c)
                 \/ Until(script'[writeMu[c]], 1, Op("write", c), InSend)
           /\ \A q \in readers :
                 \/ q = p /\ o = Op("runlock", None)
                 \/ Until(script'[q], 1, Op("runlock", None), InVisit)
           /\ writer # None =>
                 \/ writer = p /\ o.kind \in Commits
                 \/ script'[writer] # <<>> /\ Head(script'[writer]).kind \in Commits
           /\ o.kind = "lock" => Until(script'[p], 1, Op("unlock", o.on), InLogin)
           /\ o.kind = "lockW" => Until(script'[p], 1, Op("write", o.on), InSend)
           /\ o.kind = "rlock" => Until(script'[p], 1, Op("runlock", None), InVisit)
           /\ o.kind = "announce" =>
                 script'[p] # <<>> /\ Head(script'[p]).kind \in Commits
<1> DEFINE o == Head(script[p])
<1>1. /\ script \in [Procs -> Seq(Ops)] /\ script[p] \in Seq(Ops) /\ script[p] \in Seq(OpsOf(p))
      /\ \A q \in Procs : script[q] \in Seq(OpsOf(q)) /\ Released(script[q])
      /\ Released(script[p]) /\ p # None
  BY NoneAssumption DEF ReleaseInv, Types, Procs
<1>2. script'[p] = Tail(script[p]) /\ \A q \in Procs \ {p} : script'[q] = script[q]
  BY <1>1
<1>3. o \in Ops /\ Tail(script[p]) \in Seq(Ops) /\ Tail(script[p]) \in Seq(OpsOf(p))
  BY <1>1, TailOf
<1>4. /\ Released(Tail(script[p]))
      /\ o.kind = "lock" => Until(Tail(script[p]), 1, Op("unlock", o.on), InLogin)
      /\ o.kind = "lockW" => Until(Tail(script[p]), 1, Op("write", o.on), InSend)
      /\ o.kind = "rlock" => Until(Tail(script[p]), 1, Op("runlock", None), InVisit)
      /\ o.kind = "announce" =>
            Tail(script[p]) # <<>> /\ Head(Tail(script[p])).kind \in Commits
  BY <1>1, ReleasedTail
<1>5. \A op, kinds : Until(script[p], 1, op, kinds) =>
         o = op \/ Until(script'[p], 1, op, kinds)
  BY <1>1, <1>2, UntilHead
<1>6. script' \in [Procs -> Seq(Ops)]
  BY <1>1, <1>3
<1>7. \A q \in Procs : script'[q] \in Seq(OpsOf(q)) /\ Released(script'[q])
  BY <1>1, <1>2, <1>3, <1>4
<1> HIDE DEF o
<1>8. \A c \in Clients : mu[c] # None =>
         \/ mu[c] = p /\ o = Op("unlock", c)
         \/ Until(script'[mu[c]], 1, Op("unlock", c), InLogin)
  BY <1>2, <1>5 DEF ReleaseInv, Types, MuHeld
<1>9. \A c \in Clients : writeMu[c] # None =>
         \/ writeMu[c] = p /\ o = Op("write", c)
         \/ Until(script'[writeMu[c]], 1, Op("write", c), InSend)
  BY <1>2, <1>5 DEF ReleaseInv, Types, WriteMuHeld
<1>10. \A q \in readers :
          \/ q = p /\ o = Op("runlock", None)
          \/ Until(script'[q], 1, Op("runlock", None), InVisit)
  BY <1>2, <1>5 DEF ReleaseInv, Types, ReadersHeld
<1>11. writer # None =>
          \/ writer = p /\ o.kind \in Commits
          \/ script'[writer] # <<>> /\ Head(script'[writer]).kind \in Commits
  BY <1>2 DEF ReleaseInv, Types, WriterHeld, o
<1> QED BY <1>2, <1>3, <1>4, <1>6, <1>7, <1>8, <1>9, <1>10, <1>11 DEF o

LEMMA ScriptsTyped ==
    ASSUME NEW p, NEW h, PlainScript(p, h) \/ FrameScript(p, h) \/ LoginScript(p, h)
    PROVE  h \in Seq(OpsOf(p)) /\ Released(h)
<1>1. Plain(p) \subseteq OpsOf(p) /\ FrameOps(p) \subseteq OpsOf(p)
  BY DEF Plain, FrameOps, OpsOf
<1>2. CASE PlainScript(p, h) \/ FrameScript(p, h)
  BY <1>1, <1>2 DEF PlainScript, FrameScript
<1>3. CASE LoginScript(p, h)
  <2>1. OpsOf(p) = Ops
    BY <1>3 DEF LoginScript, OpsOf
  <2> QED BY <1>3, <2>1 DEF LoginScript
<1> QED BY <1>2, <1>3

\* What dispatch starts.
LEMMA DispatchShape ==
    ASSUME ReleaseInv, NEW p \in Procs, Dispatch(p)
    PROVE  /\ p \in Clients /\ script[p] # <<>> /\ Head(script[p]).kind = "dispatch"
           /\ UNCHANGED <<mu, writeMu, readers, writer, status>>
           /\ \E h : /\ script' = [script EXCEPT ![p] = h]
                     /\ \/ PlainScript(p, h)
                        \/ LoginScript(p, h) /\ (Relogin \/ p \notin Registered)
<1>1. script[p] # <<>> /\ Head(script[p]).kind = "dispatch"
  BY DEF Dispatch
<1>2. p \in Clients
  <2>1. Head(script[p]) \in OpsOf(p)
    BY <1>1, TailOf DEF ReleaseInv, Types
  <2> QED BY <1>1, <2>1 DEF OpsOf
<1>3. PICK h \in UNION {IF p \in Registered /\ ~Relogin THEN {} ELSE Login(p),
                      IF p \in Registered THEN Offer(p) \cup Search(p)
                      ELSE {Note(p) \o Send(p), Note(p)},
                      GetSources(p), Callback(p), ServerList(p), {<<>>}} :
         script' = [script EXCEPT ![p] = h]
  BY DEF Dispatch
<1>4. CASE h \in Login(p) /\ (Relogin \/ p \notin Registered)
  BY <1>1, <1>2, <1>3, <1>4, LoginShape DEF Dispatch
<1>5. CASE h \in UNION {Offer(p), Search(p), {Note(p) \o Send(p), Note(p)},
                        GetSources(p), Callback(p), ServerList(p), {<<>>}}
  BY <1>1, <1>2, <1>3, <1>5, HandlersPlain DEF Dispatch
<1> QED BY <1>3, <1>4, <1>5

LEMMA NextRelease == ReleaseInv /\ [Next]_vars => ReleaseInv'
<1> SUFFICES ASSUME ReleaseInv, [Next]_vars PROVE ReleaseInv'
  OBVIOUS
<1>0. Types /\ MuHeld /\ WriteMuHeld /\ ReadersHeld /\ WriterHeld
  BY DEF ReleaseInv
<1>1. ASSUME NEW c \in Clients, Receive(c) PROVE ReleaseInv'
  <2>1. PICK h \in {Frame(c)} \cup Leave(c) : script' = [script EXCEPT ![c] = h]
    BY <1>1 DEF Receive
  <2>2. h \in Seq(OpsOf(c)) /\ Released(h)
    BY <2>1, FrameShape, LeavePlain, ScriptsTyped
  <2> QED BY <1>1, <2>1, <2>2, NewScript DEF Receive, Procs
<1>2. CASE Request
  <2>1. PICK h \in Snapshot : script' = [script EXCEPT ![Admin] = h]
    BY <1>2 DEF Request
  <2>2. h \in Seq(OpsOf(Admin)) /\ Released(h)
    BY <2>1, SnapshotPlain, ScriptsTyped
  <2> QED BY <1>2, <2>1, <2>2, NewScript DEF Request, Procs
<1>3. ASSUME NEW p \in Procs, Dispatch(p) PROVE ReleaseInv'
  <2>1. PICK h : /\ script' = [script EXCEPT ![p] = h]
                 /\ PlainScript(p, h) \/ LoginScript(p, h)
    BY <1>3, DispatchShape
  <2>2. h \in Seq(OpsOf(p)) /\ Released(h)
    BY <2>1, ScriptsTyped
  <2> QED BY <1>3, <2>1, <2>2, NewScript, DispatchShape
<1>4. ASSUME NEW p \in Procs, NEW kind, Does(p, kind),
             \/ Section(p) \/ Lock(p) \/ Unlock(p) \/ LockWrite(p) \/ Write(p)
             \/ ReadSection(p) \/ ReadLock(p) \/ ReadUnlock(p) \/ Announce(p) \/ Commit(p)
      PROVE  ReleaseInv'
  <2> DEFINE o == Head(script[p])
  <2>1. script[p] # <<>> /\ script' = [script EXCEPT ![p] = Tail(@)] /\ p # None
    BY <1>4, NoneAssumption DEF Does, Procs
  <2>2. /\ o \in Ops
        /\ script' \in [Procs -> Seq(Ops)]
        /\ \A q \in Procs : script'[q] \in Seq(OpsOf(q)) /\ Released(script'[q])
        /\ \A c \in Clients : mu[c] # None =>
              \/ mu[c] = p /\ o = Op("unlock", c)
              \/ Until(script'[mu[c]], 1, Op("unlock", c), InLogin)
        /\ \A c \in Clients : writeMu[c] # None =>
              \/ writeMu[c] = p /\ o = Op("write", c)
              \/ Until(script'[writeMu[c]], 1, Op("write", c), InSend)
        /\ \A q \in readers :
              \/ q = p /\ o = Op("runlock", None)
              \/ Until(script'[q], 1, Op("runlock", None), InVisit)
        /\ writer # None =>
              \/ writer = p /\ o.kind \in Commits
              \/ script'[writer] # <<>> /\ Head(script'[writer]).kind \in Commits
        /\ o.kind = "lock" => Until(script'[p], 1, Op("unlock", o.on), InLogin)
        /\ o.kind = "lockW" => Until(script'[p], 1, Op("write", o.on), InSend)
        /\ o.kind = "rlock" => Until(script'[p], 1, Op("runlock", None), InVisit)
        /\ o.kind = "announce" =>
              script'[p] # <<>> /\ Head(script'[p]).kind \in Commits
    BY <2>1, OneStep
  <2>3. \A c : /\ Op("unlock", c).kind = "unlock" /\ Op("unlock", c).on = c
               /\ Op("write", c).kind = "write" /\ Op("write", c).on = c
               /\ Op("runlock", c).kind = "runlock"
    BY DEF Op
  <2>4. On(p) = o.on
    BY DEF On
  <2> HIDE DEF o
  <2>5. Types'
    <3>1. /\ mu' \in [Clients -> Procs \cup {None}]
          /\ writeMu' \in [Clients -> Procs \cup {None}]
          /\ readers' \subseteq Procs
          /\ writer' \in Procs \cup {None}
      BY <1>0, <1>4 DEF Types, Section, Lock, Unlock, LockWrite, Write, ReadSection, ReadLock,
                       ReadUnlock, Announce, Commit
    <3>2. status' \in [Clients -> {"fresh", "registered", "over"}]
      BY <1>0, <1>4 DEF Types, Section, Lock, Unlock, LockWrite, Write, ReadSection, ReadLock,
                       ReadUnlock, Announce, Commit
    <3> QED BY <2>2, <3>1, <3>2 DEF Types
  <2>6. MuHeld'
    <3>1. CASE Lock(p)
      <4>1. o.kind = "lock" /\ mu' = [mu EXCEPT ![o.on] = p]
        BY <2>4, <3>1 DEF Lock, Does, o
      <4> QED BY <1>0, <2>2, <2>3, <4>1 DEF MuHeld, Types
    <3>2. CASE Unlock(p)
      <4>1. mu' = [mu EXCEPT ![o.on] = None]
        BY <2>4, <3>2 DEF Unlock
      <4> QED BY <1>0, <2>2, <2>3, <4>1 DEF MuHeld, Types
    <3>3. CASE mu' = mu /\ o.kind # "unlock"
      BY <2>2, <2>3, <3>3 DEF MuHeld
    <3> QED
      BY <1>4, <3>1, <3>2, <3>3 DEF Section, LockWrite, Write, ReadSection, ReadLock,
         ReadUnlock, Announce, Commit, Does, o
  <2>7. WriteMuHeld'
    <3>1. CASE LockWrite(p)
      <4>1. o.kind = "lockW" /\ writeMu' = [writeMu EXCEPT ![o.on] = p]
        BY <2>4, <3>1 DEF LockWrite, Does, o
      <4> QED BY <1>0, <2>2, <2>3, <4>1 DEF WriteMuHeld, Types
    <3>2. CASE Write(p)
      <4>1. writeMu' = [writeMu EXCEPT ![o.on] = None]
        BY <2>4, <3>2 DEF Write
      <4> QED BY <1>0, <2>2, <2>3, <4>1 DEF WriteMuHeld, Types
    <3>3. CASE writeMu' = writeMu /\ o.kind # "write"
      BY <2>2, <2>3, <3>3 DEF WriteMuHeld
    <3> QED
      BY <1>4, <3>1, <3>2, <3>3 DEF Section, Lock, Unlock, ReadSection, ReadLock,
         ReadUnlock, Announce, Commit, Does, o
  <2>8. ReadersHeld'
    <3>1. CASE ReadLock(p)
      <4>1. o.kind = "rlock" /\ readers' = readers \cup {p}
        BY <3>1 DEF ReadLock, Does, o
      <4> QED BY <2>2, <2>3, <4>1 DEF ReadersHeld
    <3>2. CASE ReadUnlock(p)
      <4>1. readers' = readers \ {p}
        BY <3>2 DEF ReadUnlock
      <4> QED BY <2>2, <4>1 DEF ReadersHeld
    <3>3. CASE readers' = readers /\ o.kind # "runlock"
      BY <2>2, <2>3, <3>3 DEF ReadersHeld
    <3> QED
      BY <1>4, <3>1, <3>2, <3>3 DEF Section, Lock, Unlock, LockWrite, Write, ReadSection,
         Announce, Commit, Does, o
  <2>9. WriterHeld'
    <3>1. CASE Announce(p)
      <4>1. o.kind = "announce" /\ writer' = p
        BY <3>1 DEF Announce, Does, o
      <4> QED BY <2>2, <4>1 DEF WriterHeld
    <3>2. CASE Commit(p)
      BY <3>2 DEF Commit, WriterHeld
    <3>3. CASE writer' = writer /\ o.kind \notin Commits
      BY <2>2, <3>3 DEF WriterHeld
    <3> QED
      BY <1>4, <3>1, <3>2, <3>3 DEF Section, Lock, Unlock, LockWrite, Write, ReadSection,
         ReadLock, ReadUnlock, Commits, Does, o
  <2> QED BY <2>2, <2>5, <2>6, <2>7, <2>8, <2>9 DEF ReleaseInv
<1>5. ASSUME NEW p \in Procs, Step(p), ~Dispatch(p) PROVE ReleaseInv'
  <2>1. /\ \/ Section(p) \/ Lock(p) \/ Unlock(p) \/ LockWrite(p) \/ Write(p)
           \/ ReadSection(p) \/ ReadLock(p) \/ ReadUnlock(p) \/ Announce(p) \/ Commit(p)
        /\ \E kind \in Kinds : Does(p, kind)
    BY <1>5 DEF Step, Section, Lock, Unlock, LockWrite, Write, ReadSection, ReadLock,
                ReadUnlock, Announce, Commit, Kinds
  <2> QED BY <1>4, <2>1
<1>6. CASE UNCHANGED <<script, mu, writeMu, readers, writer, status>>
  BY <1>6 DEF ReleaseInv, Types, MuHeld, WriteMuHeld, ReadersHeld, WriterHeld
<1> QED
  BY <1>1, <1>2, <1>3, <1>5, <1>6 DEF Next, Stall, vars

LEMMA InitRelease == Init => ReleaseInv
<1> SUFFICES ASSUME Init PROVE ReleaseInv
  OBVIOUS
<1>1. Types
  BY DEF Init, Types, OpsOf
<1>2. \A p \in Procs : Released(script[p])
  BY DEF Init, Released
<1> QED BY <1>1, <1>2 DEF Init, ReleaseInv, MuHeld, WriteMuHeld, ReadersHeld, WriterHeld

\* No handler of the server leaves a lock behind on any of its paths, for any
\* number of connections, and also if clients log in again (handleLogin, send,
\* sourcesAll and the sections of Server.mu).
THEOREM LocksAreReleased == Spec => []LocksReleased
<1>1. ReleaseInv => LocksReleased
  <2> SUFFICES ASSUME ReleaseInv PROVE LocksReleased
    OBVIOUS
  <2>1. \A s, op, kinds : Until(s, 1, op, kinds) => Contains(s, op)
    BY DEF Until, Contains
  <2> QED
    BY <2>1 DEF ReleaseInv, MuHeld, WriteMuHeld, ReadersHeld, WriterHeld, LocksReleased, Commits
<1>2. Spec => []ReleaseInv
  BY InitRelease, NextRelease, PTL DEF Spec
<1> QED BY <1>1, <1>2, PTL

----------------------------------------------------------------------------
(* Nobody waits in a circle, if a client logs in once.                     *)

\* Where a goroutine is: in a handler, in a frame of an open connection, or before
\* the lock of the login of a connection that nobody else can reach yet.
Shape(p) ==
    \/ script[p] \in Seq(Plain(p))
    \/ script[p] \in Seq(FrameOps(p)) /\ p \in Clients /\ status[p] # "over"
    \/ LoginScript(p, script[p]) /\ status[p] = "fresh"

\* clientSession.mu is held over other locks only by its own connection, and only
\* before that is registered.
MuOwn == \A c \in Clients : mu[c] # None => mu[c] = c /\ status[c] = "fresh"

OrderInv == ReleaseInv /\ (\A p \in Procs : Shape(p)) /\ MuOwn

\* What the first operation of a goroutine says about it.
LEMMA ShapeStep ==
    ASSUME ReleaseInv, NEW p \in Procs, Shape(p), script[p] # <<>>
    PROVE  LET o == Head(script[p]) IN
           /\ o.kind = "lock" => o.on = p /\ p \in Clients /\ status[p] = "fresh"
           /\ o.kind = "dispatch" => p \in Clients /\ status[p] # "over"
           /\ o.kind \in {"register", "close"} =>
                 o.on = p /\ p \in Clients /\ script[p] \in Seq(Plain(p))
           /\ o.kind = "note" => o.on \in Clients /\ (o.on = p \/ status[o.on] # "fresh")
           /\ \/ Tail(script[p]) \in Seq(Plain(p))
              \/ /\ Tail(script[p]) \in Seq(FrameOps(p)) /\ p \in Clients
                 /\ status[p] # "over" /\ o.kind \notin {"register", "close"}
<1> DEFINE s == script[p]
           o == Head(s)
<1>1. s \in Seq(Ops) /\ o = s[1]
  BY TailOf DEF ReleaseInv, Types
<1>2. CASE s \in Seq(Plain(p))
  <2>1. o \in Plain(p) /\ Tail(s) \in Seq(Plain(p))
    BY <1>2, TailOf
  <2> QED BY <1>2, <2>1 DEF Plain
<1>3. CASE s \in Seq(FrameOps(p)) /\ p \in Clients /\ status[p] # "over"
  <2>1. o \in FrameOps(p) /\ Tail(s) \in Seq(FrameOps(p))
    BY <1>3, TailOf
  <2> QED BY <1>3, <2>1 DEF FrameOps
<1>4. CASE LoginScript(p, s) /\ status[p] = "fresh"
  <2>1. o = Op("lock", p) /\ p \in Clients /\ \A i \in 2..Len(s) : s[i] \in Plain(p)
    BY <1>1, <1>4 DEF LoginScript
  <2>2. /\ Tail(s) \in Seq(Ops) /\ Len(s) \in Nat \ {0} /\ Len(Tail(s)) = Len(s) - 1
        /\ \A i \in 1..(Len(s) - 1) : Tail(s)[i] = s[i + 1]
    BY <1>1, TailOf
  <2>3. ASSUME NEW i \in 1..Len(Tail(s)) PROVE Tail(s)[i] \in Plain(p)
    <3>1. i \in 1..(Len(s) - 1) /\ i + 1 \in 2..Len(s)
      BY <2>2, <2>3
    <3> QED BY <2>1, <2>2, <3>1
  <2>4. Tail(s) \in Seq(Plain(p))
    <3> DEFINE t == Tail(s)
    <3>1. t \in Seq(Ops) /\ \A i \in 1..Len(t) : t[i] \in Plain(p)
      BY <2>2, <2>3
    <3> HIDE DEF t
    <3>2. t \in Seq(Plain(p))
      BY <3>1
    <3> QED BY <3>2 DEF t
  <2> QED BY <1>4, <2>1, <2>4 DEF Op
<1> QED BY <1>2, <1>3, <1>4 DEF Shape

\* What was plain stays plain: a connection never becomes fresh again.
LEMMA PlainStays ==
    ASSUME NEW p, \A c \in Clients : status'[c] = "fresh" => status[c] = "fresh"
    PROVE  Seq(Plain(p)) \subseteq Seq(Plain(p)')
<1>1. Plain(p) \subseteq Plain(p)'
  BY DEF Plain
<1> QED BY <1>1

LEMMA NextOrder == ASSUME ~Relogin PROVE OrderInv /\ [Next]_vars => OrderInv'
<1> SUFFICES ASSUME OrderInv, [Next]_vars PROVE (\A q \in Procs : Shape(q)') /\ MuOwn'
  BY NextRelease DEF OrderInv
<1>0. ReleaseInv /\ Types /\ MuOwn /\ \A q \in Procs : Shape(q)
  BY DEF OrderInv, ReleaseInv
\* A goroutine starts on a new sequence.
<1>1. ASSUME NEW p \in Procs, NEW h, script' = [script EXCEPT ![p] = h],
             UNCHANGED <<mu, status>>,
             \/ PlainScript(p, h)
             \/ FrameScript(p, h) /\ p \in Clients /\ status[p] # "over"
             \/ LoginScript(p, h) /\ status[p] = "fresh"
      PROVE  (\A q \in Procs : Shape(q)') /\ MuOwn'
  <2>1. script'[p] = h /\ \A q \in Procs \ {p} : script'[q] = script[q]
    BY <1>0, <1>1 DEF Types
  <2>2. \A q \in Procs : Plain(q)' = Plain(q)
    BY <1>1 DEF Plain
  <2>4. ASSUME NEW q \in Procs PROVE Shape(q)'
    <3>1. CASE q = p
      BY <1>1, <2>1, <2>2, <3>1 DEF Shape, PlainScript, FrameScript, LoginScript
    <3>2. CASE q # p
      BY <1>0, <1>1, <2>1, <2>2, <3>2 DEF Shape, LoginScript
    <3> QED BY <3>1, <3>2
  <2> QED BY <1>0, <1>1, <2>4 DEF MuOwn
\* A goroutine goes on with its sequence.
<1>2. ASSUME NEW p \in Procs, script[p] # <<>>, script' = [script EXCEPT ![p] = Tail(@)],
             \/ UNCHANGED status
             \/ /\ Head(script[p]).kind \in {"register", "close"}
                /\ \E new \in {"registered", "over"} : status' = [status EXCEPT ![On(p)] = new]
      PROVE  /\ \A q \in Procs : Shape(q)'
             /\ \A c \in Clients : mu[c] # None => status'[c] = "fresh"
  <2> DEFINE o == Head(script[p])
  <2>1. script'[p] = Tail(script[p]) /\ \A q \in Procs \ {p} : script'[q] = script[q]
    BY <1>0, <1>2 DEF Types
  <2>2. /\ o.kind \in {"register", "close"} =>
              o.on = p /\ p \in Clients /\ script[p] \in Seq(Plain(p))
        /\ \/ Tail(script[p]) \in Seq(Plain(p))
           \/ /\ Tail(script[p]) \in Seq(FrameOps(p)) /\ p \in Clients
              /\ status[p] # "over" /\ o.kind \notin {"register", "close"}
    BY <1>0, <1>2, ShapeStep
  <2>3. On(p) = o.on
    BY DEF On
  <2> HIDE DEF o
  <2>4. /\ \A c \in Clients : status'[c] = "fresh" => status[c] = "fresh"
        /\ \A c \in Clients \ {p} : status'[c] = status[c]
        /\ o.kind \notin {"register", "close"} => status' = status
    BY <1>0, <1>2, <2>2, <2>3 DEF Types, o
  <2>5. \A q \in Procs : Seq(Plain(q)) \subseteq Seq(Plain(q)') /\ Plain(q) \subseteq Plain(q)'
    BY <2>4, PlainStays DEF Plain
  <2>6. ASSUME NEW q \in Procs PROVE Shape(q)'
    <3>1. CASE q = p
      <4>1. CASE Tail(script[p]) \in Seq(Plain(p))
        BY <2>1, <2>5, <3>1, <4>1 DEF Shape
      <4>2. CASE /\ Tail(script[p]) \in Seq(FrameOps(p)) /\ p \in Clients
                 /\ status[p] # "over" /\ o.kind \notin {"register", "close"}
        BY <2>1, <2>4, <3>1, <4>2 DEF Shape, FrameOps
      <4> QED BY <2>2, <4>1, <4>2
    <3>2. CASE q # p
      <4>1. script'[q] = script[q] /\ Shape(q)
        BY <1>0, <2>1, <3>2
      <4>2. CASE script[q] \in Seq(Plain(q))
        BY <2>5, <4>1, <4>2 DEF Shape
      <4>3. CASE script[q] \in Seq(FrameOps(q)) /\ q \in Clients /\ status[q] # "over"
        BY <2>4, <3>2, <4>1, <4>3 DEF Shape, FrameOps
      <4>4. CASE LoginScript(q, script[q]) /\ status[q] = "fresh"
        BY <2>4, <2>5, <3>2, <4>1, <4>4 DEF Shape, LoginScript
      <4> QED BY <4>1, <4>2, <4>3, <4>4 DEF Shape
    <3> QED BY <3>1, <3>2
  <2>7. ASSUME NEW c \in Clients, mu[c] # None PROVE status'[c] = "fresh"
    <3>1. mu[c] = c /\ status[c] = "fresh"
      BY <1>0, <2>7 DEF MuOwn
    <3>2. CASE c # p
      BY <2>4, <3>1, <3>2
    <3>3. CASE c = p
      <4>1. o = Op("unlock", p) \/ o.kind \in InLogin
        BY <1>0, <3>1, <3>3, HolderHead DEF o
      <4>2. o.kind \notin {"register", "close"}
        BY <4>1 DEF Op, InLogin
      <4> QED BY <2>4, <3>1, <4>2
    <3> QED BY <3>2, <3>3
  <2> QED BY <2>6, <2>7
<1>3. ASSUME NEW c \in Clients, Receive(c) PROVE (\A q \in Procs : Shape(q)') /\ MuOwn'
  <2>1. PICK h \in {Frame(c)} \cup Leave(c) : script' = [script EXCEPT ![c] = h]
    BY <1>3 DEF Receive
  <2>2. FrameScript(c, h) \/ PlainScript(c, h)
    BY <2>1, FrameShape, LeavePlain
  <2> QED BY <1>1, <1>3, <2>1, <2>2 DEF Receive, Procs
<1>4. CASE Request
  <2>1. PICK h \in Snapshot : script' = [script EXCEPT ![Admin] = h]
    BY <1>4 DEF Request
  <2>2. PlainScript(Admin, h)
    BY <2>1, SnapshotPlain
  <2> QED BY <1>1, <1>4, <2>1, <2>2 DEF Request, Procs
<1>5. ASSUME NEW p \in Procs, Dispatch(p) PROVE (\A q \in Procs : Shape(q)') /\ MuOwn'
  <2>1. /\ p \in Clients /\ script[p] # <<>> /\ Head(script[p]).kind = "dispatch"
        /\ UNCHANGED <<mu, writeMu, readers, writer, status>>
    BY <1>0, <1>5, DispatchShape
  <2>2. PICK h : /\ script' = [script EXCEPT ![p] = h]
                 /\ \/ PlainScript(p, h)
                    \/ LoginScript(p, h) /\ p \notin Registered
    BY <1>0, <1>5, DispatchShape
  <2>3. status[p] # "over"
    BY <1>0, <2>1, ShapeStep
  <2>4. p \notin Registered => status[p] = "fresh"
    BY <1>0, <2>1, <2>3 DEF Registered, Types
  <2> QED BY <1>1, <2>1, <2>2, <2>4
<1>6. ASSUME NEW p \in Procs, Lock(p) PROVE (\A q \in Procs : Shape(q)') /\ MuOwn'
  <2>1. /\ script[p] # <<>> /\ script' = [script EXCEPT ![p] = Tail(@)] /\ UNCHANGED status
        /\ Head(script[p]).kind = "lock" /\ mu' = [mu EXCEPT ![On(p)] = p]
    BY <1>6 DEF Lock, Does
  <2>2. On(p) = p /\ p \in Clients /\ status[p] = "fresh"
    BY <1>0, <2>1, ShapeStep DEF On
  <2>3. \A q \in Procs : Shape(q)'
    BY <1>2, <2>1
  <2> QED BY <1>0, <2>1, <2>2, <2>3 DEF MuOwn, Types
<1>7. ASSUME NEW p \in Procs,
             \/ Section(p) \/ Unlock(p) \/ LockWrite(p) \/ Write(p)
             \/ ReadSection(p) \/ ReadLock(p) \/ ReadUnlock(p) \/ Announce(p) \/ Commit(p)
      PROVE  (\A q \in Procs : Shape(q)') /\ MuOwn'
  <2>1. /\ script[p] # <<>> /\ script' = [script EXCEPT ![p] = Tail(@)]
        /\ \/ UNCHANGED status
           \/ /\ Head(script[p]).kind \in {"register", "close"}
              /\ \E new \in {"registered", "over"} : status' = [status EXCEPT ![On(p)] = new]
    BY <1>7 DEF Section, Unlock, LockWrite, Write, ReadSection, ReadLock, ReadUnlock,
                Announce, Commit, Does
  <2>2. /\ \A q \in Procs : Shape(q)'
        /\ \A c \in Clients : mu[c] # None => status'[c] = "fresh"
    BY <1>2, <2>1
  <2>3. mu' = mu \/ mu' = [mu EXCEPT ![On(p)] = None]
    BY <1>7 DEF Section, Unlock, LockWrite, Write, ReadSection, ReadLock, ReadUnlock,
                Announce, Commit
  <2>4. \A c \in Clients : mu'[c] # None => mu'[c] = mu[c]
    BY <1>0, <2>3 DEF Types
  <2> QED BY <1>0, <2>2, <2>4 DEF MuOwn
<1>8. CASE UNCHANGED <<script, mu, status>>
  BY <1>0, <1>8 DEF Shape, MuOwn, LoginScript, Plain
<1> QED
  BY <1>3, <1>4, <1>5, <1>6, <1>7, <1>8 DEF Next, Step, Stall, vars

\* Whom a goroutine may have to wait for.
LEMMA BlockersHold ==
    ASSUME OrderInv, NEW p \in Procs, NEW q \in Blockers(p)
    PROVE  /\ script[p] # <<>>
           /\ LET o == Head(script[p]) IN
              \/ o.kind = "note" /\ o.on \in Clients /\ q = mu[o.on] /\ q # None
              \/ o.kind = "lock" /\ o.on \in Clients /\ q = mu[o.on] /\ q # None
              \/ o.kind = "lockW" /\ o.on \in Clients /\ q = writeMu[o.on] /\ q # None
              \/ o.kind \in {"read", "rlock", "announce"} /\ q = writer /\ q # None
              \/ o.kind \in Commits /\ q \in readers
<1> DEFINE o == Head(script[p])
<1>1. script[p] # <<>>
  BY DEF Blockers
<1>2. /\ o.kind \in {"note", "lock"} => q = mu[o.on] /\ q # None
      /\ o.kind = "lockW" => q = writeMu[o.on] /\ q # None
      /\ o.kind \in {"read", "rlock", "announce"} => q = writer /\ q # None
      /\ o.kind \in {"commit", "register", "close"} => q \in readers
      /\ o.kind \in {"note", "lock", "lockW", "read", "rlock", "announce", "commit",
                     "register", "close"}
  BY <1>1 DEF Blockers, On
<1>3. o.kind \in {"note", "lock"} => o.on \in Clients
  BY <1>1, ShapeStep DEF OrderInv
<1>4. o.kind = "lockW" => o.on \in Clients
  <2>1. script[p] \in Seq(Plain(p)) => o \in Plain(p)
    BY <1>1, TailOf
  <2>2. script[p] \in Seq(FrameOps(p)) => o \in FrameOps(p)
    BY <1>1, TailOf
  <2>3. LoginScript(p, script[p]) => o = Op("lock", p)
    BY <1>1 DEF LoginScript
  <2> QED BY <2>1, <2>2, <2>3 DEF OrderInv, Shape, Plain, FrameOps, Op
<1> QED BY <1>1, <1>2, <1>3, <1>4 DEF Commits

\* The server needs no documented lock order: if a client logs in once per
\* connection, goroutines never wait for each other in a circle, for any number of
\* connections.  A reader of Server.mu waits for nobody, its writer for readers,
\* the holder of a clientSession.mu for these, and the holder of a writeMu for all
\* of them (handleLogin, sourcesAll, send).
THEOREM NobodyWaitsInCircle == ASSUME ~Relogin PROVE Spec => []NoCircularWait
<1>1. Init => OrderInv
  <2> SUFFICES ASSUME Init PROVE OrderInv
    OBVIOUS
  <2>1. \A p \in Procs : script[p] \in Seq(Plain(p))
    BY DEF Init
  <2> QED BY <2>1, InitRelease DEF Init, OrderInv, Shape, MuOwn
<1>2. Spec => []OrderInv
  BY <1>1, NextOrder, PTL DEF Spec
<1>3. OrderInv => NoCircularWait
  <2> SUFFICES ASSUME OrderInv, NEW P \in (SUBSET Procs) \ {{}}
               PROVE  \E p \in P : Blockers(p) \cap P = {}
    BY DEF NoCircularWait
  <2>0. ReleaseInv /\ Types /\ MuOwn
    BY DEF OrderInv, ReleaseInv
  <2> DEFINE MuHolder(p) == \E c \in Clients : mu[c] = p
             WriteMuHolder(p) == \E c \in Clients : writeMu[c] = p
  <2>1. ASSUME NEW p \in P, p \in readers PROVE Blockers(p) \cap P = {}
    <3> SUFFICES ASSUME NEW q \in Blockers(p) PROVE FALSE
      OBVIOUS
    <3> DEFINE o == Head(script[p])
    <3>1. o = Op("runlock", None) \/ o.kind = "note"
      BY <2>0, <2>1, HolderHead DEF InVisit
    <3>2. o.kind = "note" /\ o.on \in Clients /\ q = mu[o.on] /\ q # None /\ script[p] # <<>>
      BY <3>1, BlockersHold DEF Op, Commits
    <3>3. mu[o.on] = o.on /\ status[o.on] = "fresh"
      BY <2>0, <3>2 DEF MuOwn
    <3>4. o.on = p
      BY <2>0, <3>2, <3>3, ShapeStep DEF OrderInv
    <3>5. o = Op("unlock", p) \/ o.kind \in InLogin
      BY <2>0, <3>2, <3>3, <3>4, HolderHead
    <3> QED BY <3>2, <3>5 DEF Op, InLogin
  <2>2. CASE \E p \in P : p \in readers
    BY <2>1, <2>2
  <2>3. CASE P \cap readers = {} /\ writer \in P
    <3>1. Head(script[writer]).kind \in Commits
      BY <2>0, <2>3, HolderHead
    <3>2. Blockers(writer) \subseteq readers
      BY <2>3, <3>1, BlockersHold DEF Commits
    <3> QED BY <2>3, <3>2
  <2>4. CASE P \cap readers = {} /\ writer \notin P /\ \E p \in P : MuHolder(p)
    <3>1. PICK p \in P : MuHolder(p)
      BY <2>4
    <3>2. PICK c \in Clients : mu[c] = p
      BY <3>1
    <3>3. Head(script[p]) = Op("unlock", c) \/ Head(script[p]).kind \in InLogin
      BY <2>0, <3>2, HolderHead
    <3>4. Blockers(p) \subseteq readers \cup {writer}
      BY <3>3, BlockersHold DEF Op, InLogin
    <3> QED BY <2>4, <3>4
  <2>5. CASE /\ P \cap readers = {} /\ writer \notin P /\ ~\E p \in P : MuHolder(p)
             /\ \E p \in P : WriteMuHolder(p)
    <3>1. PICK p \in P : WriteMuHolder(p)
      BY <2>5
    <3>2. PICK c \in Clients : writeMu[c] = p
      BY <3>1
    <3>3. Head(script[p]) = Op("write", c) \/ Head(script[p]).kind \in InSend
      BY <2>0, <3>2, HolderHead
    <3>4. \A q \in Blockers(p) : q \in readers \/ q = writer \/ MuHolder(q)
      BY <3>3, BlockersHold DEF Op, InSend
    <3> QED BY <2>5, <3>4
  <2>6. CASE /\ P \cap readers = {} /\ writer \notin P /\ ~\E p \in P : MuHolder(p)
             /\ ~\E p \in P : WriteMuHolder(p)
    <3>1. PICK p \in P : TRUE
      OBVIOUS
    <3>2. \A q \in Blockers(p) : q \in readers \/ q = writer \/ MuHolder(q) \/ WriteMuHolder(q)
      BY BlockersHold
    <3> QED BY <2>6, <3>2
  <2> QED BY <2>2, <2>3, <2>4, <2>5, <2>6
<1> QED BY <1>2, <1>3, PTL
=============================================================================
