------------------------------- MODULE TtyProofs --------------------------------
(***************************************************************************)
(* The terminal server loses no character, hands none out twice and keeps  *)
(* one request for each process that waits, for any number of clients, any *)
(* size of reads and any keys.                                             *)
(*                                                                         *)
(* The routines of Tty work on the record of what the server and its       *)
(* interrupt handler share; the invariant is stated on that record and the *)
(* mailbox of the server, and each routine has a lemma that it keeps it.   *)
(***************************************************************************)
EXTENDS Tty, Facts

-----------------------------------------------------------------------------
(* Lines one after the other.                                              *)

\* f[i] are the first i lines of s, one after the other.
Joins(f, A, s) ==
    /\ f \in [0 .. Len(s) -> Seq(A)] /\ f[0] = <<>>
    /\ \A i \in 1 .. Len(s) : f[i] = f[i - 1] \o s[i]

\* FlattenSeq is the last one of them.
LEMMA FlattenJoins ==
    ASSUME NEW A, NEW s \in Seq(Seq(A))
    PROVE  \E f : Joins(f, A, s) /\ FlattenSeq(s) = f[Len(s)]
<1> DEFINE N == Len(s)
           X == Seq(A)
           G == [x \in X |-> [i \in 1 .. N |-> x \o s[i]]]
           h == CHOOSE g : g = [i \in 1 .. N |-> IF i = 1 THEN s[i] ELSE g[i - 1] \o s[i]]
<1>1. N \in Nat /\ <<>> \in X /\ \A i \in 1 .. N : s[i] \in X
  OBVIOUS
<1>2. \A x \in X : \A i \in 1 .. N : x \o s[i] \in X
  BY <1>1
<1> HIDE DEF N, X
<1>3. G \in LoopSteps(N, X)
  BY <1>2 DEF LoopSteps
<1>4. PICK f : LoopRuns(f, N, X, <<>>, G)
  <2> HIDE DEF G
  <2> QED
    BY <1>1, <1>3, LoopExists
<1>5. /\ f \in [0 .. N -> X] /\ f[0] = <<>>
      /\ \A i \in 1 .. N : i - 1 \in 0 .. N /\ f[i] = f[i - 1] \o s[i]
  <2>1. f \in [0 .. N -> X] /\ f[0] = <<>> /\ \A i \in 1 .. N : f[i] = G[f[i - 1]][i]
    BY <1>4 DEF LoopRuns
  <2>2. ASSUME NEW i \in 1 .. N PROVE i - 1 \in 0 .. N /\ f[i] = f[i - 1] \o s[i]
    <3>1. i - 1 \in 0 .. N
      BY <1>1
    <3>2. f[i - 1] \in X
      BY <2>1, <3>1
    <3>3. QED
      BY <2>1, <3>1, <3>2
  <2>3. QED
    BY <2>1, <2>2
<1>6. CASE N = 0
  <2>1. FlattenSeq(s) = <<>>
    BY <1>6 DEF FlattenSeq, N
  <2>2. QED
    BY <1>5, <1>6, <2>1 DEF Joins, N, X
<1>7. CASE N # 0
  <2>1. FlattenSeq(s) = h[N]
    BY <1>7 DEF FlattenSeq, N
  <2> DEFINE r == [i \in 1 .. N |-> f[i]]
  <2>2. r = [i \in 1 .. N |-> IF i = 1 THEN s[i] ELSE r[i - 1] \o s[i]]
    <3>1. 1 \in 1 .. N /\ f[1] = s[1]
      <4>1. 1 \in 1 .. N /\ 1 - 1 = 0
        BY <1>1, <1>7
      <4>2. f[1] = <<>> \o s[1] /\ s[1] \in Seq(A)
        BY <1>1, <1>5, <4>1 DEF X
      <4>3. QED
        BY <4>1, <4>2
    <3>2. ASSUME NEW i \in 1 .. N, i # 1 PROVE f[i] = r[i - 1] \o s[i]
      <4>1. i - 1 \in 1 .. N
        BY <1>1, <3>2
      <4>2. QED
        BY <1>5, <4>1
    <3>3. QED
      BY <3>1, <3>2
  <2>3. h = [i \in 1 .. N |-> IF i = 1 THEN s[i] ELSE h[i - 1] \o s[i]]
    BY <2>2
  <2> HIDE DEF h
  <2> DEFINE S == [i \in 0 .. N |-> {v \in X : v = f[i] /\ (i # 0 => v = h[i])}]
  <2>4. f[0] \in S[0]
    BY <1>1, <1>5
  <2>5. ASSUME NEW i \in 1 .. N, f[i - 1] \in S[i - 1] PROVE f[i] \in S[i]
    <3>1. i - 1 \in 0 .. N /\ i \in 0 .. N /\ f[i] = f[i - 1] \o s[i] /\ f[i] \in X /\ i # 0
      BY <1>1, <1>5
    <3>2. CASE i = 1
      <4>1. i - 1 = 0 /\ s[i] \in Seq(A)
        BY <1>1, <3>2 DEF X
      <4>2. f[i] = <<>> \o s[i]
        BY <1>5, <3>1, <4>1
      <4>3. f[i] = s[i]
        BY <4>1, <4>2
      <4>4. h[i] = s[i]
        BY <2>3, <3>2
      <4>5. QED
        BY <3>1, <4>3, <4>4
    <3>3. CASE i # 1
      <4>1. i - 1 # 0 /\ f[i - 1] = h[i - 1]
        BY <1>1, <2>5, <3>1, <3>3
      <4>2. h[i] = h[i - 1] \o s[i]
        BY <2>3, <3>3
      <4>3. QED
        BY <3>1, <4>1, <4>2
    <3>4. QED
      BY <3>2, <3>3
  <2>6. f[N] \in S[N]
    <3> HIDE DEF S
    <3> QED
      BY <1>1, <2>4, <2>5, LoopInvariant
  <2>7. f[N] = h[N]
    BY <1>1, <1>7, <2>6
  <2>8. QED
    BY <1>5, <2>1, <2>7 DEF Joins, N, X
<1>8. QED
  BY <1>6, <1>7

\* The lines of s and one more.
LEMMA FlattenAppend ==
    ASSUME NEW A, NEW s \in Seq(Seq(A)), NEW x \in Seq(A)
    PROVE  FlattenSeq(Append(s, x)) = FlattenSeq(s) \o x /\ FlattenSeq(s) \in Seq(A)
<1> DEFINE r == Append(s, x)
<1>1. /\ r \in Seq(Seq(A)) /\ Len(r) = Len(s) + 1 /\ Len(s) \in Nat /\ r[Len(s) + 1] = x
      /\ \A i \in 1 .. Len(s) : r[i] = s[i]
  OBVIOUS
<1> HIDE DEF r
<1>2. PICK f : Joins(f, A, s) /\ FlattenSeq(s) = f[Len(s)]
  BY FlattenJoins
<1>3. PICK g : Joins(g, A, r) /\ FlattenSeq(r) = g[Len(r)]
  BY <1>1, FlattenJoins
<1> DEFINE S == [i \in 0 .. Len(s) |-> {g[i]}]
<1>4. f[0] \in S[0]
  BY <1>1, <1>2, <1>3 DEF Joins
<1>5. ASSUME NEW i \in 1 .. Len(s), f[i - 1] \in S[i - 1] PROVE f[i] \in S[i]
  <2>1. i - 1 \in 0 .. Len(s) /\ i \in 0 .. Len(s) /\ i \in 1 .. Len(r)
    BY <1>1
  <2>2. f[i - 1] = g[i - 1] /\ f[i] = f[i - 1] \o s[i] /\ g[i] = g[i - 1] \o r[i] /\ r[i] = s[i]
    BY <1>1, <1>2, <1>3, <1>5, <2>1 DEF Joins
  <2>3. QED
    BY <2>1, <2>2
<1>6. f[Len(s)] \in S[Len(s)]
  <2> HIDE DEF S
  <2> QED
    BY <1>1, <1>4, <1>5, LoopInvariant
<1>7. f[Len(s)] = g[Len(s)]
  BY <1>1, <1>6
<1>8. Len(s) + 1 \in 1 .. Len(r) /\ (Len(s) + 1) - 1 = Len(s)
  BY <1>1
<1>9. g[Len(r)] = g[Len(s)] \o x
  BY <1>1, <1>3, <1>8 DEF Joins
<1>10. f[Len(s)] \in Seq(A)
  BY <1>1, <1>2 DEF Joins
<1>11. QED
  BY <1>2, <1>3, <1>7, <1>9, <1>10 DEF r

\* A line and those of s.
LEMMA FlattenCons ==
    ASSUME NEW A, NEW s \in Seq(Seq(A)), NEW x \in Seq(A)
    PROVE  FlattenSeq(<<x>> \o s) = x \o FlattenSeq(s)
<1> DEFINE r == <<x>> \o s
<1>1. /\ r \in Seq(Seq(A)) /\ Len(r) = Len(s) + 1 /\ Len(s) \in Nat /\ r[1] = x
      /\ \A i \in 1 .. Len(s) : r[i + 1] = s[i] /\ s[i] \in Seq(A)
  OBVIOUS
<1> HIDE DEF r
<1>2. PICK f : Joins(f, A, s) /\ FlattenSeq(s) = f[Len(s)]
  BY FlattenJoins
<1>3. PICK g : Joins(g, A, r) /\ FlattenSeq(r) = g[Len(r)]
  BY <1>1, FlattenJoins
<1> DEFINE S == [i \in 0 .. Len(s) |-> {v \in Seq(A) : g[i + 1] = x \o v}]
<1>4. f[0] \in S[0]
  <2>1. 1 \in 1 .. Len(r) /\ 1 - 1 = 0
    BY <1>1
  <2>2. g[1] = <<>> \o x /\ f[0] = <<>>
    BY <1>1, <1>2, <1>3, <2>1 DEF Joins
  <2>3. g[1] = x \o f[0] /\ f[0] \in Seq(A)
    BY <2>2
  <2>4. QED
    BY <1>1, <2>3
<1>5. ASSUME NEW i \in 1 .. Len(s), f[i - 1] \in S[i - 1] PROVE f[i] \in S[i]
  <2>0. Len(s) \in Nat /\ Len(r) = Len(s) + 1
    BY <1>1
  <2>1. /\ i - 1 \in 0 .. Len(s) /\ i \in 0 .. Len(s) /\ i + 1 \in 1 .. Len(r)
        /\ (i - 1) + 1 = i /\ (i + 1) - 1 = i
    BY <2>0
  <2>2. f[i - 1] \in Seq(A) /\ g[i] = x \o f[i - 1]
    BY <1>5, <2>1
  <2>3. f[i] = f[i - 1] \o s[i] /\ g[i + 1] = g[i] \o s[i] /\ s[i] \in Seq(A) /\ f[i] \in Seq(A)
    BY <1>1, <1>2, <1>3, <2>1 DEF Joins
  <2>4. (x \o f[i - 1]) \o s[i] = x \o (f[i - 1] \o s[i])
    <3>1. \A a, b, c \in Seq(A) : (a \o b) \o c = a \o (b \o c)
      BY ConcatAssociative
    <3>2. QED
      BY <2>2, <2>3, <3>1
  <2>5. g[i + 1] = x \o f[i]
    BY <2>2, <2>3, <2>4
  <2>6. QED
    BY <2>1, <2>3, <2>5
<1>6. f[Len(s)] \in S[Len(s)]
  <2> HIDE DEF S
  <2> QED
    BY <1>1, <1>4, <1>5, LoopInvariant
<1>7. f[Len(s)] \in Seq(A) /\ g[Len(s) + 1] = x \o f[Len(s)]
  BY <1>1, <1>6
<1>8. QED
  BY <1>1, <1>2, <1>3, <1>7 DEF r

-----------------------------------------------------------------------------
(* The invariant.                                                          *)

States == [requests : Seq(Request), inputs : Seq(Seq(CharSet)), buf : Seq(CharSet),
           client : [Clients -> {"idle", "waiting", "dead"}], typed : Seq(CharSet),
           got : Seq(CharSet), reader : Clients \cup {NoClient}]

Asks(q, c) == \E i \in DOMAIN q : q[i].src = c
Once(q)    == \A i, j \in DOMAIN q : q[i].src = q[j].src => i = j

\* Of each client there is at most one request, in the mailbox mb or in the
\* queue of readers q; a client that waits has one and one that is idle none.
Queued(mb, q, state) ==
    /\ Once(mb) /\ Once(q)
    /\ \A c \in Clients : /\ ~(Asks(mb, c) /\ Asks(q, c))
                          /\ state[c] = "idle" => ~Asks(mb, c) /\ ~Asks(q, c)
                          /\ state[c] = "waiting" => Asks(mb, c) \/ Asks(q, c)

Ordered(t) == t.got \o FlattenSeq(t.inputs) \o t.buf = t.typed

Right(mb, t) == /\ mb \in Seq(Request) /\ t \in States
                /\ Queued(mb, t.requests, t.client) /\ Ordered(t)

IInv == Right(mailbox, T)

\* The queue without its first request.
LEMMA TailAsks ==
    ASSUME NEW q \in Seq(Request), q # <<>>, Once(q)
    PROVE  /\ Tail(q) \in Seq(Request) /\ Once(Tail(q)) /\ Head(q) \in Request
           /\ Asks(q, Head(q).src)
           /\ \A c : Asks(Tail(q), c) <=> Asks(q, c) /\ c # Head(q).src
<1> DEFINE r == Tail(q)
<1>1. /\ r \in Seq(Request) /\ Len(q) \in Nat /\ Len(q) >= 1 /\ Head(q) = q[1] /\ q[1] \in Request
      /\ DOMAIN r = 1 .. Len(q) - 1 /\ DOMAIN q = 1 .. Len(q)
      /\ \A i \in 1 .. Len(q) - 1 : r[i] = q[i + 1]
  OBVIOUS
<1> HIDE DEF r
<1>2. Once(r)
  <2>1. ASSUME NEW i \in 1 .. Len(q) - 1, NEW j \in 1 .. Len(q) - 1, r[i].src = r[j].src
        PROVE  i = j
    <3>1. i + 1 \in 1 .. Len(q) /\ j + 1 \in 1 .. Len(q) /\ q[i + 1].src = q[j + 1].src
      BY <1>1, <2>1
    <3>2. i + 1 = j + 1
      BY <1>1, <3>1 DEF Once
    <3>3. QED
      BY <1>1, <3>2
  <2>2. QED
    BY <1>1, <2>1 DEF Once
<1>3. Asks(q, Head(q).src)
  BY <1>1 DEF Asks
<1>4. ASSUME NEW c PROVE Asks(r, c) <=> Asks(q, c) /\ c # Head(q).src
  <2>1. ASSUME Asks(r, c) PROVE Asks(q, c) /\ c # Head(q).src
    <3>1. PICK i \in 1 .. Len(q) - 1 : q[i + 1].src = c
      BY <1>1, <2>1 DEF Asks
    <3>2. i + 1 \in 1 .. Len(q) /\ 1 \in 1 .. Len(q) /\ i + 1 # 1
      BY <1>1
    <3>3. QED
      BY <1>1, <3>1, <3>2 DEF Asks, Once
  <2>2. ASSUME Asks(q, c), c # Head(q).src PROVE Asks(r, c)
    <3>1. PICK i \in 1 .. Len(q) : q[i].src = c
      BY <1>1, <2>2 DEF Asks
    <3>2. i - 1 \in 1 .. Len(q) - 1 /\ (i - 1) + 1 = i
      BY <1>1, <2>2, <3>1
    <3>3. QED
      BY <1>1, <3>1, <3>2 DEF Asks
  <2>3. QED
    BY <2>1, <2>2
<1>5. QED
  BY <1>1, <1>2, <1>3, <1>4 DEF r

\* One more request.
LEMMA AppendAsks ==
    ASSUME NEW q \in Seq(Request), NEW x \in Request, Once(q), ~Asks(q, x.src)
    PROVE  /\ Append(q, x) \in Seq(Request) /\ Once(Append(q, x))
           /\ \A c : Asks(Append(q, x), c) <=> Asks(q, c) \/ c = x.src
<1> DEFINE r == Append(q, x)
<1>1. /\ r \in Seq(Request) /\ Len(q) \in Nat /\ DOMAIN r = 1 .. Len(q) + 1 /\ DOMAIN q = 1 .. Len(q)
      /\ r[Len(q) + 1] = x /\ \A i \in 1 .. Len(q) : r[i] = q[i]
  OBVIOUS
<1> HIDE DEF r
<1>2. Once(r)
  BY <1>1 DEF Once, Asks
<1>3. ASSUME NEW c PROVE Asks(r, c) <=> Asks(q, c) \/ c = x.src
  <2>1. Asks(r, c) => Asks(q, c) \/ c = x.src
    BY <1>1 DEF Asks
  <2>2. Asks(q, c) => Asks(r, c)
    BY <1>1 DEF Asks
  <2>3. Asks(r, x.src)
    BY <1>1 DEF Asks
  <2>4. QED
    BY <2>1, <2>2, <2>3
<1>4. QED
  BY <1>1, <1>2, <1>3 DEF r

\* A line cut in two.
LEMMA CutLine ==
    ASSUME NEW A, NEW x \in Seq(A), NEW n \in 0 .. Len(x)
    PROVE  /\ SubSeq(x, 1, n) \in Seq(A) /\ SubSeq(x, n + 1, Len(x)) \in Seq(A)
           /\ SubSeq(x, 1, n) \o SubSeq(x, n + 1, Len(x)) = x
           /\ n = Len(x) => SubSeq(x, 1, n) = x
<1> DEFINE a == SubSeq(x, 1, n)
           b == SubSeq(x, n + 1, Len(x))
           k == Len(x) - n
<1>1. /\ Len(x) \in Nat /\ DOMAIN x = 1 .. Len(x) /\ n \in Nat /\ n <= Len(x)
      /\ \A i \in 1 .. Len(x) : x[i] \in A
  OBVIOUS
<1>2. /\ a \in Seq(A) /\ Len(a) = n /\ \A i \in 1 .. n : a[i] = x[i]
  <2>1. a = [i \in 1 .. n |-> x[i]]
    BY <1>1
  <2>2. QED
    BY <1>1, <2>1
<1>3. /\ b \in Seq(A) /\ Len(b) = k /\ \A i \in 1 .. k : b[i] = x[n + i]
  <2>1. b = [i \in 1 .. k |-> x[n + i]]
    BY <1>1
  <2>2. k \in Nat /\ \A i \in 1 .. k : n + i \in 1 .. Len(x)
    BY <1>1
  <2> HIDE DEF b, k
  <2>3. b \in [1 .. k -> A]
    BY <1>1, <2>1, <2>2
  <2>4. b \in Seq(A) /\ Len(b) = k
    BY <2>2, <2>3
  <2>5. QED
    BY <2>1, <2>3, <2>4
<1> HIDE DEF a, b
<1>4. a \o b = x
  <2>1. /\ a \o b \in Seq(A) /\ Len(a \o b) = n + k
        /\ \A i \in 1 .. n + k : (a \o b)[i] = IF i <= n THEN a[i] ELSE b[i - n]
    BY <1>2, <1>3, ConcatProperties
  <2>2. n + k = Len(x) /\ k \in Nat
    BY <1>1
  <2>3. ASSUME NEW i \in 1 .. Len(x) PROVE (a \o b)[i] = x[i]
    <3>1. CASE i <= n
      BY <1>1, <1>2, <2>1, <2>2, <3>1
    <3>2. CASE ~(i <= n)
      <4>1. i - n \in 1 .. k /\ n + (i - n) = i
        BY <1>1, <2>2, <3>2
      <4>2. QED
        BY <1>3, <2>1, <2>2, <3>2, <4>1
    <3>3. QED
      BY <3>1, <3>2
  <2>4. QED
    BY <1>1, <2>1, <2>2, <2>3, SeqEqual
<1>5. n = Len(x) => a = x
  BY <1>1, <1>2, SeqEqual
<1>6. QED
  BY <1>2, <1>3, <1>4, <1>5 DEF a, b

-----------------------------------------------------------------------------
(* The routines.                                                           *)

\* tty_handle: the reader gets what it asked for and the rest stays in front.
LEMMA HandleKeeps ==
    ASSUME NEW mb, NEW t, Right(mb, t), t.requests # <<>>, t.inputs # <<>>
    PROVE  Right(mb, tty_handle(t)) /\ tty_handle(t).requests = Tail(t.requests)
<1> DEFINE tr   == Head(t.requests)
           line == Head(t.inputs)
           n    == IF Len(line) > tr.size THEN tr.size ELSE Len(line)
           rest == Tail(t.inputs)
           a    == SubSeq(line, 1, n)
           b    == SubSeq(line, n + 1, Len(line))
           h    == tty_handle(t)
           cl   == [t.client EXCEPT ![tr.src] = IF @ = "waiting" THEN "idle" ELSE @]
<1>1. /\ t \in States /\ t.requests \in Seq(Request) /\ t.inputs \in Seq(Seq(CharSet))
      /\ t.got \in Seq(CharSet) /\ t.client \in [Clients -> {"idle", "waiting", "dead"}]
      /\ mb \in Seq(Request) /\ Once(mb) /\ Once(t.requests)
  BY DEF Right, States, Queued
<1>2. /\ Tail(t.requests) \in Seq(Request) /\ Once(Tail(t.requests)) /\ tr \in Request
      /\ Asks(t.requests, tr.src)
      /\ \A c : Asks(Tail(t.requests), c) <=> Asks(t.requests, c) /\ c # tr.src
  BY <1>1, TailAsks
<1>3. tr.src \in Clients /\ tr.size \in Nat
  BY <1>2 DEF Request
<1>4. line \in Seq(CharSet) /\ rest \in Seq(Seq(CharSet)) /\ t.inputs = <<line>> \o rest
      /\ Len(line) \in Nat
  BY <1>1
<1>5. n \in 0 .. Len(line)
  BY <1>3, <1>4
<1>6. /\ h.requests = Tail(t.requests) /\ h.inputs = Leftover(line, n, rest) /\ h.buf = t.buf
      /\ h.client = cl /\ h.typed = t.typed /\ h.got = t.got \o a /\ h.reader = tr.src
      /\ h = [requests |-> h.requests, inputs |-> h.inputs, buf |-> h.buf, client |-> h.client,
              typed |-> h.typed, got |-> h.got, reader |-> h.reader]
  <2> DEFINE u == Tail(t.requests)
             v == Leftover(line, n, rest)
             w == t.got \o a
             x == tr.src
  <2>1. t = [requests |-> t.requests, inputs |-> t.inputs, buf |-> t.buf, client |-> t.client,
             typed |-> t.typed, got |-> t.got, reader |-> t.reader]
    BY <1>1 DEF States
  <2>2. h = [[t EXCEPT !.client[x] = IF @ = "waiting" THEN "idle" ELSE @] EXCEPT
                !.requests = u, !.inputs = v, !.got = w, !.reader = x]
    BY <2>1 DEF tty_handle, tty_respond
  <2> HIDE DEF u, v, w, h, x
  <2>3. h = [requests |-> u, inputs |-> v, buf |-> t.buf,
             client |-> [t.client EXCEPT ![x] = IF @ = "waiting" THEN "idle" ELSE @],
             typed |-> t.typed, got |-> w, reader |-> x]
    BY <2>1, <2>2
  <2>4. QED
    BY <2>3 DEF u, v, w, x
<1> HIDE DEF h, tr, line, n, rest
<1>7. a \in Seq(CharSet) /\ b \in Seq(CharSet) /\ a \o b = line /\ (n = Len(line) => a = line)
  BY <1>4, <1>5, CutLine
<1> HIDE DEF a
<1>8. h.inputs \in Seq(Seq(CharSet))
  <2>1. CASE n < Len(line)
    <3>1. h.inputs = <<b>> \o rest
      BY <1>6, <2>1 DEF Leftover
    <3> HIDE DEF b
    <3>2. QED
      BY <1>4, <1>7, <3>1
  <2>2. CASE ~(n < Len(line))
    BY <1>4, <1>6, <2>2 DEF Leftover
  <2>3. QED
    BY <2>1, <2>2
<1>9. cl \in [Clients -> {"idle", "waiting", "dead"}] /\ t.got \o a \in Seq(CharSet)
  BY <1>1, <1>3, <1>7
<1>10. h \in States
  BY <1>1, <1>2, <1>3, <1>6, <1>8, <1>9 DEF States
<1>11. Queued(mb, h.requests, h.client)
  <2>1. ASSUME NEW c \in Clients
        PROVE  /\ ~(Asks(mb, c) /\ Asks(h.requests, c))
               /\ h.client[c] = "idle" => ~Asks(mb, c) /\ ~Asks(h.requests, c)
               /\ h.client[c] = "waiting" => Asks(mb, c) \/ Asks(h.requests, c)
    <3>1. /\ ~(Asks(mb, c) /\ Asks(t.requests, c))
          /\ t.client[c] = "idle" => ~Asks(mb, c) /\ ~Asks(t.requests, c)
          /\ t.client[c] = "waiting" => Asks(mb, c) \/ Asks(t.requests, c)
      BY DEF Right, Queued
    <3>2. CASE c = tr.src
      <4>1. h.client[c] # "waiting"
        BY <1>1, <1>3, <1>6, <3>2
      <4>2. QED
        BY <1>2, <1>6, <3>1, <3>2, <4>1
    <3>3. CASE c # tr.src
      <4>1. h.client[c] = t.client[c]
        BY <1>1, <1>3, <1>6, <3>3
      <4>2. QED
        BY <1>2, <1>6, <3>1, <3>3, <4>1
    <3>4. QED
      BY <3>2, <3>3
  <2>2. QED
    BY <1>1, <1>2, <1>6, <2>1 DEF Queued
<1>12. Ordered(h)
  <2>1. t.got \o FlattenSeq(t.inputs) \o t.buf = t.typed
    BY DEF Right, Ordered
  <2> DEFINE r == FlattenSeq(rest)
  <2>2. FlattenSeq(t.inputs) = line \o r
    BY <1>4, FlattenCons
  <2>3. r \in Seq(CharSet)
    BY <1>4, <1>7, FlattenAppend
  <2>4. h.got \o FlattenSeq(h.inputs) = t.got \o (line \o r)
    <3>1. CASE n < Len(line)
      <4>1. h.inputs = <<b>> \o rest
        BY <1>6, <3>1 DEF Leftover
      <4> HIDE DEF b
      <4>2. FlattenSeq(h.inputs) = b \o r
        BY <1>4, <1>7, <4>1, FlattenCons
      <4> HIDE DEF r
      <4>3. (t.got \o a) \o (b \o r) = t.got \o ((a \o b) \o r)
        <5>1. t.got \in Seq(CharSet) /\ a \in Seq(CharSet) /\ b \in Seq(CharSet) /\ r \in Seq(CharSet)
          BY <1>1, <1>7, <2>3
        <5>2. \A x, y, z \in Seq(CharSet) : (x \o y) \o z = x \o (y \o z)
          BY ConcatAssociative
        <5>3. b \o r \in Seq(CharSet)
          BY <5>1
        <5>4. (t.got \o a) \o (b \o r) = t.got \o (a \o (b \o r))
          BY <5>1, <5>2, <5>3
        <5>5. a \o (b \o r) = (a \o b) \o r
          BY <5>1, <5>2
        <5>6. QED
          BY <5>4, <5>5
      <4>4. QED
        BY <1>6, <1>7, <4>2, <4>3
    <3>2. CASE ~(n < Len(line))
      <4>1. h.inputs = rest /\ a = line
        BY <1>4, <1>5, <1>6, <1>7, <3>2 DEF Leftover
      <4> HIDE DEF r
      <4>2. \A x, y, z \in Seq(CharSet) : (x \o y) \o z = x \o (y \o z)
        BY ConcatAssociative
      <4>3. (t.got \o a) \o r = t.got \o (a \o r)
        BY <1>1, <1>7, <2>3, <4>2
      <4>4. QED
        BY <1>6, <4>1, <4>3 DEF r
    <3>3. QED
      BY <3>1, <3>2
  <2>5. QED
    BY <1>6, <2>1, <2>2, <2>4 DEF Ordered
<1>13. QED
  BY <1>1, <1>6, <1>10, <1>11, <1>12 DEF Right, h

\* The end of a line: what was typed comes behind the lines before it.
LEMMA EnqueueKeeps ==
    ASSUME NEW mb, NEW t, Right(mb, t)
    PROVE  Right(mb, Enqueue(t)) /\ Enqueue(t).requests = t.requests
<1> DEFINE h == Enqueue(t)
<1>1. /\ t \in States /\ t.inputs \in Seq(Seq(CharSet)) /\ t.buf \in Seq(CharSet)
      /\ t.got \in Seq(CharSet)
  BY DEF Right, States
<1>2. /\ h.requests = t.requests /\ h.inputs = Append(t.inputs, t.buf) /\ h.buf = <<>>
      /\ h.client = t.client /\ h.typed = t.typed /\ h.got = t.got /\ h \in States
  <2> DEFINE x == Append(t.inputs, t.buf)
             y == <<>>
  <2>1. x \in Seq(Seq(CharSet)) /\ y \in Seq(CharSet) /\ h = [t EXCEPT !.inputs = x, !.buf = y]
    BY <1>1 DEF Enqueue
  <2> HIDE DEF x, y, h
  <2>2. /\ h.requests = t.requests /\ h.inputs = x /\ h.buf = y
        /\ h.client = t.client /\ h.typed = t.typed /\ h.got = t.got /\ h \in States
    BY <1>1, <2>1 DEF States
  <2>3. QED
    BY <2>2 DEF x, y
<1> HIDE DEF h
<1>3. Ordered(h)
  <2> DEFINE r == FlattenSeq(t.inputs)
  <2>1. FlattenSeq(h.inputs) = r \o t.buf /\ r \in Seq(CharSet)
    BY <1>1, <1>2, FlattenAppend
  <2>2. t.got \o r \o t.buf = t.typed
    BY DEF Right, Ordered
  <2> HIDE DEF r
  <2>3. \A x, y, z \in Seq(CharSet) : (x \o y) \o z = x \o (y \o z)
    BY ConcatAssociative
  <2>4. t.got \o (r \o t.buf) = t.typed
    BY <1>1, <2>1, <2>2, <2>3
  <2>5. t.typed \in Seq(CharSet) /\ t.typed \o <<>> = t.typed
    BY <1>1 DEF States
  <2>6. QED
    BY <1>2, <2>1, <2>4, <2>5 DEF Ordered
<1>4. QED
  BY <1>2, <1>3 DEF Right, h

\* A character typed.
LEMMA TypeKeeps ==
    ASSUME NEW mb, NEW t, Right(mb, t), NEW c \in CharSet
    PROVE  Right(mb, Type(t, c)) /\ Type(t, c).requests = t.requests
<1> DEFINE h == Type(t, c)
<1>1. /\ t \in States /\ t.inputs \in Seq(Seq(CharSet)) /\ t.buf \in Seq(CharSet)
      /\ t.got \in Seq(CharSet) /\ t.typed \in Seq(CharSet) /\ <<c>> \in Seq(CharSet)
  BY DEF Right, States
<1>2. /\ h.requests = t.requests /\ h.inputs = t.inputs /\ h.buf = t.buf \o <<c>>
      /\ h.client = t.client /\ h.typed = t.typed \o <<c>> /\ h.got = t.got /\ h \in States
  <2> DEFINE x == t.buf \o <<c>>
             y == t.typed \o <<c>>
  <2>1. x = Append(t.buf, c) /\ y = Append(t.typed, c) /\ x \in Seq(CharSet) /\ y \in Seq(CharSet)
    BY <1>1
  <2>2. h = [t EXCEPT !.buf = x, !.typed = y]
    BY <2>1 DEF Type
  <2> HIDE DEF x, y, h
  <2>3. /\ h.requests = t.requests /\ h.inputs = t.inputs /\ h.buf = x
        /\ h.client = t.client /\ h.typed = y /\ h.got = t.got /\ h \in States
    BY <1>1, <2>1, <2>2 DEF States
  <2>4. QED
    BY <2>3 DEF x, y
<1> HIDE DEF h
<1>3. Ordered(h)
  <2> DEFINE r == FlattenSeq(t.inputs)
  <2>1. r \in Seq(CharSet)
    BY <1>1, FlattenAppend
  <2>2. t.got \o r \o t.buf = t.typed
    BY DEF Right, Ordered
  <2> HIDE DEF r
  <2>3. \A x, y, z \in Seq(CharSet) : (x \o y) \o z = x \o (y \o z)
    BY ConcatAssociative
  <2>4. (t.got \o r) \o (t.buf \o <<c>>) = ((t.got \o r) \o t.buf) \o <<c>>
    <3>1. t.got \o r \in Seq(CharSet)
      BY <1>1, <2>1
    <3>2. QED
      BY <1>1, <2>3, <3>1
  <2>5. QED
    BY <1>2, <2>2, <2>4 DEF Ordered, r
<1>4. QED
  BY <1>2, <1>3 DEF Right, h

\* Backspace takes back the last character of the line that is being typed.
LEMMA EraseKeeps ==
    ASSUME NEW mb, NEW t, Right(mb, t)
    PROVE  Right(mb, Erase(t)) /\ Erase(t).requests = t.requests
<1>1. CASE t.buf = <<>>
  BY <1>1 DEF Erase
<1>2. CASE t.buf # <<>>
  <2> DEFINE h == Erase(t)
             n == Len(t.buf)
             x == SubSeq(t.buf, 1, n - 1)
             c == SubSeq(t.buf, n, n)
             y == Front(t.typed)
             r == FlattenSeq(t.inputs)
             w == t.got \o r
  <2>1. /\ t \in States /\ t.inputs \in Seq(Seq(CharSet)) /\ t.buf \in Seq(CharSet)
        /\ t.got \in Seq(CharSet) /\ t.typed \in Seq(CharSet)
    BY DEF Right, States
  <2>2. n \in Nat /\ n > 0 /\ n - 1 \in 0 .. n /\ (n - 1) + 1 = n
    BY <1>2, <2>1
  <2>3. x \in Seq(CharSet) /\ c \in Seq(CharSet) /\ x \o c = t.buf
    BY <2>1, <2>2, CutLine
  <2>4. Len(c) = 1
    BY <2>1, <2>2
  <2>5. w \in Seq(CharSet) /\ t.typed = w \o t.buf
    <3>1. r \in Seq(CharSet)
      BY <2>1, FlattenAppend
    <3> HIDE DEF r
    <3>2. w \in Seq(CharSet)
      BY <2>1, <3>1
    <3>3. QED
      BY <3>2 DEF Right, Ordered, r
  <2> HIDE DEF w
  <2>6. y = w \o x
    <3>0. c \in Seq(CharSet) /\ Len(c) = 1
      BY <2>3, <2>4
    <3> HIDE DEF x, c
    <3>1. \A a, b, d \in Seq(CharSet) : (a \o b) \o d = a \o (b \o d)
      BY ConcatAssociative
    <3>2. t.typed = (w \o x) \o c
      <4>1. t.typed = w \o (x \o c)
        BY <2>3, <2>5
      <4>2. (w \o x) \o c = w \o (x \o c)
        BY <2>3, <2>5, <3>1
      <4>3. QED
        BY <4>1, <4>2
    <3> DEFINE z == w \o x
    <3>3. z \in Seq(CharSet) /\ t.typed = z \o c
      BY <2>3, <2>5, <3>2
    <3> HIDE DEF z
    <3>4. Front(z \o c) = z
      <4>1. /\ z \o c \in Seq(CharSet) /\ Len(z \o c) = Len(z) + 1 /\ Len(z) \in Nat
            /\ \A i \in 1 .. Len(z) : (z \o c)[i] = z[i]
        <5>1. c \in Seq(CharSet) /\ Len(c) = 1 /\ z \in Seq(CharSet)
          BY <3>0, <3>3
        <5>2. QED
          BY <5>1, ConcatProperties
      <4>2. Front(z \o c) = SubSeq(z \o c, 1, Len(z))
        BY <4>1 DEF Front
      <4>3. SubSeq(z \o c, 1, Len(z)) = [i \in 1 .. Len(z) |-> (z \o c)[i]]
        BY <4>1
      <4>4. [i \in 1 .. Len(z) |-> (z \o c)[i]] = z
        BY <3>3, <4>1
      <4>5. QED
        BY <4>2, <4>3, <4>4
    <3>5. QED
      BY <3>3, <3>4 DEF z
  <2>7. y \in Seq(CharSet)
    BY <2>3, <2>5, <2>6
  <2>8. /\ h.requests = t.requests /\ h.inputs = t.inputs /\ h.buf = x
        /\ h.client = t.client /\ h.typed = y /\ h.got = t.got /\ h \in States
    <3>1. h = [t EXCEPT !.buf = x, !.typed = y]
      BY <1>2 DEF Erase, Front
    <3> HIDE DEF h, x, y
    <3>2. QED
      BY <2>1, <2>3, <2>7, <3>1 DEF States
  <2> HIDE DEF h
  <2>9. Ordered(h)
    BY <2>6, <2>8 DEF Ordered, w
  <2>10. QED
    BY <2>8, <2>9 DEF Right, h
<1>3. QED
  BY <1>1, <1>2

\* <ctrl>C: some clients are dead afterwards.
LEMMA InterruptedKeeps ==
    ASSUME TtyAssumption, NEW mb, NEW t, Right(mb, t)
    PROVE  Right(mb, Interrupted(t)) /\ Interrupted(t).requests = t.requests
<1> DEFINE h == Interrupted(t)
           x == [c \in Clients |-> IF c \in Interruptable THEN "dead" ELSE t.client[c]]
<1>1. t \in States /\ t.client \in [Clients -> {"idle", "waiting", "dead"}]
  BY DEF Right, States
<1>2. x \in [Clients -> {"idle", "waiting", "dead"}]
      /\ \A c \in Clients : x[c] = "dead" \/ x[c] = t.client[c]
  BY <1>1
<1>3. /\ h.requests = t.requests /\ h.inputs = t.inputs /\ h.buf = t.buf
      /\ h.client = x /\ h.typed = t.typed /\ h.got = t.got /\ h \in States
  <2>1. h = [t EXCEPT !.client = x]
    BY <1>1 DEF Interrupted, States
  <2> HIDE DEF h, x
  <2>2. QED
    BY <1>1, <1>2, <2>1 DEF States
<1> HIDE DEF h, x
<1>4. Queued(mb, h.requests, h.client)
  BY <1>2, <1>3 DEF Right, Queued
<1>5. Ordered(h)
  BY <1>3 DEF Right, Ordered
<1>6. QED
  BY <1>3, <1>4, <1>5 DEF Right, h

\* A key, whichever it is.
LEMMA KeyKeeps ==
    ASSUME TtyAssumption, NEW mb, NEW t, Right(mb, t), NEW key \in Keys
    PROVE  Right(mb, Key(t, key)) /\ Key(t, key).requests = t.requests
<1>1. CASE key = "ctrlC"
  BY <1>1, InterruptedKeeps DEF Key, Newline
<1>2. CASE key = "ctrlD"
  BY <1>2, EnqueueKeeps DEF Key, Newline
<1>3. CASE key = "backspace"
  BY <1>3, EraseKeeps DEF Key, Newline
<1>4. CASE key = Newline /\ key \notin {"ctrlC", "ctrlD", "backspace"}
  <2>1. key \in CharSet
    BY <1>4 DEF CharSet
  <2>2. Right(mb, Type(t, key)) /\ Type(t, key).requests = t.requests
    BY <2>1, TypeKeeps
  <2>3. QED
    BY <1>4, <2>2, EnqueueKeeps DEF Key
<1>5. CASE key \notin {Newline, "ctrlC", "ctrlD", "backspace"}
  <2>1. key \in CharSet
    BY <1>5 DEF CharSet, Keys
  <2>2. Right(mb, Type(t, key)) /\ Type(t, key).requests = t.requests
    BY <2>1, TypeKeeps
  <2>3. QED
    BY <1>5, <2>2 DEF Key
<1>6. QED
  BY <1>1, <1>2, <1>3, <1>4, <1>5

\* The keys of an interrupt, one after the other.
LEMMA KeyedKeeps ==
    ASSUME TtyAssumption, NEW mb, NEW t, Right(mb, t), NEW chunk, NEW n \in Nat,
           \A i \in 1 .. n : chunk[i] \in Keys
    PROVE  Right(mb, Keyed(t, chunk, n)) /\ Keyed(t, chunk, n).requests = t.requests
<1> DEFINE X == {x \in States : Right(mb, x) /\ x.requests = t.requests}
           G == [x \in X |-> [i \in 1 .. n |-> Key(x, chunk[i])]]
           f == CHOOSE g : g = [i \in 0 .. n |-> IF i = 0 THEN t ELSE Key(g[i - 1], chunk[i])]
           S == [i \in 0 .. n |-> X]
<1>1. Keyed(t, chunk, n) = f[n]
  BY DEF Keyed
<1>2. t \in X
  BY DEF Right
<1>3. ASSUME NEW x \in X, NEW i \in 1 .. n PROVE Key(x, chunk[i]) \in X
  <2>1. Right(mb, Key(x, chunk[i])) /\ Key(x, chunk[i]).requests = t.requests
    BY KeyKeeps
  <2>2. QED
    BY <2>1 DEF Right
<1> HIDE DEF X
<1>4. G \in LoopSteps(n, X)
  BY <1>3 DEF LoopSteps
<1>5. \E g : LoopRuns(g, n, X, t, G)
  <2> HIDE DEF G
  <2> QED
    BY <1>2, <1>4, LoopExists
<1>6. f = [i \in 0 .. n |-> IF i = 0 THEN t ELSE Key(f[i - 1], chunk[i])]
  <2>1. PICK g : /\ g \in [0 .. n -> X] /\ g[0] = t
                 /\ \A i \in 1 .. n : g[i] = G[g[i - 1]][i]
    BY <1>5 DEF LoopRuns
  <2>2. \A i \in 1 .. n : i - 1 \in 0 .. n /\ g[i - 1] \in X
    BY <2>1
  <2>3. \A i \in 1 .. n : g[i] = Key(g[i - 1], chunk[i])
    BY <2>1, <2>2
  <2>4. g = [i \in 0 .. n |-> IF i = 0 THEN t ELSE Key(g[i - 1], chunk[i])]
    BY <2>1, <2>3
  <2>5. QED
    BY <2>4
<1> HIDE DEF f, G
<1>7. f[0] \in S[0]
  BY <1>2, <1>6
<1>8. ASSUME NEW i \in 1 .. n, f[i - 1] \in S[i - 1] PROVE f[i] \in S[i]
  <2>1. f[i] = Key(f[i - 1], chunk[i]) /\ i - 1 \in 0 .. n /\ i \in 0 .. n
    BY <1>6
  <2>2. f[i - 1] \in X
    BY <1>8, <2>1
  <2>3. QED
    BY <1>3, <2>1, <2>2
<1>9. f[n] \in S[n]
  <2> HIDE DEF S
  <2> QED
    BY <1>7, <1>8, LoopInvariant
<1>10. QED
  BY <1>1, <1>9 DEF X

\* The line for a reader at the end of an interrupt.
LEMMA ServeOneKeeps ==
    ASSUME NEW mb, NEW t, Right(mb, t)
    PROVE  /\ Right(mb, ServeOne(t))
           /\ \/ ServeOne(t).requests = t.requests
              \/ t.requests # <<>> /\ ServeOne(t).requests = Tail(t.requests)
  BY HandleKeeps DEF ServeOne

\* A request of the mailbox is answered at once.
LEMMA OtherKeeps ==
    ASSUME NEW mb, NEW t, Right(mb, t), mb # <<>>
    PROVE  Right(Tail(mb), tty_other(t, Head(mb))) /\ tty_other(t, Head(mb)).requests = t.requests
<1> DEFINE c == Head(mb).src
           x == [t.client EXCEPT ![c] = IF @ = "waiting" THEN "idle" ELSE @]
           h == tty_other(t, Head(mb))
<1>1. /\ t \in States /\ t.client \in [Clients -> {"idle", "waiting", "dead"}]
      /\ mb \in Seq(Request) /\ Once(mb)
  BY DEF Right, States, Queued
<1>2. /\ Tail(mb) \in Seq(Request) /\ Once(Tail(mb)) /\ c \in Clients /\ Asks(mb, c)
      /\ \A d : Asks(Tail(mb), d) <=> Asks(mb, d) /\ d # c
  BY <1>1, TailAsks DEF Request
<1> HIDE DEF c
<1>3. /\ x \in [Clients -> {"idle", "waiting", "dead"}] /\ x[c] # "waiting"
      /\ \A d \in Clients : d # c => x[d] = t.client[d]
  BY <1>1, <1>2
<1>4. /\ h.requests = t.requests /\ h.inputs = t.inputs /\ h.buf = t.buf
      /\ h.client = x /\ h.typed = t.typed /\ h.got = t.got /\ h \in States
  <2>1. h = [t EXCEPT !.client = x]
    BY <1>1 DEF tty_other, tty_respond, States, c
  <2> HIDE DEF h, x
  <2>2. QED
    BY <1>1, <1>3, <2>1 DEF States
<1> HIDE DEF h, x
<1>5. Queued(Tail(mb), h.requests, h.client)
  <2>1. Once(t.requests)
        /\ \A d \in Clients : /\ ~(Asks(mb, d) /\ Asks(t.requests, d))
                              /\ t.client[d] = "idle" => ~Asks(mb, d) /\ ~Asks(t.requests, d)
                              /\ t.client[d] = "waiting" => Asks(mb, d) \/ Asks(t.requests, d)
    BY DEF Right, Queued
  <2>2. QED
    BY <1>2, <1>3, <1>4, <2>1 DEF Queued
<1>6. Ordered(h)
  BY <1>4 DEF Right, Ordered
<1>7. QED
  BY <1>2, <1>4, <1>5, <1>6 DEF Right, h

\* A read joins the queue of readers, and may be served at once.
LEMMA ReadKeeps ==
    ASSUME NEW mb, NEW t, Right(mb, t), mb # <<>>
    PROVE  /\ Right(Tail(mb), tty_read(t, Head(mb)))
           /\ LET q == Append(t.requests, Head(mb))
              IN  tty_read(t, Head(mb)).requests \in {q, Tail(q)}
<1> DEFINE req == Head(mb)
           c == req.src
           q == Append(t.requests, req)
           h == [t EXCEPT !.requests = q]
<1>1. /\ t \in States /\ t.requests \in Seq(Request) /\ mb \in Seq(Request) /\ Once(mb)
      /\ Once(t.requests)
  BY DEF Right, States, Queued
<1>2. /\ Tail(mb) \in Seq(Request) /\ Once(Tail(mb)) /\ req \in Request /\ Asks(mb, c)
      /\ \A d : Asks(Tail(mb), d) <=> Asks(mb, d) /\ d # c
  BY <1>1, TailAsks
<1>3. c \in Clients
  BY <1>2 DEF Request
<1>4. \A d \in Clients : /\ ~(Asks(mb, d) /\ Asks(t.requests, d))
                         /\ t.client[d] = "idle" => ~Asks(mb, d) /\ ~Asks(t.requests, d)
                         /\ t.client[d] = "waiting" => Asks(mb, d) \/ Asks(t.requests, d)
  BY DEF Right, Queued
<1>5. q \in Seq(Request) /\ Once(q) /\ \A d : Asks(q, d) <=> Asks(t.requests, d) \/ d = c
  <2>1. ~Asks(t.requests, c)
    BY <1>2, <1>3, <1>4
  <2> HIDE DEF req
  <2>2. QED
    BY <1>1, <1>2, <2>1, AppendAsks
<1> HIDE DEF q, c
<1>6. /\ h.requests = q /\ h.inputs = t.inputs /\ h.buf = t.buf
      /\ h.client = t.client /\ h.typed = t.typed /\ h.got = t.got /\ h \in States
  BY <1>1, <1>5 DEF States
<1>7. tty_read(t, req) = IF h.inputs # <<>> THEN tty_handle(h) ELSE h
  BY <1>1 DEF tty_read, q, States
<1> HIDE DEF h
<1>8. Queued(Tail(mb), h.requests, h.client)
  BY <1>1, <1>2, <1>4, <1>5, <1>6 DEF Queued
<1>9. Ordered(h)
  BY <1>6 DEF Right, Ordered
<1>10. Right(Tail(mb), h)
  BY <1>2, <1>6, <1>8, <1>9 DEF Right
<1>11. h.requests # <<>>
  BY <1>1, <1>2, <1>6 DEF q
<1>12. CASE h.inputs # <<>>
  BY <1>6, <1>7, <1>10, <1>11, <1>12, HandleKeeps DEF q
<1>13. CASE h.inputs = <<>>
  BY <1>6, <1>7, <1>10, <1>13 DEF q
<1>14. QED
  BY <1>12, <1>13

-----------------------------------------------------------------------------
(* The actions.                                                            *)

\* What a routine leaves is what the variables hold afterwards.
LEMMA Installed ==
    ASSUME NEW t \in States, Install(t)
    PROVE  T' = t
<1>1. t = [requests |-> t.requests, inputs |-> t.inputs, buf |-> t.buf, client |-> t.client,
           typed |-> t.typed, got |-> t.got, reader |-> t.reader]
  BY DEF States
<1>2. T' = [requests |-> requests', inputs |-> inputs', buf |-> buf', client |-> client',
            typed |-> typed', got |-> got', reader |-> reader']
  BY DEF T
<1>3. QED
  BY <1>1, <1>2 DEF Install

\* The <ctrl>C of an interrupt is one of its keys.
LEMMA CtrlCIsAKey ==
    ASSUME NEW chunk, NEW n \in Nat, chunk \in [1 .. n -> Keys], FirstCtrlC(chunk) # 0
    PROVE  FirstCtrlC(chunk) \in 1 .. n
<1> DEFINE I == {i \in 1 .. n : chunk[i] = "ctrlC"}
<1>1. chunk \in Seq(Keys) /\ Len(chunk) = n
  BY SeqDef
<1>2. FirstCtrlC(chunk) = IF I # {} THEN CHOOSE x \in I : \A y \in I : x <= y ELSE 0
  BY <1>1 DEF FirstCtrlC, SelectInSeq, Min
<1>3. I # {} /\ I \subseteq Nat
  BY <1>2
<1>4. \E x \in I : \A y \in I : x <= y
  <2> HIDE DEF I
  <2> QED
    BY <1>3, LeastNat
<1>5. QED
  BY <1>2, <1>3, <1>4

\* What the queue of readers may become in a step: it loses its first request,
\* gets a last one, or both.
QueueMoves(q, r) ==
    \/ r = q
    \/ q # <<>> /\ r = Tail(q)
    \/ r # <<>> /\ Front(r) = q
    \/ q # <<>> /\ r # <<>> /\ Front(r) = Tail(q)

\* The interrupt handler.
LEMMA DeliverKeeps ==
    ASSUME TtyAssumption, IInv, NEW chunk \in Chunks, NEW cur, tty_deliver(chunk, cur)
    PROVE  IInv' /\ QueueMoves(requests, requests')
<1> DEFINE k == FirstCtrlC(chunk)
           m == Len(chunk)
<1>1. PICK n \in 1 .. MaxChunk : chunk \in [1 .. n -> Keys]
  BY DEF Chunks
<1>2. n \in Nat /\ m = n /\ \A i \in 1 .. n : chunk[i] \in Keys
  BY <1>1 DEF TtyAssumption
<1>3. Right(mailbox, T) /\ T.requests = requests /\ mailbox' = mailbox
  BY DEF IInv, T, tty_deliver
<1>4. CASE KillsCurrent(chunk, cur)
  <2> DEFINE t == Keyed(T, chunk, k)
  <2>1. k # 0
    BY <1>4 DEF KillsCurrent
  <2>2. k \in 1 .. n
    BY <1>1, <1>2, <2>1, CtrlCIsAKey
  <2>3. k \in Nat /\ \A i \in 1 .. k : chunk[i] \in Keys
    BY <1>2, <2>2
  <2> HIDE DEF k
  <2>4. Right(mailbox, t) /\ t.requests = requests
    BY <1>3, <2>3, KeyedKeeps
  <2>5. Install(t)
    BY <1>4 DEF tty_deliver, k
  <2> HIDE DEF t
  <2>6. T' = t
    BY <2>4, <2>5, Installed DEF Right
  <2>7. requests' = requests
    BY <2>4, <2>5 DEF Install
  <2>8. QED
    BY <1>3, <2>4, <2>6, <2>7 DEF IInv, QueueMoves
<1>5. CASE ~KillsCurrent(chunk, cur)
  <2> DEFINE u == Keyed(T, chunk, m)
             t == ServeOne(u)
  <2>1. Right(mailbox, u) /\ u.requests = requests
    <3> HIDE DEF m
    <3> QED
      BY <1>2, <1>3, KeyedKeeps
  <2>2. Install(t)
    BY <1>5 DEF tty_deliver
  <2> HIDE DEF u
  <2>3. Right(mailbox, t)
        /\ (t.requests = requests \/ (requests # <<>> /\ t.requests = Tail(requests)))
    BY <2>1, ServeOneKeeps
  <2> HIDE DEF t
  <2>4. T' = t
    BY <2>2, <2>3, Installed DEF Right
  <2>5. requests' = t.requests
    BY <2>2 DEF Install
  <2>6. QED
    BY <1>3, <2>3, <2>4, <2>5 DEF IInv, QueueMoves
<1>6. QED
  BY <1>4, <1>5

\* A request of a client that has none.
LEMMA CallKeeps ==
    ASSUME TtyAssumption, IInv, NEW c \in Clients, NEW op \in {"read", "other"},
           NEW n \in 0 .. MaxRead, ClientCall(c, op, n)
    PROVE  IInv' /\ requests' = requests
<1> DEFINE x == [src |-> c, op |-> op, size |-> n]
           mb == Append(mailbox, x)
           cl == [client EXCEPT ![c] = "waiting"]
           t == [T EXCEPT !.client = cl]
<1>1. /\ T \in States /\ mailbox \in Seq(Request) /\ T.client = client /\ T.requests = requests
      /\ Queued(mailbox, requests, client) /\ Ordered(T)
      /\ client \in [Clients -> {"idle", "waiting", "dead"}]
  BY DEF IInv, Right, T, States
<1>2. /\ x \in Request /\ x.src = c /\ client[c] = "idle" /\ mailbox' = mb /\ client' = cl
      /\ requests' = requests
  BY DEF ClientCall, Request
<1>3. ~Asks(mailbox, c) /\ ~Asks(requests, c) /\ Once(mailbox) /\ Once(requests)
  BY <1>1, <1>2 DEF Queued
<1>4. mb \in Seq(Request) /\ Once(mb) /\ \A d : Asks(mb, d) <=> Asks(mailbox, d) \/ d = c
  <2> HIDE DEF x
  <2> QED
    BY <1>1, <1>2, <1>3, AppendAsks
<1>5. /\ cl \in [Clients -> {"idle", "waiting", "dead"}] /\ cl[c] = "waiting"
      /\ \A d \in Clients : d # c => cl[d] = client[d]
  BY <1>1
<1>6. T' = t
  BY <1>2 DEF ClientCall, T
<1> HIDE DEF mb, cl
<1>7. /\ t \in States /\ t.requests = requests /\ t.client = cl /\ t.got = T.got
      /\ t.inputs = T.inputs /\ t.buf = T.buf /\ t.typed = T.typed
  BY <1>1, <1>5 DEF States
<1> HIDE DEF t
<1>8. Queued(mb, t.requests, t.client)
  BY <1>1, <1>3, <1>4, <1>5, <1>7 DEF Queued
<1>9. Ordered(t)
  BY <1>1, <1>7 DEF Ordered
<1>10. QED
  BY <1>2, <1>4, <1>6, <1>7, <1>8, <1>9 DEF IInv, Right

\* A client that is gone.
LEMMA DiesKeeps ==
    ASSUME IInv, NEW c \in Clients, ClientDies(c)
    PROVE  IInv' /\ requests' = requests
<1> DEFINE cl == [client EXCEPT ![c] = "dead"]
           t == [T EXCEPT !.client = cl]
<1>1. /\ T \in States /\ mailbox \in Seq(Request) /\ T.client = client /\ T.requests = requests
      /\ Queued(mailbox, requests, client) /\ Ordered(T)
      /\ client \in [Clients -> {"idle", "waiting", "dead"}]
  BY DEF IInv, Right, T, States
<1>2. mailbox' = mailbox /\ client' = cl /\ requests' = requests
  BY DEF ClientDies
<1>3. /\ cl \in [Clients -> {"idle", "waiting", "dead"}]
      /\ \A d \in Clients : cl[d] = "dead" \/ cl[d] = client[d]
  BY <1>1
<1>4. T' = t
  BY <1>2 DEF ClientDies, T
<1> HIDE DEF cl
<1>5. /\ t \in States /\ t.requests = requests /\ t.client = cl /\ t.got = T.got
      /\ t.inputs = T.inputs /\ t.buf = T.buf /\ t.typed = T.typed
  BY <1>1, <1>3 DEF States
<1> HIDE DEF t
<1>6. Queued(mailbox, t.requests, t.client)
  BY <1>1, <1>3, <1>5 DEF Queued
<1>7. Ordered(t)
  BY <1>1, <1>5 DEF Ordered
<1>8. QED
  BY <1>1, <1>2, <1>4, <1>5, <1>6, <1>7 DEF IInv, Right

\* A round of the server.
LEMMA ServerKeeps ==
    ASSUME IInv, tty_proc
    PROVE  IInv' /\ QueueMoves(requests, requests')
<1> DEFINE req == Head(mailbox)
<1>1. /\ Right(mailbox, T) /\ T.requests = requests /\ mailbox # <<>> /\ mailbox' = Tail(mailbox)
      /\ mailbox \in Seq(Request) /\ requests \in Seq(Request)
  BY DEF IInv, T, tty_proc, Right, States
<1>2. CASE req.op = "read"
  <2> DEFINE t == tty_read(T, req)
             q == Append(requests, req)
  <2>1. Right(Tail(mailbox), t) /\ t.requests \in {q, Tail(q)}
    BY <1>1, ReadKeeps
  <2>2. Install(t)
    BY <1>2 DEF tty_proc
  <2> HIDE DEF t
  <2>3. T' = t
    BY <2>1, <2>2, Installed DEF Right
  <2>4. requests' \in {q, Tail(q)}
    BY <2>1, <2>2 DEF Install
  <2>5. QueueMoves(requests, requests')
    <3>1. req \in Request
      BY <1>1
    <3> HIDE DEF req
    <3>2. q # <<>> /\ Front(q) = requests
      <4>1. q \in Seq(Request) /\ Len(q) = Len(requests) + 1 /\ Len(requests) \in Nat
        BY <1>1, <3>1
      <4>2. Front(q) = [i \in 1 .. Len(requests) |-> q[i]]
        BY <4>1 DEF Front
      <4>3. [i \in 1 .. Len(requests) |-> q[i]] = requests
        BY <1>1, <3>1
      <4>4. QED
        BY <4>1, <4>2, <4>3
    <3>3. CASE requests = <<>>
      <4>1. Tail(q) = <<>>
        BY <3>1, <3>3
      <4>2. QED
        BY <2>4, <3>2, <3>3, <4>1 DEF QueueMoves
    <3>4. CASE requests # <<>>
      <4> DEFINE r == Tail(q)
                 p == Tail(requests)
                 N == Len(requests)
      <4>1. N \in Nat /\ N >= 1 /\ q \in Seq(Request) /\ Len(q) = N + 1
        BY <1>1, <3>1, <3>4
      <4>2. r \in Seq(Request) /\ Len(r) = N /\ \A i \in 1 .. N : r[i] = q[i + 1]
        BY <4>1
      <4>3. p \in Seq(Request) /\ Len(p) = N - 1 /\ \A i \in 1 .. N - 1 : p[i] = requests[i + 1]
        BY <1>1, <3>4
      <4>4. \A i \in 1 .. N : q[i] = requests[i]
        BY <1>1, <3>1
      <4> HIDE DEF r, p, q
      <4>5. \A i \in 1 .. N - 1 : i \in 1 .. N /\ i + 1 \in 1 .. N
        BY <4>1
      <4>6. \A i \in 1 .. N - 1 : r[i] = p[i]
        BY <4>2, <4>3, <4>4, <4>5
      <4>7. Front(r) = [i \in 1 .. N - 1 |-> r[i]]
        <5> HIDE DEF N
        <5> QED
          BY <4>1, <4>2 DEF Front
      <4>8. Front(r) = p /\ r # <<>>
        <5>1. [i \in 1 .. N - 1 |-> r[i]] = p
          <6> HIDE DEF N
          <6> QED
            BY <4>1, <4>3, <4>6
        <5>2. QED
          BY <4>1, <4>2, <4>7, <5>1
      <4>9. QED
        BY <2>4, <3>2, <3>4, <4>8 DEF QueueMoves, r, p
    <3>5. QED
      BY <3>3, <3>4
  <2>6. QED
    BY <1>1, <2>1, <2>3, <2>5 DEF IInv
<1>3. CASE req.op # "read"
  <2> DEFINE t == tty_other(T, req)
  <2>1. Right(Tail(mailbox), t) /\ t.requests = requests
    BY <1>1, OtherKeeps
  <2>2. Install(t)
    BY <1>3 DEF tty_proc
  <2> HIDE DEF t
  <2>3. T' = t
    BY <2>1, <2>2, Installed DEF Right
  <2>4. QED
    BY <1>1, <2>1, <2>2, <2>3 DEF IInv, Install, QueueMoves
<1>4. QED
  BY <1>2, <1>3

\* The server starts with empty queues.
LEMMA InitIInv ==
    ASSUME Init PROVE IInv
<1>1. T \in States /\ mailbox \in Seq(Request)
  BY DEF Init, T, States
<1>2. Queued(mailbox, T.requests, T.client)
  BY DEF Init, T, Queued, Once, Asks
<1>3. Ordered(T)
  <2>1. FlattenSeq(<<>>) = <<>>
    BY DEF FlattenSeq
  <2>2. QED
    BY <2>1 DEF Init, T, Ordered
<1>4. QED
  BY <1>1, <1>2, <1>3 DEF IInv, Right

\* Every step keeps the invariant and moves the queue of readers in order.
LEMMA StepKeeps ==
    ASSUME TtyAssumption, IInv, [Next]_vars
    PROVE  IInv' /\ QueueMoves(requests, requests')
<1>1. ASSUME NEW chunk \in Chunks, NEW cur, tty_deliver(chunk, cur)
      PROVE  IInv' /\ QueueMoves(requests, requests')
  BY <1>1, DeliverKeeps
<1>2. ASSUME NEW c \in Clients, NEW op \in {"read", "other"}, NEW n \in 0 .. MaxRead,
             ClientCall(c, op, n)
      PROVE  IInv' /\ QueueMoves(requests, requests')
  BY <1>2, CallKeeps DEF QueueMoves
<1>3. ASSUME NEW c \in Clients, ClientDies(c) PROVE IInv' /\ QueueMoves(requests, requests')
  BY <1>3, DiesKeeps DEF QueueMoves
<1>4. CASE tty_proc
  BY <1>4, ServerKeeps
<1>5. CASE UNCHANGED vars
  BY <1>5 DEF IInv, Right, T, vars, QueueMoves
<1>6. QED
  BY <1>1, <1>2, <1>3, <1>4, <1>5 DEF Next

-----------------------------------------------------------------------------
(* The theorems.                                                           *)

\* The invariant holds always.
LEMMA Inductive ==
    ASSUME TtyAssumption PROVE Spec => []IInv
<1>1. Init => IInv
  BY InitIInv
<1>2. IInv /\ [Next]_vars => IInv'
  BY StepKeeps
<1>3. QED
  BY <1>1, <1>2, PTL DEF Spec

\* The characters typed are handed out in the order of typing, each of them
\* once, and none is lost: for any clients, sizes of reads, keys and deaths
\* (tty_deliver, tty_handle).
THEOREM InputStaysInOrder ==
    ASSUME TtyAssumption PROVE Spec => []InOrder
<1>1. IInv => InOrder
  <2> SUFFICES ASSUME IInv PROVE InOrder
    OBVIOUS
  <2>1. TypeOK
    BY DEF IInv, Right, States, T, TypeOK
  <2>2. got \o FlattenSeq(inputs) \o buf = typed
    BY DEF IInv, Right, Ordered, T
  <2>3. QED
    BY <2>1, <2>2 DEF InOrder
<1>2. QED
  BY <1>1, Inductive, PTL

\* How many requests of a client a queue holds, if it holds at most one.
LEMMA CountAsks ==
    ASSUME NEW q, Once(q), NEW c
    PROVE  Cardinality({i \in DOMAIN q : q[i].src = c}) = IF Asks(q, c) THEN 1 ELSE 0
<1> DEFINE I == {i \in DOMAIN q : q[i].src = c}
<1>1. CASE Asks(q, c)
  <2>1. PICK i \in DOMAIN q : q[i].src = c
    BY <1>1 DEF Asks
  <2>2. I = {i}
    BY <2>1 DEF Once
  <2>3. QED
    BY <1>1, <2>2, FS_Singleton
<1>2. CASE ~Asks(q, c)
  <2>1. I = {}
    BY <1>2 DEF Asks
  <2>2. QED
    BY <1>2, <2>1, FS_EmptySet
<1>3. QED
  BY <1>1, <1>2

\* A client that waits has one request, in the mailbox of the server or in its
\* queue of readers, and one that does not wait has none (tty_proc, tty_handle,
\* tty_respond).
THEOREM RequestsStaySingle ==
    ASSUME TtyAssumption PROVE Spec => []OneRequestEach
<1>1. IInv => OneRequestEach
  <2> SUFFICES ASSUME IInv, NEW c \in Clients
               PROVE  /\ client[c] = "waiting" => Pending(c) = 1
                      /\ client[c] = "idle" => Pending(c) = 0
    BY DEF OneRequestEach
  <2>1. Queued(mailbox, requests, client)
    BY DEF IInv, Right, T
  <2>2. Pending(c) = (IF Asks(mailbox, c) THEN 1 ELSE 0) + (IF Asks(requests, c) THEN 1 ELSE 0)
    BY <2>1, CountAsks DEF Pending, Queued
  <2>3. QED
    BY <2>1, <2>2 DEF Queued
<1>2. QED
  BY <1>1, Inductive, PTL

\* Readers are served in the order of their arrival (tty_read, tty_handle).
THEOREM ReadersStayInOrder ==
    ASSUME TtyAssumption PROVE Spec => ReadersInOrder
<1> DEFINE Move == \/ requests' = requests
                   \/ requests # <<>> /\ requests' = Tail(requests)
                   \/ requests' # <<>> /\ Front(requests') = requests
                   \/ requests # <<>> /\ requests' # <<>> /\ Front(requests') = Tail(requests)
<1>1. IInv /\ [Next]_vars => [Move]_vars
  BY StepKeeps DEF QueueMoves
<1> HIDE DEF Move
<1>2. Spec => [][Move]_vars
  BY <1>1, Inductive, PTL DEF Spec
<1>3. QED
  BY <1>2 DEF ReadersInOrder, Move
=================================================================================
