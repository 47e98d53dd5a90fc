--------------------------- MODULE McpBoundary_proofs ---------------------------
(***************************************************************************)
(* The rolling windows of AttemptLimiter, the dictionary of its clients,   *)
(* and the MCP boundary that charges two of the windows.  In this order:   *)
(* one window by itself, all the windows under each step, the dictionary,  *)
(* the theorems of AttemptLimiter, the registry of calls, the theorems of  *)
(* McpBoundary.                                                            *)
(***************************************************************************)
EXTENDS McpBoundary, Restriction_proofs, SequenceTheorems

(* Division rounded up, as in RetryAfter.                                  *)
LEMMA RoundedUp ==
  ASSUME NEW x \in Nat, NEW d \in Nat \ {0}
  PROVE  /\ (x + d - 1) \div d \in Nat
         /\ ((x + d - 1) \div d) * d >= x
<1> DEFINE y == x + d - 1
<1>1. y \in Nat
  OBVIOUS
<1> HIDE DEF y
<1>2. y \div d \in Nat /\ y % d \in 0..(d - 1) /\ y = d * (y \div d) + (y % d)
  BY <1>1
<1> DEFINE q == y \div d
           z == d * q
<1>3. z = q * d /\ z \in Int
  BY <1>2
<1> HIDE DEF z
<1> QED
  BY <1>2, <1>3 DEF z, y

-----------------------------------------------------------------------------

(* In order of time.                                                       *)
InOrder(s) == \A i, j \in 1..Len(s) : i <= j => s[i] <= s[j]

(* Number of attempts of a deque that are outside the window at time t.    *)
Outside(s, t) == Cardinality({i \in DOMAIN s : s[i] <= t - Window})
PrunedAt(s, t) == SubSeq(s, Outside(s, t) + 1, Len(s))

(* A deque a of a window with limit l at time t.                           *)
Attempts(l, a, t) ==
  /\ a \in Seq(Nat)
  /\ InOrder(a)
  /\ \A i \in 1..Len(a) : a[i] <= t
  /\ Len(a) <= l

(* The deque is the end of the history of admissions, and what it lacks of *)
(* it is outside the window.                                               *)
Accounts(a, h, t) ==
  LET older == Len(h) - Len(a) IN
  /\ older \in Nat
  /\ \A i \in 1..Len(a) : a[i] = h[older + i]
  /\ \A i \in 1..older : h[i] + Window <= t

(* The history reaches back over one more admission than the limit, and    *)
(* those span at least the length of the window.                           *)
History(l, h) ==
  /\ h \in Seq(Nat)
  /\ Len(h) <= l + 1
  /\ Len(h) = l + 1 => h[l + 1] - h[1] >= Window

(* As long as the deque is full, no refusal has told an earlier time than  *)
(* the one at which its oldest attempt is outside.                         *)
Promised(l, a, p) ==
  /\ p \in Nat
  /\ Len(a) = l => a[1] + Window <= p

(* One window, whose limit is l. RollingWindow by itself is not inductive: *)
(* that the next admission keeps it follows from what the deque no longer  *)
(* holds.                                                                  *)
Sound(l, a, h, p, t) ==
  Attempts(l, a, t) /\ Accounts(a, h, t) /\ History(l, h) /\ Promised(l, a, p)

(* A deque in order of time loses its first attempts, those outside the    *)
(* window, and no other.                                                   *)
LEMMA PrunedFacts ==
  ASSUME NEW s \in Seq(Nat), InOrder(s), NEW t \in Nat
  PROVE  LET k == Outside(s, t) IN
         /\ k \in 0..Len(s)
         /\ PrunedAt(s, t) \in Seq(Nat)
         /\ Len(PrunedAt(s, t)) = Len(s) - k
         /\ \A i \in 1..(Len(s) - k) : PrunedAt(s, t)[i] = s[k + i]
         /\ \A i \in 1..k : s[i] + Window <= t
         /\ \A i \in (k + 1)..Len(s) : s[i] + Window > t
<1> DEFINE n == Len(s)
           P == {i \in DOMAIN s : s[i] <= t - Window}
           k == Outside(s, t)
<1> USE AttemptAssumption
<1>1. n \in Nat /\ DOMAIN s = 1..n /\ Window \in Nat
  BY DEF AttemptAssumption
<1>2. \A i \in 1..n : s[i] \in Nat
  BY <1>1
<1>3. P \in SUBSET (1..n)
  BY <1>1
<1>4. \A i \in P : \A j \in 1..i : j \in P
  <2> TAKE i \in P
  <2> TAKE j \in 1..i
  <2>1. i \in 1..n /\ j \in 1..n /\ j <= i
    BY <1>1
  <2>2. s[j] <= s[i] /\ s[i] \in Nat /\ s[j] \in Nat
    BY <2>1, <1>2 DEF InOrder
  <2> QED
    BY <1>1, <2>1, <2>2
<1>5. Cardinality(P) \in 0..n /\ P = 1..Cardinality(P)
  <2> HIDE DEF P
  <2> QED
    BY <1>1, <1>3, <1>4, InitialSegment
<1>6. k \in 0..n /\ P = 1..k
  BY <1>5 DEF Outside
<1> HIDE DEF k
<1>a. \A i \in 1..n : i \in P <=> s[i] + Window <= t
  BY <1>1, <1>2
<1> HIDE DEF P, n
<1>7. \A i \in 1..k : s[i] + Window <= t
  BY <1>1, <1>6, <1>a
<1>8. \A i \in (k + 1)..n : s[i] + Window > t
  BY <1>1, <1>2, <1>6, <1>a
<1>9. \A i \in (k + 1)..n : s[i] \in Nat
  BY <1>1, <1>2, <1>6
<1> USE DEF n
<1> DEFINE q == SubSeq(s, k + 1, n)
<1>10. /\ q \in Seq(Nat)
       /\ Len(q) = n - k
       /\ \A i \in 1..(n - k) : q[i] = s[k + i]
  <2>1. k + 1 \in Int /\ n \in Int
    BY <1>1, <1>6
  <2>2. /\ q \in Seq(Nat)
        /\ Len(q) = IF k + 1 <= n THEN n - (k + 1) + 1 ELSE 0
        /\ \A i \in 1..(n - (k + 1) + 1) : q[i] = s[k + 1 + i - 1]
    <3> HIDE DEF n
    <3> QED
      BY <1>9, <2>1, SubSeqProperties
  <2> HIDE DEF q, n
  <2> QED
    BY <1>1, <1>6, <2>2
<1>11. PrunedAt(s, t) = q
  BY Zenon DEF PrunedAt, k, n
<1>12. /\ k \in 0..n
       /\ PrunedAt(s, t) \in Seq(Nat)
       /\ Len(PrunedAt(s, t)) = n - k
       /\ \A i \in 1..(n - k) : PrunedAt(s, t)[i] = s[k + i]
       /\ \A i \in 1..k : s[i] + Window <= t
       /\ \A i \in (k + 1)..n : s[i] + Window > t
  <2> HIDE DEF q, n
  <2> QED
    BY <1>6, <1>7, <1>8, <1>10, <1>11, Zenon
<1> QED
  BY <1>12, Zenon DEF k, n

(* _prune_attempts keeps a window sound.                                   *)
LEMMA PrunedSound ==
  ASSUME NEW l \in Nat \ {0}, NEW a, NEW h, NEW p, NEW t \in Nat,
         Sound(l, a, h, p, t)
  PROVE  Sound(l, PrunedAt(a, t), h, p, t)
<1> DEFINE b == PrunedAt(a, t)
           k == Outside(a, t)
<1> USE AttemptAssumption
<1>1. Window \in Nat
  BY DEF AttemptAssumption
<1>2. a \in Seq(Nat) /\ InOrder(a) /\ h \in Seq(Nat)
  BY DEF Sound, Attempts, History
<1>3. Len(a) \in Nat /\ Len(h) \in Nat /\ \A i \in 1..Len(a) : a[i] \in Nat
  BY <1>2
<1>4. /\ k \in 0..Len(a)
      /\ b \in Seq(Nat)
      /\ Len(b) = Len(a) - k
      /\ \A i \in 1..(Len(a) - k) : b[i] = a[k + i]
      /\ \A i \in 1..k : a[i] + Window <= t
  <2> HIDE DEF b, k
  <2> QED
    BY <1>2, PrunedFacts DEF b, k
<1> HIDE DEF b, k
<1>5. Attempts(l, b, t)
  <2>1. \A i \in 1..Len(b) : b[i] <= t
    <3> TAKE i \in 1..Len(b)
    <3>1. b[i] = a[k + i] /\ k + i \in 1..Len(a)
      BY <1>3, <1>4
    <3>2. \A j \in 1..Len(a) : a[j] <= t
      BY DEF Sound, Attempts
    <3> QED
      BY <3>1, <3>2
  <2>2. InOrder(b)
    <3> SUFFICES ASSUME NEW i \in 1..Len(b), NEW j \in 1..Len(b), i <= j
                 PROVE  b[i] <= b[j]
      BY DEF InOrder
    <3>1. /\ b[i] = a[k + i] /\ b[j] = a[k + j]
          /\ k + i \in 1..Len(a) /\ k + j \in 1..Len(a) /\ k + i <= k + j
      BY <1>3, <1>4
    <3> QED
      BY <1>2, <3>1 DEF InOrder
  <2>3. Len(b) <= l
    BY <1>3, <1>4 DEF Sound, Attempts
  <2> QED
    BY <1>4, <2>1, <2>2, <2>3 DEF Attempts
<1>6. Accounts(b, h, t)
  <2> DEFINE m == Len(h) - Len(a)
             o == Len(h) - Len(b)
  <2>1. /\ m \in Nat
        /\ \A i \in 1..Len(a) : a[i] = h[m + i]
        /\ \A i \in 1..m : h[i] + Window <= t
    BY DEF Sound, Accounts
  <2>2. o = m + k /\ Len(b) \in Nat
    BY <1>3, <1>4
  <2> HIDE DEF m, o
  <2>3. o \in Nat
    BY <1>3, <1>4, <2>1, <2>2
  <2>4. \A i \in 1..Len(b) : b[i] = h[o + i]
    <3> TAKE i \in 1..Len(b)
    <3>1. b[i] = a[k + i] /\ k + i \in 1..Len(a) /\ m + (k + i) = o + i
      BY <1>3, <1>4, <2>1, <2>2
    <3> QED
      BY <2>1, <3>1
  <2>5. \A i \in 1..o : h[i] + Window <= t
    <3> TAKE i \in 1..o
    <3>1. CASE i \in 1..m
      BY <2>1, <3>1
    <3>2. CASE i \notin 1..m
      <4>1. i - m \in 1..k /\ i - m \in 1..Len(a) /\ m + (i - m) = i
        BY <1>3, <1>4, <2>1, <2>2, <3>2
      <4>2. a[i - m] + Window <= t /\ a[i - m] = h[m + (i - m)]
        BY <1>4, <2>1, <4>1
      <4> QED
        BY <4>1, <4>2
    <3> QED
      BY <3>1, <3>2
  <2> QED
    BY <2>3, <2>4, <2>5 DEF Accounts, o
<1>7. History(l, h)
  BY DEF Sound
<1>8. Promised(l, b, p)
  <2>1. Len(a) <= l /\ Promised(l, a, p)
    BY DEF Sound, Attempts
  <2>2. SUFFICES ASSUME Len(b) = l
                 PROVE  b[1] + Window <= p
    BY <2>1 DEF Promised
  <2>3. k = 0 /\ Len(a) = l /\ b[1] = a[1]
    BY <1>3, <1>4, <2>1, <2>2
  <2> QED
    BY <2>1, <2>3 DEF Promised
<1> QED
  BY <1>5, <1>6, <1>7, <1>8 DEF Sound, b

(* So does the passing of time.                                            *)
LEMMA LaterSound ==
  ASSUME NEW l \in Nat \ {0}, NEW a, NEW h, NEW p, NEW t \in Nat,
         Sound(l, a, h, p, t)
  PROVE  Sound(l, a, h, p, t + 1)
<1>1. Window \in Nat
  BY AttemptAssumption DEF AttemptAssumption
<1>2. a \in Seq(Nat) /\ h \in Seq(Nat) /\ Len(h) - Len(a) \in Nat
  BY DEF Sound, Attempts, History, Accounts
<1>3. /\ \A i \in 1..Len(a) : a[i] \in Nat
      /\ \A i \in 1..(Len(h) - Len(a)) : h[i] \in Nat
  BY <1>2
<1>4. Attempts(l, a, t + 1)
  BY <1>3 DEF Sound, Attempts
<1>5. Accounts(a, h, t + 1)
  BY <1>1, <1>3 DEF Sound, Accounts
<1> QED
  BY <1>4, <1>5 DEF Sound

(* The window of a client that is new or was evicted.                      *)
LEMMA NothingSound ==
  ASSUME NEW l \in Nat \ {0}, NEW p \in Nat, NEW t \in Nat
  PROVE  Sound(l, <<>>, <<>>, p, t)
<1>1. <<>> \in Seq(Nat) /\ Len(<<>>) = 0
  OBVIOUS
<1>2. Attempts(l, <<>>, t)
  BY <1>1 DEF Attempts, InOrder
<1>3. Accounts(<<>>, <<>>, t)
  BY <1>1 DEF Accounts
<1>4. History(l, <<>>)
  BY <1>1 DEF History
<1>5. Promised(l, <<>>, p)
  BY <1>1 DEF Promised
<1> QED
  BY <1>2, <1>3, <1>4, <1>5 DEF Sound

(* A refusal that tells a time at which the oldest attempt is outside.     *)
LEMMA RefusedSound ==
  ASSUME NEW l \in Nat \ {0}, NEW a, NEW h, NEW p, NEW t \in Nat,
         Sound(l, a, h, p, t), NEW q \in Nat, a[1] + Window <= q
  PROVE  Sound(l, a, h, IF q < p THEN q ELSE p, t)
<1>1. Promised(l, a, IF q < p THEN q ELSE p)
  BY DEF Sound, Promised
<1> QED
  BY <1>1 DEF Sound

Remember(l, h, t) ==
  LET all == Append(h, t) IN IF Len(all) > l + 1 THEN Tail(all) ELSE all

LEMMA AppendFacts ==
  ASSUME NEW s \in Seq(Nat), NEW t \in Nat
  PROVE  /\ Append(s, t) \in Seq(Nat)
         /\ Append(s, t) # <<>>
         /\ Len(Append(s, t)) = Len(s) + 1
         /\ \A i \in 1..Len(s) : Append(s, t)[i] = s[i]
         /\ Append(s, t)[Len(s) + 1] = t
BY AppendProperties

(* An admission when fewer than the limit are inside: what the history     *)
(* then spans is at least a window.                                        *)
LEMMA AdmittedSound ==
  ASSUME NEW l \in Nat \ {0}, NEW a, NEW h, NEW p, NEW t \in Nat,
         Sound(l, a, h, p, t), Len(a) < l, NEW q \in Nat, t + Window <= q
  PROVE  Sound(l, Append(a, t), Remember(l, h, t), q, t)
<1> DEFINE b == Append(a, t)
           all == Append(h, t)
           g == Remember(l, h, t)
           n == Len(h)
           m == Len(a)
           o == n - m
           d == IF n = l + 1 THEN 1 ELSE 0
<1>1. Window \in Nat
  BY AttemptAssumption DEF AttemptAssumption
<1>2. a \in Seq(Nat) /\ h \in Seq(Nat) /\ o \in Nat
  BY DEF Sound, Attempts, History, Accounts
<1>3. m \in Nat /\ n \in Nat /\ m < l /\ n <= l + 1
  BY <1>2 DEF Sound, History
<1>4. /\ b \in Seq(Nat) /\ Len(b) = m + 1
      /\ \A i \in 1..m : b[i] = a[i]
      /\ b[m + 1] = t
  BY <1>2, AppendFacts
<1>5. /\ all \in Seq(Nat) /\ all # <<>> /\ Len(all) = n + 1
      /\ \A i \in 1..n : all[i] = h[i]
      /\ all[n + 1] = t
  BY <1>2, AppendFacts
<1>6. /\ \A i \in 1..m : a[i] \in Nat /\ a[i] <= t
      /\ InOrder(a)
      /\ \A i \in 1..m : a[i] = h[o + i]
      /\ \A i \in 1..o : h[i] + Window <= t
      /\ \A i \in 1..n : h[i] \in Nat
  <2>1. \A i \in 1..m : a[i] \in Nat
    BY <1>2
  <2>2. \A i \in 1..n : h[i] \in Nat
    BY <1>2
  <2> QED
    BY <2>1, <2>2 DEF Sound, Attempts, Accounts
<1>7. Promised(l, b, q)
  <2>1. ASSUME Len(b) = l
        PROVE  b[1] + Window <= q
    <3>1. CASE m = 0
      <4>1. b[1] = t
        BY <1>4, <3>1
      <4> QED
        BY <4>1
    <3>2. CASE m # 0
      <4>1. 1 \in 1..m
        BY <1>3, <3>2
      <4>2. b[1] = a[1] /\ a[1] \in Nat /\ a[1] <= t
        BY <4>1, <1>4, <1>6
      <4> QED
        BY <1>1, <4>2
    <3> QED
      BY <3>1, <3>2
  <2> HIDE DEF b
  <2> QED
    BY <2>1 DEF Promised
<1> HIDE DEF b, all
<1>8. Attempts(l, b, t)
  <2>1. \A i \in 1..Len(b) : b[i] \in Nat /\ b[i] <= t
    <3> TAKE i \in 1..Len(b)
    <3>1. i \in 1..m \/ i = m + 1
      BY <1>3, <1>4
    <3> QED
      BY <1>4, <1>6, <3>1
  <2>2. InOrder(b)
    <3> SUFFICES ASSUME NEW i \in 1..Len(b), NEW j \in 1..Len(b), i <= j
                 PROVE  b[i] <= b[j]
      BY DEF InOrder
    <3>1. CASE j = m + 1
      BY <1>4, <2>1, <3>1
    <3>2. CASE j # m + 1
      <4>1. i \in 1..m /\ j \in 1..m
        BY <1>3, <1>4, <3>2
      <4> QED
        BY <1>4, <1>6, <4>1 DEF InOrder
    <3> QED
      BY <3>1, <3>2
  <2>3. Len(b) <= l
    BY <1>3, <1>4
  <2> QED
    BY <1>4, <2>1, <2>2, <2>3 DEF Attempts
<1>9. /\ g \in Seq(Nat) /\ d \in {0, 1} /\ (d = 1 <=> n = l + 1)
      /\ Len(g) = n + 1 - d
      /\ \A i \in 1..(n + 1 - d) : g[i] = all[d + i]
  <2>1. CASE n = l + 1
    <3>1. g = Tail(all)
      BY <1>3, <1>5, <2>1 DEF Remember, all
    <3>2. /\ Tail(all) \in Seq(Nat) /\ Len(Tail(all)) = Len(all) - 1
          /\ \A i \in 1..Len(Tail(all)) : Tail(all)[i] = all[i + 1]
      BY <1>5, HeadTailProperties
    <3> HIDE DEF g
    <3>3. \A i \in Nat : i + 1 = 1 + i
      OBVIOUS
    <3> QED
      BY <1>3, <1>5, <2>1, <3>1, <3>2, <3>3
  <2>2. CASE n # l + 1
    <3>1. g = all
      BY <1>3, <1>5, <2>2 DEF Remember, all
    <3> HIDE DEF g
    <3> QED
      BY <1>3, <1>5, <2>2, <3>1
  <2> QED
    BY <2>1, <2>2
<1>a. d \in Nat /\ o = n - m
  BY <1>9
<1> HIDE DEF g, d, o, n, m
<1>10. Accounts(b, g, t)
  <2> DEFINE e == Len(g) - Len(b)
  <2>1. e = o - d /\ e \in Nat
    BY <1>2, <1>3, <1>4, <1>9, <1>a
  <2> HIDE DEF e
  <2>2. \A i \in 1..Len(b) : b[i] = g[e + i]
    <3> TAKE i \in 1..Len(b)
    <3>1. e + i \in 1..(n + 1 - d) /\ d + (e + i) = o + i
      BY <1>2, <1>3, <1>4, <1>9, <1>a, <2>1
    <3>2. g[e + i] = all[o + i]
      BY <1>9, <3>1
    <3>3. CASE i = m + 1
      <4>1. o + i = n + 1
        BY <1>2, <1>3, <1>a, <3>3
      <4> QED
        BY <1>4, <1>5, <3>2, <3>3, <4>1
    <3>4. CASE i # m + 1
      <4>1. i \in 1..m /\ o + i \in 1..n
        BY <1>2, <1>3, <1>4, <1>a, <3>4
      <4> QED
        BY <1>4, <1>5, <1>6, <3>2, <4>1
    <3> QED
      BY <3>3, <3>4
  <2>3. \A i \in 1..e : g[i] + Window <= t
    <3> TAKE i \in 1..e
    <3>1. i \in 1..(n + 1 - d) /\ d + i \in 1..n /\ d + i \in 1..o
      BY <1>2, <1>3, <1>9, <1>a, <2>1
    <3> QED
      BY <1>5, <1>6, <1>9, <3>1
  <2> QED
    BY <2>1, <2>2, <2>3 DEF Accounts, e
<1>11. History(l, g)
  <2>1. SUFFICES ASSUME Len(g) = l + 1
                 PROVE  g[l + 1] - g[1] >= Window
    BY <1>3, <1>9 DEF History
  <2>2. n = l + d /\ o >= 1 + d
    BY <1>2, <1>3, <1>9, <1>a, <2>1
  <2>3. l + 1 \in 1..(n + 1 - d) /\ 1 \in 1..(n + 1 - d) /\ d + (l + 1) = n + 1
    BY <1>3, <1>9, <2>2
  <2>4. g[l + 1] = t
    BY <1>5, <1>9, <2>3
  <2>5. d + 1 \in 1..o /\ d + 1 \in 1..n
    BY <1>2, <1>3, <1>9, <1>a, <2>2
  <2>6. g[1] = h[d + 1] /\ h[d + 1] + Window <= t /\ h[d + 1] \in Nat
    BY <1>5, <1>6, <1>9, <2>3, <2>5
  <2> QED
    BY <1>1, <2>4, <2>6
<1> QED
  BY <1>7, <1>8, <1>10, <1>11 DEF Sound, b, g
-----------------------------------------------------------------------------

WindowsInv ==
  /\ now \in 0..MaxTime
  /\ attempts \in [Windows -> Seq(Nat)]
  /\ admitted \in [Windows -> Seq(Nat)]
  /\ promise \in [Windows -> Nat]
  /\ \A w \in Windows :
       Sound(Limit(w), attempts[w], admitted[w], promise[w], now)

(* Every window admits something; of the MCP limit the reserve takes one.  *)
LEMMA LimitPositive ==
  ASSUME NEW w \in Windows
  PROVE  Limit(w) \in Nat \ {0}
<1>1. /\ ExtractionLimit \in Nat \ {0} /\ MediaLimit \in Nat \ {0}
      /\ ReserveMcp \in BOOLEAN
      /\ ReserveMcp => ExtractionLimit - 1 \in Nat \ {0}
  BY AttemptAssumption DEF AttemptAssumption
<1>2. w[2] = "regular" => ReserveMcp
  BY DEF Windows, AttemptKinds, PostKinds
<1> QED
  BY <1>1, <1>2 DEF Limit

(* At the time a refusal tells, the oldest attempt is outside the window.  *)
LEMMA ToldInTime ==
  ASSUME NEW s, s[1] \in Nat, now \in Nat
  PROVE  /\ now + RetryAfter(s) * TicksPerSecond \in Nat
         /\ s[1] + Window <= now + RetryAfter(s) * TicksPerSecond
<1> DEFINE left == s[1] + Window - now
           d == TicksPerSecond
<1>1. left \in Int /\ s[1] + Window = now + left /\ d \in Nat \ {0}
  BY AttemptAssumption DEF AttemptAssumption
<1>2. RetryAfter(s) = IF left <= d THEN 1 ELSE (left + d - 1) \div d
  BY Zenon DEF RetryAfter
<1> HIDE DEF left, d
<1>3. CASE left <= d
  <2>1. RetryAfter(s) = 1 /\ 1 * d = d
    BY <1>1, <1>2, <1>3
  <2> QED
    BY <1>1, <1>3, <2>1 DEF d
<1>4. CASE ~(left <= d)
  <2>1. left \in Nat
    BY <1>1, <1>4
  <2>2. RetryAfter(s) \in Nat /\ RetryAfter(s) * d >= left
    <3>1. RetryAfter(s) = (left + d - 1) \div d
      BY <1>2, <1>4
    <3> QED
      BY <1>1, <2>1, <3>1, RoundedUp
  <2> DEFINE z == RetryAfter(s) * d
  <2>3. z \in Nat /\ z >= left
    BY <1>1, <2>2
  <2>4. z = RetryAfter(s) * TicksPerSecond
    BY DEF d
  <2> HIDE DEF z
  <2> QED
    BY <1>1, <2>1, <2>3, <2>4
<1> QED
  BY <1>3, <1>4

(* One attempt, recorded or refused, whatever clients were evicted for it. *)
LEMMA AttemptKeepsWindows ==
  ASSUME WindowsInv, NEW w \in Windows, NEW gone, Attempt(w, gone),
         w[1] \in gone => Pruned(attempts[w]) = <<>>,
         Full(w) => gone = {}, now' = now
  PROVE  WindowsInv'
<1> DEFINE kept == [v \in Windows |->
                     IF v[1] \in gone THEN <<>> ELSE Pruned(attempts[v])]
           told == now + RetryAfter(kept[w]) * TicksPerSecond
           S(v) == Sound(Limit(v), attempts[v], admitted[v], promise[v], now)
<1>1. now \in 0..MaxTime /\ now \in Nat /\ MaxTime \in Nat /\ NoPromise \in Nat
      /\ now + Window <= NoPromise
  BY AttemptAssumption DEF WindowsInv, AttemptAssumption, NoPromise
<1>2. \A v \in Windows : S(v)
  BY Zenon DEF WindowsInv
<1>3. \A v \in Windows : Pruned(attempts[v]) = PrunedAt(attempts[v], now)
  BY Zenon DEF Pruned, PrunedAt, Outside
<1>4. \A v \in Windows :
        Sound(Limit(v), Pruned(attempts[v]), admitted[v], promise[v], now)
  BY <1>1, <1>2, <1>3, LimitPositive, PrunedSound, Zenon
<1>5. Sound(Limit(w), kept[w], admitted[w], promise[w], now)
      /\ kept[w] = Pruned(attempts[w])
  <2>1. kept[w] = Pruned(attempts[w])
    BY Zenon
  <2> QED
    BY <2>1, <1>4, Zenon
<1>6. kept \in [Windows -> Seq(Nat)]
  <2>1. \A v \in Windows : Pruned(attempts[v]) \in Seq(Nat)
    BY <1>4, Zenon DEF Sound, Attempts
  <2>2. <<>> \in Seq(Nat)
    OBVIOUS
  <2> QED
    BY <2>1, <2>2, Zenon
<1>7. \A v \in Windows :
        v[1] \in gone => Sound(Limit(v), <<>>, <<>>, NoPromise, now)
  BY <1>1, LimitPositive, NothingSound, Zenon
<1>8. admitted \in [Windows -> Seq(Nat)] /\ promise \in [Windows -> Nat]
  BY Zenon DEF WindowsInv
<1>9. CASE /\ ~Full(w)
           /\ attempts' = [kept EXCEPT ![w] = Recorded(@)]
           /\ admitted' = [v \in Windows |->
                             IF v = w THEN Remembered(v)
                             ELSE IF v[1] \in gone THEN <<>> ELSE admitted[v]]
           /\ promise' = [v \in Windows |->
                            IF v = w \/ v[1] \in gone THEN NoPromise
                            ELSE promise[v]]
  <2>1. Len(kept[w]) < Limit(w)
    <3>1. Len(kept[w]) \in Nat /\ Limit(w) \in Nat
      BY <1>6, LimitPositive
    <3>2. ~(Len(kept[w]) >= Limit(w))
      BY <1>5, <1>9, Zenon DEF Full
    <3> QED
      BY <3>1, <3>2
  <2>2. /\ attempts'[w] = Append(kept[w], now)
        /\ admitted'[w] = Remember(Limit(w), admitted[w], now)
        /\ promise'[w] = NoPromise
    <3>1. attempts'[w] = Recorded(kept[w])
      BY <1>6, <1>9, Zenon
    <3>2. admitted'[w] = Remembered(w) /\ promise'[w] = NoPromise
      BY <1>9, Zenon
    <3> QED
      BY <3>1, <3>2, Zenon DEF Recorded, Remembered, Remember
  <2>3. Sound(Limit(w), attempts'[w], admitted'[w], promise'[w], now)
    <3> HIDE DEF kept
    <3>1. Sound(Limit(w), Append(kept[w], now),
                Remember(Limit(w), admitted[w], now), NoPromise, now)
      <4>1. Limit(w) \in Nat \ {0}
        BY LimitPositive
      <4> QED
        BY <1>1, <1>5, <2>1, <4>1, AdmittedSound
    <3> QED
      BY <2>2, <3>1, Zenon
  <2>4. \A v \in Windows \ {w} :
          Sound(Limit(v), attempts'[v], admitted'[v], promise'[v], now)
    <3> TAKE v \in Windows \ {w}
    <3>1. attempts'[v] = kept[v]
      BY <1>6, <1>9, Zenon
    <3>2. CASE v[1] \in gone
      <4>1. /\ attempts'[v] = <<>> /\ admitted'[v] = <<>>
            /\ promise'[v] = NoPromise
        BY <1>9, <3>1, <3>2, Zenon
      <4> QED
        BY <1>7, <3>2, <4>1, Zenon
    <3>3. CASE v[1] \notin gone
      <4>1. /\ attempts'[v] = Pruned(attempts[v])
            /\ admitted'[v] = admitted[v] /\ promise'[v] = promise[v]
        BY <1>9, <3>1, <3>3, Zenon
      <4> QED
        BY <1>4, <4>1, Zenon
    <3> QED
      BY <3>2, <3>3, Zenon
  <2>5. /\ DOMAIN attempts' = Windows /\ DOMAIN admitted' = Windows
        /\ DOMAIN promise' = Windows
        /\ attempts' = [v \in Windows |-> attempts'[v]]
        /\ admitted' = [v \in Windows |-> admitted'[v]]
        /\ promise' = [v \in Windows |-> promise'[v]]
    BY <1>6, <1>9
  <2>6. \A v \in Windows :
          Sound(Limit(v), attempts'[v], admitted'[v], promise'[v], now)
    BY <2>3, <2>4, Zenon
  <2> QED
    <3>1. /\ attempts' \in [Windows -> Seq(Nat)]
          /\ admitted' \in [Windows -> Seq(Nat)]
          /\ promise' \in [Windows -> Nat]
      <4>1. \A v \in Windows : /\ attempts'[v] \in Seq(Nat)
                               /\ admitted'[v] \in Seq(Nat)
                               /\ promise'[v] \in Nat
        BY <2>6, Zenon DEF Sound, Attempts, History, Promised
      <4> QED
        BY <2>5, <4>1, Zenon
    <3> QED
      BY <1>1, <2>6, <3>1, Zenon DEF WindowsInv, Limit
<1>10. CASE /\ Full(w)
            /\ attempts' = kept
            /\ promise' = [promise EXCEPT ![w] = IF told < @ THEN told ELSE @]
            /\ UNCHANGED admitted
  <2>1. Len(kept[w]) = Limit(w) /\ Limit(w) \in Nat \ {0}
    <3>1. Len(kept[w]) >= Limit(w)
      BY <1>5, <1>10, Zenon DEF Full
    <3>2. Len(kept[w]) \in Nat /\ Len(kept[w]) <= Limit(w) /\ Limit(w) \in Nat \ {0}
      BY <1>5, LimitPositive DEF Sound, Attempts
    <3> QED
      BY <3>1, <3>2
  <2>2. kept[w][1] \in Nat
    <3>1. kept[w] \in Seq(Nat)
      BY <1>5, Zenon DEF Sound, Attempts
    <3> HIDE DEF kept
    <3> QED
      BY <2>1, <3>1
  <2>3. told \in Nat /\ kept[w][1] + Window <= told
    <3> HIDE DEF kept
    <3> QED
      BY <1>1, <2>2, ToldInTime, Zenon
  <2>4. \A v \in Windows :
          /\ attempts'[v] = Pruned(attempts[v])
          /\ admitted'[v] = admitted[v]
          /\ promise'[v] = IF v = w THEN IF told < promise[w] THEN told
                                         ELSE promise[w]
                           ELSE promise[v]
    <3>1. gone = {}
      BY <1>10, Zenon
    <3>2. \A v \in Windows : attempts'[v] = Pruned(attempts[v])
      BY <1>10, <3>1, Zenon
    <3> HIDE DEF kept
    <3> QED
      BY <1>8, <1>10, <3>2, Zenon
  <2>5. \A v \in Windows :
          Sound(Limit(v), attempts'[v], admitted'[v], promise'[v], now)
    <3> TAKE v \in Windows
    <3>1. CASE v = w
      <4> DEFINE p == IF told < promise[w] THEN told ELSE promise[w]
      <4>1. Sound(Limit(w), kept[w], admitted[w], p, now)
        <5> HIDE DEF kept
        <5> DEFINE q == told
        <5>1. q \in Nat /\ kept[w][1] + Window <= q
          BY <2>3
        <5>2. p = IF q < promise[w] THEN q ELSE promise[w]
          OBVIOUS
        <5> HIDE DEF q, p
        <5>3. Sound(Limit(w), kept[w], admitted[w],
                    IF q < promise[w] THEN q ELSE promise[w], now)
          BY <1>1, <1>5, <2>1, <5>1, RefusedSound, Zenon
        <5> QED
          BY <5>2, <5>3, Zenon
      <4>2. /\ attempts'[w] = kept[w] /\ admitted'[w] = admitted[w]
            /\ promise'[w] = p
        BY <1>5, <2>4, Zenon
      <4> QED
        BY <3>1, <4>1, <4>2, Zenon
    <3>2. CASE v # w
      <4>1. /\ attempts'[v] = Pruned(attempts[v])
            /\ admitted'[v] = admitted[v] /\ promise'[v] = promise[v]
        BY <2>4, <3>2, Zenon
      <4> QED
        BY <1>4, <4>1, Zenon
    <3> QED
      BY <3>1, <3>2, Zenon
  <2>6. /\ attempts' \in [Windows -> Seq(Nat)]
        /\ admitted' \in [Windows -> Seq(Nat)]
        /\ promise' \in [Windows -> Nat]
    <3>1. attempts' \in [Windows -> Seq(Nat)] /\ admitted' = admitted
      BY <1>6, <1>10, Zenon
    <3>2. DOMAIN promise' = Windows /\ promise' = [v \in Windows |-> promise'[v]]
      BY <1>8, <1>10
    <3>3. \A v \in Windows : promise'[v] \in Nat
      BY <2>5, Zenon DEF Sound, Promised
    <3>4. promise' \in [Windows -> Nat]
      BY <3>2, <3>3, Zenon
    <3> QED
      BY <1>8, <3>1, <3>4, Zenon
  <2> QED
    BY <1>1, <2>5, <2>6, Zenon DEF WindowsInv, Limit
<1> QED
  BY <1>9, <1>10, Zenon DEF Attempt

(* A full window makes its client live, so that nobody is evicted for it.  *)
LEMMA FullIsLive ==
  ASSUME NEW w \in Windows, Full(w)
  PROVE  Pruned(attempts[w]) # <<>> /\ Live(w[1])
<1>1. Pruned(attempts[w]) # <<>>
  <2>1. Len(<<>>) = 0 /\ ~(0 >= Limit(w))
    BY LimitPositive
  <2> QED
    BY <2>1, Zenon DEF Full
<1> QED
  BY <1>1, Zenon DEF Live

(* The steps of acquire, of acquire_mcp_post and of the clock.             *)
LEMMA AcquireKeepsWindows ==
  ASSUME WindowsInv, NEW c \in Clients, NEW kind \in AttemptKinds,
         Acquire(kind, c)
  PROVE  WindowsInv'
<1> DEFINE w == <<c, kind>>
<1>1. w \in Windows /\ w[1] = c
  BY DEF Windows
<1> HIDE DEF w
<1>2. Attempt(w, Evicted(c)) /\ now' = now
  BY Zenon DEF Acquire, w
<1>3. w[1] \in Evicted(c) => Pruned(attempts[w]) = <<>>
  <2>1. Evicted(c) # {} => ~Live(c)
    BY Zenon DEF Evicted
  <2> QED
    BY <1>1, <2>1, Zenon DEF Live
<1>4. Full(w) => Evicted(c) = {}
  BY <1>1, FullIsLive, Zenon DEF Evicted
<1> QED
  BY <1>1, <1>2, <1>3, <1>4, AttemptKeepsWindows, Zenon

LEMMA PostKeepsWindows ==
  ASSUME WindowsInv, NEW kind \in PostKinds, AcquireMcpPost(kind)
  PROVE  WindowsInv'
<1> DEFINE w == <<Mcp, kind>>
<1>1. w \in Windows
  BY DEF Windows, AcquireMcpPost
<1> HIDE DEF w
<1>2. Attempt(w, {}) /\ now' = now
  BY Zenon DEF AcquireMcpPost, w
<1> QED
  BY <1>1, <1>2, AttemptKeepsWindows, Zenon

LEMMA TickKeepsWindows ==
  ASSUME WindowsInv, Tick
  PROVE  WindowsInv'
<1>1. now \in Nat /\ now + 1 \in 0..MaxTime /\ now' = now + 1
      /\ UNCHANGED <<attempts, admitted, promise>>
  BY AttemptAssumption DEF WindowsInv, Tick, AttemptAssumption
<1>2. \A w \in Windows :
        Sound(Limit(w), attempts[w], admitted[w], promise[w], now + 1)
  <2> TAKE w \in Windows
  <2>1. Sound(Limit(w), attempts[w], admitted[w], promise[w], now)
    BY Zenon DEF WindowsInv
  <2>2. Limit(w) \in Nat \ {0}
    BY LimitPositive
  <2> QED
    BY <1>1, <2>1, <2>2, LaterSound
<1>3. \A w \in Windows :
        Sound(Limit(w), attempts'[w], admitted'[w], promise'[w], now')
  BY <1>1, <1>2, Zenon
<1>4. /\ attempts \in [Windows -> Seq(Nat)]
      /\ admitted \in [Windows -> Seq(Nat)]
      /\ promise \in [Windows -> Nat]
  BY Zenon DEF WindowsInv
<1> QED
  BY <1>1, <1>3, <1>4, Zenon DEF WindowsInv, Limit

LEMMA StutterKeepsWindows ==
  ASSUME WindowsInv, UNCHANGED vars
  PROVE  WindowsInv'
BY Zenon DEF WindowsInv, vars, Limit

LEMMA InitWindows ==
  ASSUME Init
  PROVE  WindowsInv
<1>1. now = 0 /\ 0 \in 0..MaxTime /\ 0 \in Nat /\ NoPromise \in Nat
  BY AttemptAssumption DEF Init, AttemptAssumption, NoPromise
<1>2. /\ attempts = [w \in Windows |-> <<>>]
      /\ admitted = [w \in Windows |-> <<>>]
      /\ promise = [w \in Windows |-> NoPromise]
  BY Zenon DEF Init
<1>3. /\ attempts \in [Windows -> Seq(Nat)]
      /\ admitted \in [Windows -> Seq(Nat)]
      /\ promise \in [Windows -> Nat]
  <2>1. <<>> \in Seq(Nat)
    OBVIOUS
  <2> QED
    BY <1>1, <1>2, <2>1, Zenon
<1>4. \A w \in Windows :
        Sound(Limit(w), attempts[w], admitted[w], promise[w], now)
  <2> TAKE w \in Windows
  <2>1. Sound(Limit(w), <<>>, <<>>, NoPromise, 0)
    BY <1>1, LimitPositive, NothingSound, Zenon
  <2> QED
    BY <1>1, <1>2, <2>1, Zenon
<1> QED
  BY <1>1, <1>3, <1>4, Zenon DEF WindowsInv

(* What sound windows mean for the properties.                             *)
LEMMA WindowsRoll ==
  ASSUME WindowsInv
  PROVE  RollingWindow
<1> SUFFICES ASSUME NEW w \in Windows, Len(admitted[w]) > Limit(w)
             PROVE  admitted[w][Limit(w) + 1] - admitted[w][1] >= Window
  BY DEF RollingWindow
<1>1. Limit(w) \in Nat \ {0}
  BY LimitPositive
<1>2. History(Limit(w), admitted[w])
  BY Zenon DEF WindowsInv, Sound
<1>3. Len(admitted[w]) \in Nat /\ Len(admitted[w]) <= Limit(w) + 1
  BY <1>2 DEF History
<1>4. Len(admitted[w]) = Limit(w) + 1
  BY <1>1, <1>3
<1> QED
  BY <1>2, <1>4, Zenon DEF History

LEMMA WindowsHonour ==
  ASSUME WindowsInv
  PROVE  RetryAfterHonoured
<1> SUFFICES ASSUME NEW w \in Windows, now >= promise[w], Full(w)
             PROVE  FALSE
  BY Zenon DEF RetryAfterHonoured
<1> DEFINE a == attempts[w]
           l == Limit(w)
           k == Outside(a, now)
<1>1. l \in Nat \ {0} /\ now \in Nat /\ Window \in Nat
  BY LimitPositive, AttemptAssumption DEF WindowsInv, AttemptAssumption
<1>2. Attempts(l, a, now) /\ Promised(l, a, promise[w])
  BY Zenon DEF WindowsInv, Sound
<1>3. Len(PrunedAt(a, now)) >= l
  BY Zenon DEF Full, Pruned, PrunedAt, Outside
<1> HIDE DEF a, l
<1>4. a \in Seq(Nat) /\ InOrder(a) /\ Len(a) \in Nat /\ Len(a) <= l
  BY <1>2 DEF Attempts
<1>5. /\ k \in 0..Len(a)
      /\ Len(PrunedAt(a, now)) = Len(a) - k
      /\ \A i \in (k + 1)..Len(a) : a[i] + Window > now
  <2> HIDE DEF k
  <2> QED
    BY <1>1, <1>4, PrunedFacts DEF k
<1> HIDE DEF k
<1>6. k = 0 /\ Len(a) = l
  BY <1>1, <1>3, <1>4, <1>5
<1>7. a[1] + Window > now /\ a[1] \in Nat
  BY <1>1, <1>4, <1>5, <1>6
<1>8. promise[w] \in Nat /\ a[1] + Window <= promise[w]
  BY <1>2, <1>6 DEF Promised
<1> QED
  BY <1>1, <1>7, <1>8

-----------------------------------------------------------------------------

Members(s) == {s[i] : i \in DOMAIN s}

(* s names each client once, in the order of u.                            *)
Dictionary(s, u) ==
  /\ s \in Seq(Clients)
  /\ \A i, j \in 1..Len(s) : s[i] = s[j] => i = j
  /\ \A i, j \in 1..Len(s) : i <= j => u[s[i]] <= u[s[j]]

(* A dictionary stays one when clients are dropped from it,                *)
LEMMA RestrictedDictionary ==
  ASSUME NEW s, NEW u, Dictionary(s, u), NEW S
  PROVE  /\ Dictionary(Restricted(s, S), u)
         /\ Members(Restricted(s, S)) = Members(s) \cap S
         /\ Len(Restricted(s, S)) <= Len(s)
         /\ ~(Members(s) \subseteq S) => Len(Restricted(s, S)) < Len(s)
<1> DEFINE n == Len(s)
           P == Chosen(s, S)
           m == Cardinality(P)
           f == Restricted(s, S)
<1>1. s \in Seq(Clients) /\ n \in Nat /\ DOMAIN s = 1..n /\ \A i \in 1..n : s[i] \in Clients
  <2>1. s \in Seq(Clients)
    BY Zenon DEF Dictionary
  <2> QED
    BY <2>1
<1>2. /\ IsFiniteSet(P) /\ m \in 0..n
      /\ \E e : Enumerates(e, m, P) /\ f = [k \in 1..m |-> s[e[k]]]
  <2> HIDE DEF n
  <2>1. n \in Nat /\ DOMAIN s = 1..n
    BY <1>1
  <2> QED
    BY <2>1, RestrictedFacts
<1>3. PICK e : Enumerates(e, m, P) /\ f = [k \in 1..m |-> s[e[k]]]
  BY <1>2, Zenon
<1>4. P = {i \in 1..n : s[i] \in S}
  BY <1>1 DEF Chosen
<1>5. m \in Nat /\ m <= n
  <2> HIDE DEF m, n
  <2> QED
    BY <1>1, <1>2
<1> HIDE DEF P, m, f
<1>6. \A k \in 1..m : e[k] \in 1..n /\ s[e[k]] \in S /\ f[k] = s[e[k]]
  <2>1. \A k \in 1..m : e[k] \in P
    BY <1>3, Zenon DEF Enumerates
  <2> QED
    BY <1>3, <1>4, <2>1, Zenon
<1>7. f \in Seq(Clients) /\ Len(f) = m /\ DOMAIN f = 1..m
  <2>1. f \in [1..m -> Clients]
    <3>1. \A k \in 1..m : s[e[k]] \in Clients
      BY <1>1, <1>6, Zenon
    <3> QED
      BY <1>3, <3>1, Zenon
  <2> QED
    BY <1>5, <2>1
<1>8. Dictionary(f, u)
  <2>1. \A k, l \in 1..m : f[k] = f[l] => k = l
    <3> SUFFICES ASSUME NEW k \in 1..m, NEW l \in 1..m, f[k] = f[l], k # l
                 PROVE  FALSE
      OBVIOUS
    <3>1. e[k] = e[l]
      <4>1. e[k] \in 1..n /\ e[l] \in 1..n /\ s[e[k]] = s[e[l]]
        BY <1>6, Zenon
      <4>2. \A i, j \in 1..n : s[i] = s[j] => i = j
        BY Zenon DEF Dictionary
      <4> QED
        BY <4>1, <4>2, Zenon
    <3>2. e[k] \in Nat
      BY <1>1, <1>6
    <3>3. k < l \/ l < k
      BY <1>5
    <3>4. e[k] < e[l] \/ e[l] < e[k]
      BY <1>3, <3>3, Zenon DEF Enumerates
    <3> QED
      BY <3>1, <3>2, <3>4
  <2>2. \A k, l \in 1..m : k <= l => u[f[k]] <= u[f[l]]
    <3> SUFFICES ASSUME NEW k \in 1..m, NEW l \in 1..m, k <= l
                 PROVE  u[f[k]] <= u[f[l]]
      OBVIOUS
    <3>1. k < l \/ k = l
      BY <1>5
    <3>2. e[k] < e[l] \/ e[k] = e[l]
      BY <1>3, <3>1, Zenon DEF Enumerates
    <3>3. e[k] \in 1..n /\ e[l] \in 1..n
      BY <1>6
    <3>4. e[k] <= e[l]
      BY <1>1, <3>2, <3>3
    <3>5. u[s[e[k]]] <= u[s[e[l]]]
      BY <3>3, <3>4, Zenon DEF Dictionary
    <3> QED
      BY <1>6, <3>5, Zenon
  <2> QED
    BY <1>7, <2>1, <2>2, Zenon DEF Dictionary
<1>9. Members(f) = Members(s) \cap S
  <2>1. ASSUME NEW x \in Members(f)
        PROVE  x \in Members(s) /\ x \in S
    <3>1. PICK k \in 1..m : x = f[k]
      BY <1>7, <2>1, Zenon DEF Members
    <3> QED
      BY <1>1, <1>6, <3>1, Zenon DEF Members
  <2>2. ASSUME NEW x \in Members(s), x \in S
        PROVE  x \in Members(f)
    <3>1. PICK i \in 1..n : x = s[i]
      BY <1>1, <2>2, Zenon DEF Members
    <3>2. i \in P
      BY <1>4, <2>2, <3>1, Zenon
    <3>3. PICK k \in 1..m : e[k] = i
      BY <1>3, <3>2, Zenon DEF Enumerates
    <3> QED
      BY <1>6, <1>7, <3>1, <3>3, Zenon DEF Members
  <2> QED
    BY <2>1, <2>2
<1>10. ASSUME ~(Members(s) \subseteq S)
       PROVE  m < n
  <2>1. PICK i \in 1..n : s[i] \notin S
    BY <1>1, <1>10, Zenon DEF Members
  <2>2. P \in SUBSET ((1..n) \ {i})
    BY <1>4, <2>1
  <2>3. /\ IsFiniteSet((1..n) \ {i})
        /\ Cardinality((1..n) \ {i}) = n - 1
    BY <1>1, SizeUpTo, FS_RemoveElement
  <2>4. Cardinality(P) <= Cardinality((1..n) \ {i})
    BY <2>2, <2>3, FS_Subset, Zenon
  <2>5. m <= n - 1
    BY <2>3, <2>4 DEF m
  <2> QED
    BY <1>1, <1>5, <2>5
<1> QED
  BY <1>5, <1>7, <1>8, <1>9, <1>10 DEF f

LEMMA AppendedMembers ==
  ASSUME NEW s \in Seq(Clients), NEW c \in Clients
  PROVE  Members(Append(s, c)) = Members(s) \cup {c}
<1> DEFINE n == Len(s)
           f == Append(s, c)
<1>1. /\ n \in Nat /\ DOMAIN s = 1..n /\ DOMAIN f = 1..(n + 1)
      /\ \A i \in 1..n : f[i] = s[i]
      /\ f[n + 1] = c
  BY AppendProperties
<1> HIDE DEF n, f
<1>2. ASSUME NEW x
      PROVE  x \in Members(f) <=> x \in Members(s) \/ x = c
  <2>1. /\ n + 1 \in 1..(n + 1)
        /\ \A i \in 1..n : i \in 1..(n + 1)
        /\ \A i \in 1..(n + 1) : i \in 1..n \/ i = n + 1
    BY <1>1
  <2>2. x \in Members(f) <=> \E i \in 1..(n + 1) : x = f[i]
    BY <1>1, Zenon DEF Members
  <2>3. x \in Members(s) <=> \E i \in 1..n : x = s[i]
    BY <1>1, Zenon DEF Members
  <2> QED
    BY <1>1, <2>1, <2>2, <2>3, Zenon
<1>3. Members(f) = Members(s) \cup {c}
  BY <1>2
<1> QED
  BY <1>3 DEF f

(* and when a client it does not name is added with the latest use.        *)
LEMMA AppendedDictionary ==
  ASSUME NEW s, NEW u, Dictionary(s, u), NEW c \in Clients, c \notin Members(s),
         NEW v, \A x \in Members(s) : v[x] = u[x] /\ v[x] <= v[c],
         v[c] \in Nat
  PROVE  /\ Dictionary(Append(s, c), v)
         /\ Len(Append(s, c)) = Len(s) + 1
<1> DEFINE n == Len(s)
           f == Append(s, c)
<1>1. s \in Seq(Clients) /\ n \in Nat /\ DOMAIN s = 1..n
  <2>1. s \in Seq(Clients)
    BY Zenon DEF Dictionary
  <2> QED
    BY <2>1
<1>2. /\ f \in Seq(Clients) /\ Len(f) = n + 1
      /\ \A i \in 1..n : f[i] = s[i]
      /\ f[n + 1] = c
  BY <1>1, AppendProperties
<1>3. DOMAIN f = 1..(n + 1)
  BY <1>2
<1> HIDE DEF f, n
<1>4. \A i \in 1..(n + 1) : i \in 1..n \/ i = n + 1
  BY <1>1
<1>5. \A i \in 1..n : s[i] \in Members(s)
  BY <1>1, Zenon DEF Members
<1>6. \A i, j \in 1..n : (s[i] = s[j] => i = j) /\ (i <= j => u[s[i]] <= u[s[j]])
  BY Zenon DEF Dictionary, n
<1>7. \A i, j \in 1..(n + 1) : f[i] = f[j] => i = j
  BY <1>2, <1>4, <1>5, <1>6, Zenon
<1>8. \A i, j \in 1..(n + 1) : i <= j => v[f[i]] <= v[f[j]]
  <2> SUFFICES ASSUME NEW i \in 1..(n + 1), NEW j \in 1..(n + 1), i <= j
               PROVE  v[f[i]] <= v[f[j]]
    OBVIOUS
  <2>1. CASE j = n + 1
    <3>1. CASE i = n + 1
      BY <1>2, <2>1, <3>1
    <3>2. CASE i # n + 1
      <4>1. i \in 1..n
        BY <1>4, <3>2, Zenon
      <4> QED
        BY <1>2, <1>5, <2>1, <4>1, Zenon
    <3> QED
      BY <3>1, <3>2
  <2>2. CASE j # n + 1
    <3>1. i \in 1..n /\ j \in 1..n
      BY <1>1, <2>2
    <3> QED
      BY <1>2, <1>5, <1>6, <3>1, Zenon
  <2> QED
    BY <2>1, <2>2
<1> QED
  BY <1>2, <1>7, <1>8 DEF Dictionary, f, n

(* A dictionary names as many clients as it is long.                       *)
LEMMA DictionarySize ==
  ASSUME NEW s, NEW u, Dictionary(s, u)
  PROVE  IsFiniteSet(Members(s)) /\ Cardinality(Members(s)) = Len(s)
<1> DEFINE n == Len(s)
           g == [i \in 1..n |-> s[i]]
<1>1. s \in Seq(Clients) /\ n \in Nat /\ DOMAIN s = 1..n
  <2>1. s \in Seq(Clients)
    BY Zenon DEF Dictionary
  <2> QED
    BY <2>1
<1>2. \A i, j \in 1..n : s[i] = s[j] => i = j
  BY Zenon DEF Dictionary
<1>3. IsFiniteSet(1..n) /\ Cardinality(1..n) = n
  BY <1>1, SizeUpTo
<1> HIDE DEF n
<1>4. g \in [1..n -> Members(s)]
  BY <1>1, Zenon DEF Members
<1>5. g \in Surjection(1..n, Members(s))
  <2>1. \A x \in Members(s) : \E i \in 1..n : g[i] = x
    BY <1>1, Zenon DEF Members
  <2> QED
    BY <1>4, <2>1, Zenon DEF Surjection
<1>6. g \in Injection(1..n, Members(s))
  <2>1. IsInjective(g)
    BY <1>2, Zenon DEF IsInjective
  <2> QED
    BY <1>4, <2>1, Zenon DEF Injection
<1> HIDE DEF g
<1> QED
  BY <1>3, <1>5, <1>6, FS_Surjection DEF n

(* The dictionary goes by the last uses, keeps within its bound, and names *)
(* exactly the clients that have attempts on record.                       *)
IdentitiesInv ==
  /\ Dictionary(identities, lastUse)
  /\ Len(identities) <= MaxIdentities
  /\ lastUse \in [Clients -> Nat]
  /\ \A c \in Clients : lastUse[c] <= now
  /\ \A c \in Clients :
       c \in Members(identities) <=>
         \E w \in Windows : w[1] = c /\ attempts[w] # <<>>

LiveClients == {c \in Clients : Live(c)}

(* What _purge_expired leaves: exactly the live clients, in order.         *)
LEMMA UnpurgedFacts ==
  ASSUME WindowsInv, IdentitiesInv
  PROVE  /\ Dictionary(Unpurged, lastUse)
         /\ Members(Unpurged) = LiveClients
         /\ Len(Unpurged) \in Nat
         /\ Len(Unpurged) <= MaxIdentities
<1>1. /\ Dictionary(identities, lastUse)
      /\ Unpurged = Restricted(identities, LiveClients)
  BY Zenon DEF IdentitiesInv, Unpurged, LiveClients
<1>2. /\ Dictionary(Unpurged, lastUse)
      /\ Members(Unpurged) = Members(identities) \cap LiveClients
      /\ Len(Unpurged) <= Len(identities)
  BY <1>1, RestrictedDictionary
<1>3. LiveClients \subseteq Members(identities)
  <2> SUFFICES ASSUME NEW c \in Clients, Live(c)
               PROVE  c \in Members(identities)
    BY Zenon DEF LiveClients
  <2>1. PICK w \in Windows : w[1] = c /\ Pruned(attempts[w]) # <<>>
    BY Zenon DEF Live
  <2>2. attempts[w] \in Seq(Nat) /\ InOrder(attempts[w]) /\ now \in Nat
    BY AttemptAssumption DEF WindowsInv, Sound, Attempts, AttemptAssumption
  <2>3. attempts[w] # <<>>
    <3> SUFFICES ASSUME attempts[w] = <<>>
                 PROVE  Pruned(attempts[w]) = <<>>
      BY <2>1
    <3>1. Pruned(attempts[w]) = PrunedAt(attempts[w], now)
      BY Zenon DEF Pruned, PrunedAt, Outside
    <3> DEFINE k == Outside(attempts[w], now)
    <3>2. /\ k \in 0..Len(attempts[w])
          /\ PrunedAt(attempts[w], now) \in Seq(Nat)
          /\ Len(PrunedAt(attempts[w], now)) = Len(attempts[w]) - k
      <4> HIDE DEF k
      <4> QED
        BY <2>2, PrunedFacts DEF k
    <3> HIDE DEF k
    <3>3. Len(attempts[w]) = 0
      OBVIOUS
    <3>4. Len(PrunedAt(attempts[w], now)) = 0
      BY <3>2, <3>3
    <3> QED
      BY <3>1, <3>2, <3>4, EmptySeq
  <2> QED
    BY <2>1, <2>3, Zenon DEF IdentitiesInv
<1>4. Len(Unpurged) \in Nat /\ Len(identities) \in Nat /\ MaxIdentities \in Nat
  BY <1>1, <1>2, AttemptAssumption DEF Dictionary, AttemptAssumption
<1> QED
  BY <1>2, <1>3, <1>4 DEF IdentitiesInv

(* A client is evicted only for one that is not live and from a table full *)
(* of live clients, and it is the first of them.                           *)
LEMMA EvictedFacts ==
  ASSUME WindowsInv, IdentitiesInv, NEW c \in Clients
  PROVE  \/ /\ Evicted(c) = {}
            /\ Live(c) \/ Len(Unpurged) < MaxIdentities
         \/ /\ ~Live(c)
            /\ Len(Unpurged) = MaxIdentities
            /\ Evicted(c) = {Unpurged[1]}
            /\ 1 \in 1..Len(Unpurged)
            /\ Unpurged[1] \in Members(Unpurged)
<1>1. /\ Dictionary(Unpurged, lastUse)
      /\ Len(Unpurged) \in Nat /\ Len(Unpurged) <= MaxIdentities
      /\ MaxIdentities \in Nat \ {0}
  BY UnpurgedFacts, AttemptAssumption DEF AttemptAssumption
<1>2. CASE Live(c) \/ Len(Unpurged) < MaxIdentities
  BY <1>2, Zenon DEF Evicted
<1>3. CASE ~(Live(c) \/ Len(Unpurged) < MaxIdentities)
  <2>1. Evicted(c) = {Head(Unpurged)}
    BY <1>3, Zenon DEF Evicted
  <2>2. Len(Unpurged) = MaxIdentities /\ 1 \in 1..Len(Unpurged)
    BY <1>1, <1>3
  <2>3. Unpurged \in Seq(Clients)
    BY <1>1, Zenon DEF Dictionary
  <2>4. Head(Unpurged) = Unpurged[1] /\ DOMAIN Unpurged = 1..Len(Unpurged)
    BY <2>2, <2>3
  <2>5. Unpurged[1] \in Members(Unpurged)
    BY <2>2, <2>4, Zenon DEF Members
  <2> QED
    BY <1>3, <2>1, <2>2, <2>4, <2>5, Zenon
<1> QED
  BY <1>2, <1>3

(* The dictionary after acquire, within its bound and in the order of the  *)
(* last uses, and the clients it names.                                    *)
LEMMA UsedFacts ==
  ASSUME WindowsInv, IdentitiesInv, NEW c \in Clients, NEW v,
         v[c] \in Nat,
         \A x \in Members(Unpurged) \ (Evicted(c) \cup {c}) :
           v[x] = lastUse[x] /\ v[x] <= v[c]
  PROVE  /\ Dictionary(Used(c), v)
         /\ Len(Used(c)) <= MaxIdentities
<1> DEFINE V == Restricted(Unpurged, Clients \ (Evicted(c) \cup {c}))
<1>1. /\ Dictionary(Unpurged, lastUse)
      /\ Members(Unpurged) = LiveClients
      /\ Len(Unpurged) \in Nat /\ Len(Unpurged) <= MaxIdentities
      /\ MaxIdentities \in Nat
  BY UnpurgedFacts, AttemptAssumption DEF AttemptAssumption
<1>2. /\ Dictionary(V, lastUse)
      /\ Members(V) = Members(Unpurged) \cap (Clients \ (Evicted(c) \cup {c}))
      /\ Len(V) <= Len(Unpurged)
      /\ ~(Members(Unpurged) \subseteq (Clients \ (Evicted(c) \cup {c}))) =>
           Len(V) < Len(Unpurged)
  BY <1>1, RestrictedDictionary
<1>3. Len(V) \in Nat
  BY <1>2 DEF Dictionary
<1>4. Used(c) = Append(V, c)
  BY Zenon DEF Used
<1> HIDE DEF V
<1>5. c \notin Members(V) /\ \A x \in Members(V) : v[x] = lastUse[x] /\ v[x] <= v[c]
  BY <1>2, Zenon
<1>6. Dictionary(Append(V, c), v) /\ Len(Append(V, c)) = Len(V) + 1
  BY <1>2, <1>5, AppendedDictionary
<1>7. Len(V) < MaxIdentities
  <2>1. CASE Live(c)
    <3>1. c \in Members(Unpurged)
      BY <1>1, <2>1, Zenon DEF LiveClients
    <3>2. Len(V) < Len(Unpurged)
      BY <1>2, <3>1, Zenon
    <3> QED
      BY <1>1, <1>3, <3>2
  <2>2. CASE Len(Unpurged) < MaxIdentities
    BY <1>1, <1>2, <1>3, <2>2
  <2>3. CASE Evicted(c) = {Unpurged[1]} /\ Unpurged[1] \in Members(Unpurged)
    <3>1. Len(V) < Len(Unpurged)
      BY <1>2, <2>3, Zenon
    <3> QED
      BY <1>1, <1>3, <3>1
  <2> QED
    BY <2>1, <2>2, <2>3, EvictedFacts
<1> QED
  BY <1>1, <1>3, <1>4, <1>6, <1>7

LEMMA UsedMembers ==
  ASSUME WindowsInv, IdentitiesInv, NEW c \in Clients
  PROVE  Members(Used(c)) = (LiveClients \ Evicted(c)) \cup {c}
<1> DEFINE V == Restricted(Unpurged, Clients \ (Evicted(c) \cup {c}))
<1>1. Dictionary(Unpurged, lastUse) /\ Members(Unpurged) = LiveClients
  BY UnpurgedFacts
<1>2. /\ Dictionary(V, lastUse)
      /\ Members(V) = LiveClients \cap (Clients \ (Evicted(c) \cup {c}))
  BY <1>1, RestrictedDictionary
<1>3. Used(c) = Append(V, c)
  BY Zenon DEF Used
<1> HIDE DEF V
<1>4. Members(Append(V, c)) = Members(V) \cup {c}
  BY <1>2, AppendedMembers, Zenon DEF Dictionary
<1>5. LiveClients \subseteq Clients
  BY Zenon DEF LiveClients
<1> QED
  BY <1>2, <1>3, <1>4, <1>5

(* What an attempt does to the deques: its own is not empty afterwards,    *)
(* and those of the evicted are.                                           *)
LEMMA AttemptEffect ==
  ASSUME WindowsInv, NEW w \in Windows, NEW gone, Attempt(w, gone),
         Full(w) => gone = {}
  PROVE  /\ attempts'[w] # <<>>
         /\ \A v \in Windows \ {w} :
              attempts'[v] = IF v[1] \in gone THEN <<>> ELSE Pruned(attempts[v])
<1> DEFINE kept == [v \in Windows |->
                     IF v[1] \in gone THEN <<>> ELSE Pruned(attempts[v])]
<1>1. \/ attempts' = [kept EXCEPT ![w] = Append(@, now)]
      \/ Full(w) /\ attempts' = kept
  BY Zenon DEF Attempt, Recorded
<1>2. ASSUME NEW v \in Windows
      PROVE  kept[v] \in Seq(Nat)
  <2>1. <<>> \in Seq(Nat)
    OBVIOUS
  <2>2. Sound(Limit(v), attempts[v], admitted[v], promise[v], now) /\ now \in Nat
    BY AttemptAssumption DEF WindowsInv, AttemptAssumption
  <2>3. Sound(Limit(v), PrunedAt(attempts[v], now), admitted[v], promise[v], now)
    BY <2>2, LimitPositive, PrunedSound, Zenon
  <2>4. Pruned(attempts[v]) = PrunedAt(attempts[v], now)
    BY Zenon DEF Pruned, PrunedAt, Outside
  <2>5. Pruned(attempts[v]) \in Seq(Nat)
    BY <2>3, <2>4, Zenon DEF Sound, Attempts
  <2> QED
    BY <2>1, <2>5, Zenon
<1>3. CASE attempts' = [kept EXCEPT ![w] = Append(@, now)]
  <2>1. /\ attempts'[w] = Append(kept[w], now)
        /\ \A v \in Windows \ {w} : attempts'[v] = kept[v]
    BY <1>3, Zenon
  <2>2. Append(kept[w], now) # <<>>
    <3> HIDE DEF kept
    <3>1. now \in Nat
      BY AttemptAssumption DEF WindowsInv, AttemptAssumption
    <3> QED
      BY <1>2, <3>1, AppendFacts
  <2> QED
    BY <2>1, <2>2, Zenon
<1>4. CASE Full(w) /\ attempts' = kept
  <2>1. kept[w] = Pruned(attempts[w])
    BY <1>4, Zenon
  <2>2. Len(kept[w]) >= Limit(w)
    BY <1>4, <2>1, Zenon DEF Full
  <2>3. kept[w] # <<>>
    <3> HIDE DEF kept
    <3> SUFFICES ASSUME kept[w] = <<>>
                 PROVE  FALSE
      OBVIOUS
    <3>1. Len(kept[w]) = 0
      OBVIOUS
    <3> QED
      BY <2>2, <3>1, LimitPositive
  <2> QED
    BY <1>4, <2>3, Zenon
<1> QED
  BY <1>1, <1>3, <1>4

(* acquire keeps the dictionary and the deques together; the clock leaves  *)
(* both alone.                                                             *)
LEMMA AcquireKeepsIdentities ==
  ASSUME WindowsInv, IdentitiesInv, NEW c \in Clients, NEW kind \in AttemptKinds,
         Acquire(kind, c)
  PROVE  IdentitiesInv'
<1> DEFINE w == <<c, kind>>
<1>1. w \in Windows /\ w[1] = c
  BY DEF Windows
<1> HIDE DEF w
<1>2. /\ Attempt(w, Evicted(c)) /\ now' = now /\ now \in Nat
      /\ identities' = Used(c)
      /\ lastUse' = [d \in Clients |->
                      IF d = c THEN now
                      ELSE IF d \in Retained' THEN lastUse[d] ELSE 0]
  BY AttemptAssumption DEF Acquire, w, WindowsInv, AttemptAssumption
<1>3. Full(w) => Evicted(c) = {}
  BY <1>1, FullIsLive, Zenon DEF Evicted
<1>4. /\ attempts'[w] # <<>>
      /\ \A v \in Windows \ {w} :
           attempts'[v] = IF v[1] \in Evicted(c) THEN <<>> ELSE Pruned(attempts[v])
  BY <1>1, <1>2, <1>3, AttemptEffect, Zenon
<1>5. Members(identities') = (LiveClients \ Evicted(c)) \cup {c}
  BY <1>2, UsedMembers, Zenon
<1>6. Retained' = Members(identities')
  BY Zenon DEF Retained, Members
<1>7. lastUse \in [Clients -> Nat] /\ \A d \in Clients : lastUse[d] <= now
  BY Zenon DEF IdentitiesInv
<1>8. \A d \in Clients : lastUse'[d] =
        IF d = c THEN now
        ELSE IF d \in Members(identities') THEN lastUse[d] ELSE 0
  BY <1>2, <1>6, Zenon
<1>9. lastUse' \in [Clients -> Nat] /\ \A d \in Clients : lastUse'[d] <= now'
  <2>1. \A d \in Clients : lastUse'[d] \in Nat /\ lastUse'[d] <= now
    BY <1>2, <1>7, <1>8
  <2>2. lastUse' = [d \in Clients |-> lastUse'[d]]
    BY <1>2
  <2> QED
    BY <1>2, <2>1, <2>2, Zenon
<1>10. Dictionary(identities', lastUse') /\ Len(identities') <= MaxIdentities
  <2>1. lastUse'[c] \in Nat /\ lastUse'[c] = now
    BY <1>2, <1>8
  <2>2. \A x \in Members(Unpurged) \ (Evicted(c) \cup {c}) :
          lastUse'[x] = lastUse[x] /\ lastUse'[x] <= lastUse'[c]
    <3> TAKE x \in Members(Unpurged) \ (Evicted(c) \cup {c})
    <3>1. x \in LiveClients \ Evicted(c) /\ x # c
      BY UnpurgedFacts, Zenon
    <3>2. x \in Clients
      BY <3>1, Zenon DEF LiveClients
    <3>3. lastUse'[x] = lastUse[x]
      BY <1>5, <1>8, <3>1, <3>2
    <3> QED
      BY <1>7, <2>1, <3>2, <3>3, Zenon
  <2> QED
    BY <1>2, <2>1, <2>2, UsedFacts, Zenon
<1>11. \A d \in Clients :
         d \in Members(identities') <=>
           \E v \in Windows : v[1] = d /\ attempts'[v] # <<>>
  <2> TAKE d \in Clients
  <2>1. CASE d = c
    BY <1>1, <1>4, <1>5, <2>1, Zenon
  <2>2. CASE d # c
    <3>1. \A v \in Windows : v[1] = d => v # w
      BY <1>1, <2>2, Zenon
    <3>2. d \in Members(identities') <=> Live(d) /\ d \notin Evicted(c)
      BY <1>5, <2>2, Zenon DEF LiveClients
    <3>3. Live(d) <=> \E v \in Windows : v[1] = d /\ Pruned(attempts[v]) # <<>>
      BY Zenon DEF Live
    <3> QED
      BY <1>4, <3>1, <3>2, <3>3, Zenon
  <2> QED
    BY <2>1, <2>2
<1> QED
  BY <1>9, <1>10, <1>11, Zenon DEF IdentitiesInv

LEMMA IdentitiesUntouched ==
  ASSUME IdentitiesInv, UNCHANGED <<identities, attempts, lastUse>>,
         now \in Nat, now' \in Nat, now <= now'
  PROVE  IdentitiesInv'
<1>1. \A c \in Clients : lastUse'[c] <= now'
  <2>1. \A c \in Clients : lastUse[c] \in Nat /\ lastUse[c] <= now
    BY Zenon DEF IdentitiesInv
  <2> QED
    BY <2>1
<1> QED
  BY <1>1, Zenon DEF IdentitiesInv

LEMMA InitIdentities ==
  ASSUME Init
  PROVE  IdentitiesInv
<1>1. /\ identities = <<>> /\ lastUse = [c \in Clients |-> 0] /\ now = 0
      /\ \A w \in Windows : attempts[w] = <<>>
  BY Zenon DEF Init
<1>2. /\ <<>> \in Seq(Clients) /\ Len(<<>>) = 0 /\ 1..0 = {}
      /\ 0 <= MaxIdentities /\ 0 \in Nat /\ 0 <= 0
  BY AttemptAssumption DEF AttemptAssumption
<1>3. Dictionary(<<>>, lastUse)
  BY <1>2 DEF Dictionary
<1>4. Members(<<>>) = {}
  BY DEF Members
<1> QED
  BY <1>1, <1>2, <1>3, <1>4, Zenon DEF IdentitiesInv

LimiterInv == WindowsInv /\ IdentitiesInv

(* The windows and the dictionary are sound in every state of the limiter, *)
(* for any clients, limits, window and capacity (limits.py                 *)
(* AttemptLimiter).                                                        *)
THEOREM LimiterInvariant == Spec => []LimiterInv
<1>1. Init => LimiterInv
  BY InitWindows, InitIdentities DEF LimiterInv
<1>2. LimiterInv /\ [Next]_vars => LimiterInv'
  <2> SUFFICES ASSUME WindowsInv, IdentitiesInv, [Next]_vars
               PROVE  WindowsInv' /\ IdentitiesInv'
    BY DEF LimiterInv
  <2>1. ASSUME NEW c \in Clients, NEW kind \in AttemptKinds, Acquire(kind, c)
        PROVE  WindowsInv' /\ IdentitiesInv'
    BY <2>1, AcquireKeepsWindows, AcquireKeepsIdentities
  <2>2. now \in Nat
    BY AttemptAssumption DEF WindowsInv, AttemptAssumption
  <2>3. CASE Tick
    <3>1. /\ now' \in Nat /\ now <= now'
          /\ UNCHANGED <<identities, attempts, lastUse>>
      BY <2>2, <2>3 DEF Tick
    <3> QED
      BY <2>2, <2>3, <3>1, TickKeepsWindows, IdentitiesUntouched
  <2>4. CASE UNCHANGED vars
    <3>1. /\ now' = now
          /\ UNCHANGED <<identities, attempts, lastUse>>
      BY <2>4 DEF vars
    <3>2. now' \in Nat /\ now <= now'
      BY <2>2, <3>1
    <3> QED
      BY <2>2, <2>4, <3>1, <3>2, StutterKeepsWindows, IdentitiesUntouched
  <2> QED
    BY <2>1, <2>3, <2>4, Zenon DEF Next
<1> QED
  BY <1>1, <1>2, PTL DEF Spec

(* No period as long as a window admits more than the limit, for any       *)
(* clients, limits and capacity (limits.py acquire, _prune_attempts).      *)
THEOREM WindowRolls == Spec => []RollingWindow
<1>1. LimiterInv => RollingWindow
  BY WindowsRoll DEF LimiterInv
<1> QED
  BY <1>1, LimiterInvariant, PTL

(* A client that waits as long as Retry-After said finds room, however     *)
(* fine the clock and however it rounds (limits.py retry_after).           *)
THEOREM RetryAfterKept == Spec => []RetryAfterHonoured
<1>1. LimiterInv => RetryAfterHonoured
  BY WindowsHonour DEF LimiterInv
<1> QED
  BY <1>1, LimiterInvariant, PTL

(* The dictionary keeps within max_identities and names exactly the        *)
(* clients with attempts on record (limits.py _purge_expired).             *)
THEOREM DictionaryIsBounded == Spec => []NoIdleIdentity
<1>1. LimiterInv => NoIdleIdentity
  <2> SUFFICES ASSUME IdentitiesInv
               PROVE  NoIdleIdentity
    BY DEF LimiterInv
  <2>1. /\ identities \in Seq(Clients)
        /\ \A i, j \in 1..Len(identities) : identities[i] = identities[j] => i = j
    BY Zenon DEF IdentitiesInv, Dictionary
  <2>2. DOMAIN identities = 1..Len(identities)
    BY <2>1
  <2>3. Retained = Members(identities)
    BY Zenon DEF Retained, Members
  <2> QED
    BY <2>1, <2>2, <2>3, Zenon DEF IdentitiesInv, NoIdleIdentity
<1> QED
  BY <1>1, LimiterInvariant, PTL

(* The client that acquire drops while it is live is the least recently    *)
(* used of a full table.                                                   *)
LEMMA AcquireForgetsTheOldest ==
  ASSUME WindowsInv, IdentitiesInv, NEW d \in Clients, NEW kind \in AttemptKinds,
         Acquire(kind, d), NEW c \in Clients, c \in Retained \ Retained', Live(c)
  PROVE  LET live == {x \in Retained : Live(x)} IN
         /\ Cardinality(live) = MaxIdentities
         /\ \A x \in live : lastUse[c] <= lastUse[x]
<1> DEFINE live == {x \in Retained : Live(x)}
<1>1. Retained = Members(identities) /\ Retained' = Members(identities')
  BY Zenon DEF Retained, Members
<1>2. Members(identities') = (LiveClients \ Evicted(d)) \cup {d}
  BY UsedMembers, Zenon DEF Acquire
<1>3. /\ Dictionary(Unpurged, lastUse)
      /\ Members(Unpurged) = LiveClients
      /\ Len(Unpurged) \in Nat
  BY UnpurgedFacts
<1>4. c \in LiveClients /\ c \in Evicted(d)
  <2>1. c \in LiveClients
    BY Zenon DEF LiveClients
  <2> QED
    BY <1>1, <1>2, <2>1
<1>5. /\ Len(Unpurged) = MaxIdentities
      /\ c = Unpurged[1] /\ 1 \in 1..Len(Unpurged)
  BY <1>4, EvictedFacts
<1>6. live = Members(Unpurged)
  <2>1. LiveClients \subseteq Retained
    <3> SUFFICES ASSUME NEW x \in LiveClients
                 PROVE  x \in Retained
      OBVIOUS
    <3>1. x \in Members(Unpurged)
      BY <1>3
    <3>2. Members(Unpurged) = Members(identities) \cap LiveClients
      <4>1. Unpurged = Restricted(identities, LiveClients)
        BY Zenon DEF Unpurged, LiveClients
      <4> QED
        BY <4>1, RestrictedDictionary, Zenon DEF IdentitiesInv
    <3> QED
      BY <1>1, <3>1, <3>2
  <2>2. \A x \in Retained : x \in Clients
    <3>1. identities \in Seq(Clients)
      BY Zenon DEF IdentitiesInv, Dictionary
    <3> QED
      BY <3>1 DEF Retained
  <2> QED
    BY <1>3, <2>1, <2>2 DEF LiveClients
<1>7. Cardinality(live) = MaxIdentities
  BY <1>3, <1>5, <1>6, DictionarySize
<1>8. ASSUME NEW x \in live
      PROVE  lastUse[c] <= lastUse[x]
  <2>1. DOMAIN Unpurged = 1..Len(Unpurged)
    <3>1. Unpurged \in Seq(Clients)
      BY <1>3, Zenon DEF Dictionary
    <3> QED
      BY <3>1
  <2>2. PICK j \in 1..Len(Unpurged) : x = Unpurged[j]
    BY <1>6, <1>8, <2>1, Zenon DEF Members
  <2>3. 1 <= j
    BY <1>3
  <2> QED
    BY <1>3, <1>5, <2>2, <2>3, Zenon DEF Dictionary
<1> QED
  BY <1>7, <1>8, Zenon

(* Only a full table forgets a live client, and then the least recently    *)
(* used one (limits.py acquire).                                           *)
THEOREM EvictionIsOfTheOldest == Spec => ForgetsOnlyTheOldest
<1> DEFINE Oldest(c) ==
      c \in Retained \ Retained' /\ Live(c) =>
        LET live == {d \in Retained : Live(d)} IN
        /\ Cardinality(live) = MaxIdentities
        /\ \A d \in live : lastUse[c] <= lastUse[d]
<1>1. LimiterInv /\ Next => \A c \in Clients : Oldest(c)
  <2> SUFFICES ASSUME WindowsInv, IdentitiesInv, Next, NEW c \in Clients,
                      c \in Retained \ Retained', Live(c)
               PROVE  LET live == {d \in Retained : Live(d)} IN
                      /\ Cardinality(live) = MaxIdentities
                      /\ \A d \in live : lastUse[c] <= lastUse[d]
    BY Zenon DEF LimiterInv
  <2>1. CASE Tick
    <3>1. Retained' = Retained
      BY <2>1, Zenon DEF Tick, Retained
    <3> QED
      BY <3>1, Zenon
  <2> QED
    BY <2>1, AcquireForgetsTheOldest, Zenon DEF Next
<1>2. LimiterInv /\ [Next]_vars => [\A c \in Clients : Oldest(c)]_vars
  <2> HIDE DEF Oldest
  <2> QED
    BY <1>1, Zenon
<1> QED
  BY <1>2, LimiterInvariant, PTL DEF Spec, ForgetsOnlyTheOldest

-----------------------------------------------------------------------------

(* What a record of a POST may be.                                         *)
PostSound(r) ==
  /\ r.pc \in {"free", "reading", "dispatched", "running"}
  /\ r.pc # "free" => r.msg \in Messages
  /\ r.pc = "running" =>
       /\ r.registered \in BOOLEAN
       /\ r.registered => r.msg.legacy /\ Key(r.msg) # NoKey

Registered(r, k) == r.pc = "running" /\ r.registered /\ Key(r.msg) = k
(* The registry and the calls it stands for.                               *)
ActiveKeys == {k \in Keys : active[k] > 0}

RegistryInv ==
  /\ post \in [Posts -> {post[p] : p \in Posts}]
  /\ \A p \in Posts : PostSound(post[p])
  /\ active \in [Keys -> Nat]
  /\ \A k \in Keys : active[k] = Cardinality(RegisteredCalls(k))
  /\ IsFiniteSet(ActiveKeys)
  /\ ActiveCount <= MaxActive

LEMMA CallsFinite ==
  ASSUME NEW k
  PROVE  IsFiniteSet(RegisteredCalls(k)) /\ Cardinality(RegisteredCalls(k)) \in Nat
<1>1. RegisteredCalls(k) \in SUBSET Posts
  BY Zenon DEF RegisteredCalls
<1>2. IsFiniteSet(Posts)
  BY BoundaryAssumption DEF BoundaryAssumption
<1>3. IsFiniteSet(RegisteredCalls(k))
  BY <1>1, <1>2, FS_Subset
<1> QED
  BY <1>3, FS_CardinalityType

(* A step of one POST adds it to the registered calls of a key or takes it *)
(* from them.                                                              *)
LEMMA CallsMove ==
  ASSUME RegistryInv, NEW p \in Posts, NEW r, post' = [post EXCEPT ![p] = r],
         NEW k
  PROVE  /\ Registered(r, k) =>
              RegisteredCalls(k)' = RegisteredCalls(k) \cup {p}
         /\ ~Registered(r, k) =>
              RegisteredCalls(k)' = RegisteredCalls(k) \ {p}
<1>1. post'[p] = r /\ \A q \in Posts \ {p} : post'[q] = post[q]
  BY Zenon DEF RegistryInv
<1>2. RegisteredCalls(k) = {q \in Posts : Registered(post[q], k)}
  BY Zenon DEF RegisteredCalls, InState, Registered
<1>3. RegisteredCalls(k)' = {q \in Posts : Registered(post'[q], k)}
  BY Zenon DEF RegisteredCalls, InState, Registered, Key, NoKey
<1>4. \A q \in Posts \ {p} :
        q \in RegisteredCalls(k)' <=> q \in RegisteredCalls(k)
  BY <1>1, <1>2, <1>3, Zenon
<1>5. p \in RegisteredCalls(k)' <=> Registered(r, k)
  BY <1>1, <1>3, Zenon
<1>6. \A q \in RegisteredCalls(k)' \cup RegisteredCalls(k) : q \in Posts
  BY <1>2, <1>3, Zenon
<1> QED
  BY <1>4, <1>5, <1>6, Zenon

LEMMA PostsStaySound ==
  ASSUME RegistryInv, NEW p \in Posts, NEW r, post' = [post EXCEPT ![p] = r],
         PostSound(r)
  PROVE  /\ (post \in [Posts -> {post[q] : q \in Posts}])'
         /\ \A q \in Posts : PostSound(post'[q])
<1>1. post'[p] = r /\ \A q \in Posts \ {p} : post'[q] = post[q]
  BY Zenon DEF RegistryInv
<1>2. post' = [q \in Posts |-> post'[q]]
  BY DEF RegistryInv
<1>3. \A q \in Posts : PostSound(post'[q])
  BY <1>1, Zenon DEF RegistryInv
<1>4. post' \in [Posts -> {post'[q] : q \in Posts}]
  BY <1>2, Zenon
<1> QED
  BY <1>3, <1>4, Zenon

(* A step of a POST that is not registered before it or after it.          *)
LEMMA UnregisteredStep ==
  ASSUME RegistryInv, NEW p \in Posts, NEW r, post' = [post EXCEPT ![p] = r],
         PostSound(r), active' = active,
         \A k : ~Registered(post[p], k), \A k : ~Registered(r, k)
  PROVE  RegistryInv'
<1>1. \A k \in Keys : RegisteredCalls(k)' = RegisteredCalls(k)
  <2> TAKE k \in Keys
  <2>1. RegisteredCalls(k)' = RegisteredCalls(k) \ {p}
    BY CallsMove, Zenon
  <2>2. p \notin RegisteredCalls(k)
    BY Zenon DEF RegisteredCalls, InState, Registered
  <2> QED
    BY <2>1, <2>2
<1>2. /\ ActiveKeys' = ActiveKeys /\ ActiveCount' = ActiveCount
      /\ active' \in [Keys -> Nat]
  BY Zenon DEF ActiveKeys, ActiveCount, RegistryInv, Keys, Key, NoKey
<1>3. \A k \in Keys : active'[k] = Cardinality(RegisteredCalls(k)')
  BY <1>1, Zenon DEF RegistryInv
<1>4. /\ (post \in [Posts -> {post[q] : q \in Posts}])'
      /\ \A q \in Posts : PostSound(post'[q])
  BY PostsStaySound, Zenon
<1>5. IsFiniteSet(ActiveKeys') /\ ActiveCount' <= MaxActive
  BY <1>2, Zenon DEF RegistryInv
<1>6. (\A q \in Posts : PostSound(post[q]))'
  BY <1>4, Zenon DEF PostSound, Key, NoKey
<1>7. (\A k \in Keys : active[k] = Cardinality(RegisteredCalls(k)))'
  BY <1>3, Zenon DEF Keys, Key, NoKey
<1>8. (active \in [Keys -> Nat])'
  BY <1>2, Zenon DEF Keys, Key, NoKey
<1> QED
  BY <1>4, <1>5, <1>6, <1>7, <1>8, Zenon DEF RegistryInv

(* begin: the entry of the call's key grows, and the registry if the key   *)
(* is new, for which there was room.                                       *)
LEMMA RegisteringStep ==
  ASSUME RegistryInv, NEW p \in Posts, NEW m \in Messages,
         InState(p, "dispatched"), CanRegister(m), NEW r,
         r = [pc |-> "running", msg |-> m, registered |-> TRUE],
         post' = [post EXCEPT ![p] = r],
         active' = [active EXCEPT ![Key(m)] = @ + 1]
  PROVE  RegistryInv'
<1> DEFINE key == Key(m)
<1>1. key \in Keys /\ m.legacy /\ key # NoKey
  BY DEF CanRegister, Keys
<1>2. r.pc = "running" /\ r.msg = m /\ r.registered = TRUE
  OBVIOUS
<1>3. PostSound(r) /\ \A k : Registered(r, k) <=> k = key
  BY <1>1, <1>2 DEF PostSound, Registered
<1>4. p \notin RegisteredCalls(key)
  BY DEF RegisteredCalls, InState
<1>5. active \in [Keys -> Nat] /\ \A k \in Keys : active[k] \in Nat
  BY Zenon DEF RegistryInv
<1>6. /\ active' \in [Keys -> Nat] /\ active'[key] = active[key] + 1
      /\ \A k \in Keys \ {key} : active'[k] = active[k]
  <2> HIDE DEF key
  <2>1. active' = [active EXCEPT ![key] = @ + 1]
    BY DEF key
  <2> QED
    BY <1>1, <1>5, <2>1
<1> HIDE DEF key
<1>7. \A k \in Keys : active'[k] = Cardinality(RegisteredCalls(k)')
  <2> TAKE k \in Keys
  <2>1. active[k] = Cardinality(RegisteredCalls(k))
    BY Zenon DEF RegistryInv
  <2>2. CASE k = key
    <3>1. RegisteredCalls(k)' = RegisteredCalls(k) \cup {p}
      BY <1>3, <2>2, CallsMove, Zenon
    <3>2. Cardinality(RegisteredCalls(k) \cup {p}) = Cardinality(RegisteredCalls(k)) + 1
      BY <1>4, <2>2, CallsFinite, FS_AddElement
    <3> QED
      BY <1>6, <2>1, <2>2, <3>1, <3>2
  <2>3. CASE k # key
    <3>1. RegisteredCalls(k)' = RegisteredCalls(k) \ {p}
      BY <1>3, <2>3, CallsMove, Zenon
    <3>2. p \notin RegisteredCalls(k)
      BY DEF RegisteredCalls, InState
    <3>3. RegisteredCalls(k)' = RegisteredCalls(k)
      BY <3>1, <3>2
    <3> QED
      BY <1>6, <2>1, <2>3, <3>3, Zenon
  <2> QED
    BY <2>2, <2>3
<1>8. IsFiniteSet(ActiveKeys') /\ ActiveCount' <= MaxActive
  <2>1. IsFiniteSet(ActiveKeys) /\ Cardinality(ActiveKeys) <= MaxActive
    BY Zenon DEF RegistryInv, ActiveKeys, ActiveCount
  <2>2. Cardinality(ActiveKeys) \in Nat /\ MaxActive \in Nat
    BY <2>1, FS_CardinalityType, BoundaryAssumption DEF BoundaryAssumption
  <2>3. ActiveKeys' = ActiveKeys \cup {key}
    <3>1. \A k \in Keys : active'[k] > 0 <=> active[k] > 0 \/ k = key
      BY <1>1, <1>5, <1>6
    <3> QED
      BY <1>1, <3>1 DEF ActiveKeys, Keys, Key, NoKey
  <2>4. active[key] > 0 \/ Cardinality(ActiveKeys) < MaxActive
    BY Zenon DEF CanRegister, ActiveCount, ActiveKeys, key
  <2>5. active[key] > 0 => key \in ActiveKeys
    BY <1>1 DEF ActiveKeys
  <2>6. /\ IsFiniteSet(ActiveKeys \cup {key})
        /\ Cardinality(ActiveKeys \cup {key}) =
             IF key \in ActiveKeys THEN Cardinality(ActiveKeys)
             ELSE Cardinality(ActiveKeys) + 1
    BY <2>1, FS_AddElement
  <2>7. IsFiniteSet(ActiveKeys') /\ Cardinality(ActiveKeys') <= MaxActive
    BY <2>1, <2>2, <2>3, <2>4, <2>5, <2>6
  <2> QED
    BY <2>7, Zenon DEF ActiveCount, ActiveKeys, Keys, Key, NoKey
<1>9. /\ (post \in [Posts -> {post[q] : q \in Posts}])'
      /\ \A q \in Posts : PostSound(post'[q])
  BY <1>3, PostsStaySound, Zenon
<1>10. (\A q \in Posts : PostSound(post[q]))'
  BY <1>9, Zenon DEF PostSound, Key, NoKey
<1>11. (\A k \in Keys : active[k] = Cardinality(RegisteredCalls(k)))'
  BY <1>7, Zenon DEF Keys, Key, NoKey
<1>12. (active \in [Keys -> Nat])'
  BY <1>6, Zenon DEF Keys, Key, NoKey
<1> QED
  BY <1>8, <1>9, <1>10, <1>11, <1>12, Zenon DEF RegistryInv

(* finish: the entry shrinks by the one call that ends.                    *)
LEMMA UnregisteringStep ==
  ASSUME RegistryInv, NEW p \in Posts, InState(p, "running"),
         post[p].registered, post' = [post EXCEPT ![p] = FreePost],
         active' = [active EXCEPT ![Key(post[p].msg)] = @ - 1]
  PROVE  RegistryInv'
<1> DEFINE key == Key(post[p].msg)
<1>1. post[p].pc = "running" /\ post[p].msg \in Messages /\ key # NoKey
  BY Zenon DEF RegistryInv, PostSound, InState
<1>2. key \in Keys
  BY <1>1, Zenon DEF Keys
<1>3. FreePost.pc = "free"
  BY DEF FreePost
<1>4. PostSound(FreePost) /\ \A k : ~Registered(FreePost, k)
  BY <1>3 DEF PostSound, Registered
<1>5. /\ p \in RegisteredCalls(key)
      /\ \A k \in Keys \ {key} : p \notin RegisteredCalls(k)
  BY Zenon DEF RegisteredCalls, InState
<1>6. /\ active \in [Keys -> Nat] /\ \A k \in Keys : active[k] \in Nat
      /\ active' = [active EXCEPT ![key] = @ - 1]
  BY Zenon DEF RegistryInv
<1> HIDE DEF key
<1>7. /\ active[key] = Cardinality(RegisteredCalls(key))
      /\ Cardinality(RegisteredCalls(key) \ {p}) = active[key] - 1
      /\ active[key] - 1 \in Nat
  <2>1. active[key] = Cardinality(RegisteredCalls(key))
    BY <1>2, Zenon DEF RegistryInv
  <2>2. /\ IsFiniteSet(RegisteredCalls(key) \ {p})
        /\ Cardinality(RegisteredCalls(key) \ {p}) =
             Cardinality(RegisteredCalls(key)) - 1
    BY <1>5, CallsFinite, FS_RemoveElement
  <2>3. Cardinality(RegisteredCalls(key) \ {p}) \in Nat
    BY <2>2, FS_CardinalityType
  <2> QED
    BY <2>1, <2>2, <2>3
<1>8. /\ active' \in [Keys -> Nat] /\ active'[key] = active[key] - 1
      /\ \A k \in Keys \ {key} : active'[k] = active[k]
  BY <1>2, <1>6, <1>7
<1>9. \A k \in Keys : active'[k] = Cardinality(RegisteredCalls(k)')
  <2> TAKE k \in Keys
  <2>1. RegisteredCalls(k)' = RegisteredCalls(k) \ {p}
    BY <1>4, CallsMove, Zenon
  <2>2. CASE k = key
    BY <1>7, <1>8, <2>1, <2>2, Zenon
  <2>3. CASE k # key
    <3>1. RegisteredCalls(k)' = RegisteredCalls(k)
      BY <1>5, <2>1, <2>3
    <3>2. active[k] = Cardinality(RegisteredCalls(k))
      BY Zenon DEF RegistryInv
    <3> QED
      BY <1>8, <2>3, <3>1, <3>2, Zenon
  <2> QED
    BY <2>2, <2>3
<1>10. IsFiniteSet(ActiveKeys') /\ ActiveCount' <= MaxActive
  <2>1. IsFiniteSet(ActiveKeys) /\ Cardinality(ActiveKeys) <= MaxActive
    BY Zenon DEF RegistryInv, ActiveKeys, ActiveCount
  <2>2. Cardinality(ActiveKeys) \in Nat /\ MaxActive \in Nat
    BY <2>1, FS_CardinalityType, BoundaryAssumption DEF BoundaryAssumption
  <2>3. ActiveKeys' \in SUBSET ActiveKeys
    <3>1. \A k \in Keys : active'[k] > 0 => active[k] > 0
      BY <1>6, <1>8
    <3> QED
      BY <3>1 DEF ActiveKeys, Keys, Key, NoKey
  <2>4. IsFiniteSet(ActiveKeys') /\ Cardinality(ActiveKeys') <= Cardinality(ActiveKeys)
    BY <2>1, <2>3, FS_Subset
  <2>5. Cardinality(ActiveKeys') \in Nat
    BY <2>4, FS_CardinalityType
  <2>6. Cardinality(ActiveKeys') <= MaxActive
    BY <2>1, <2>2, <2>4, <2>5
  <2> QED
    BY <2>4, <2>6, Zenon DEF ActiveCount, ActiveKeys, Keys, Key, NoKey
<1>11. /\ (post \in [Posts -> {post[q] : q \in Posts}])'
       /\ \A q \in Posts : PostSound(post'[q])
  BY <1>4, PostsStaySound, Zenon
<1>12. (\A q \in Posts : PostSound(post[q]))'
  BY <1>11, Zenon DEF PostSound, Key, NoKey
<1>13. (\A k \in Keys : active[k] = Cardinality(RegisteredCalls(k)))'
  BY <1>9, Zenon DEF Keys, Key, NoKey
<1>14. (active \in [Keys -> Nat])'
  BY <1>8, Zenon DEF Keys, Key, NoKey
<1> QED
  BY <1>10, <1>11, <1>12, <1>13, <1>14, Zenon DEF RegistryInv

(* Every step of a POST is one of these three.                             *)
LEMMA BoundaryStepKeepsRegistry ==
  ASSUME RegistryInv, NEW p \in Posts,
         \/ Arrive(p) \/ BodyAbandoned(p) \/ BodyRead(p)
         \/ SdkAnswers(p) \/ CallBegins(p) \/ CallEnds(p)
  PROVE  RegistryInv'
<1>1. PostSound(post[p])
  BY Zenon DEF RegistryInv
<1>2. FreePost.pc = "free"
  BY DEF FreePost
<1>3. PostSound(FreePost) /\ \A k : ~Registered(FreePost, k)
  BY <1>2 DEF PostSound, Registered
<1>4. ~InState(p, "running") => \A k : ~Registered(post[p], k)
  BY Zenon DEF Registered, InState
<1>5. CASE Arrive(p)
  <2>1. PICK m \in Messages : post' = [post EXCEPT ![p] = [pc |-> "reading", msg |-> m]]
    BY <1>5, Zenon DEF Arrive
  <2> DEFINE r == [pc |-> "reading", msg |-> m]
  <2>2. r.pc = "reading" /\ r.msg = m
    OBVIOUS
  <2>3. post' = [post EXCEPT ![p] = r]
    BY <2>1
  <2> HIDE DEF r
  <2>4. PostSound(r) /\ \A k : ~Registered(r, k)
    BY <2>2 DEF PostSound, Registered
  <2>5. ~InState(p, "running") /\ active' = active
    BY <1>5 DEF Arrive, InState
  <2> QED
    BY <1>4, <2>3, <2>4, <2>5, UnregisteredStep
<1>6. CASE BodyAbandoned(p)
  <2>1. ~InState(p, "running") /\ active' = active
    BY <1>6 DEF BodyAbandoned, InState
  <2>2. post' = [post EXCEPT ![p] = FreePost]
    BY <1>6, Zenon DEF BodyAbandoned
  <2> QED
    BY <1>3, <1>4, <2>1, <2>2, UnregisteredStep
<1>7. CASE BodyRead(p)
  <2> DEFINE m == post[p].msg
             q == [pc |-> "dispatched", msg |-> m]
  <2>1. ~InState(p, "running") /\ active' = active /\ post[p].pc = "reading"
    BY <1>7 DEF BodyRead, InState
  <2>2. m \in Messages
    BY <1>1, <2>1 DEF PostSound
  <2>3. q.pc = "dispatched" /\ q.msg = m
    OBVIOUS
  <2>4. \/ post' = [post EXCEPT ![p] = FreePost]
        \/ post' = [post EXCEPT ![p] = q]
    <3>1. PICK b \in {TRUE, FALSE} :
            post' = [post EXCEPT ![p] = IF b THEN FreePost ELSE q]
      BY <1>7 DEF BodyRead
    <3> QED
      BY <3>1
  <2> HIDE DEF q, m
  <2>5. PostSound(q) /\ \A k : ~Registered(q, k)
    BY <2>2, <2>3 DEF PostSound, Registered
  <2> QED
    BY <1>3, <1>4, <2>1, <2>4, <2>5, UnregisteredStep
<1>8. CASE SdkAnswers(p)
  <2>1. ~InState(p, "running") /\ active' = active
    BY <1>8 DEF SdkAnswers, InState
  <2>2. post' = [post EXCEPT ![p] = FreePost]
    BY <1>8, Zenon DEF SdkAnswers
  <2> QED
    BY <1>3, <1>4, <2>1, <2>2, UnregisteredStep
<1>9. CASE CallBegins(p)
  <2> DEFINE m == post[p].msg
  <2>1. post[p].pc = "dispatched" /\ InState(p, "dispatched") /\ ~InState(p, "running")
    BY <1>9 DEF CallBegins, InState
  <2>2. m \in Messages
    BY <1>1, <2>1 DEF PostSound
  <2>3. /\ post' = [post EXCEPT ![p] =
                     [pc |-> "running", msg |-> m, registered |-> CanRegister(m)]]
        /\ active' = IF CanRegister(m) THEN [active EXCEPT ![Key(m)] = @ + 1]
                     ELSE active
    BY <1>9, Zenon DEF CallBegins
  <2> HIDE DEF m
  <2>4. CASE CanRegister(m)
    <3> DEFINE r == [pc |-> "running", msg |-> m, registered |-> TRUE]
    <3>1. CanRegister(m) = TRUE
      BY <2>4 DEF CanRegister
    <3>2. post' = [post EXCEPT ![p] = r]
      BY <2>3, <3>1, Zenon
    <3>3. active' = [active EXCEPT ![Key(m)] = @ + 1]
      BY <2>3, <2>4, Zenon
    <3> QED
      BY <2>1, <2>2, <2>4, <3>2, <3>3, RegisteringStep, Zenon
  <2>5. CASE ~CanRegister(m)
    <3> DEFINE r == [pc |-> "running", msg |-> m, registered |-> FALSE]
    <3>1. CanRegister(m) = FALSE
      BY <2>5 DEF CanRegister
    <3>2. post' = [post EXCEPT ![p] = r]
      BY <2>3, <3>1, Zenon
    <3>3. active' = active
      BY <2>3, <2>5, Zenon
    <3>4. r.pc = "running" /\ r.msg = m /\ r.registered = FALSE
      OBVIOUS
    <3> HIDE DEF r
    <3>5. PostSound(r)
      BY <2>2, <3>4 DEF PostSound
    <3>6. \A k : ~Registered(r, k)
      BY <3>4, Zenon DEF Registered
    <3> QED
      BY <1>4, <2>1, <3>2, <3>3, <3>5, <3>6, UnregisteredStep, Zenon
  <2> QED
    BY <2>4, <2>5
<1>10. CASE CallEnds(p)
  <2>1. /\ InState(p, "running") /\ active' = Finished(p)
        /\ post' = [post EXCEPT ![p] = FreePost]
    BY <1>10, Zenon DEF CallEnds
  <2>2. CASE post[p].registered
    <3>1. active' = [active EXCEPT ![Key(post[p].msg)] = @ - 1]
      BY <2>1, <2>2, Zenon DEF Finished
    <3> QED
      BY <2>1, <2>2, <3>1, UnregisteringStep, Zenon
  <2>3. CASE ~post[p].registered
    <3>1. active' = active
      BY <2>1, <2>3, Zenon DEF Finished
    <3>2. \A k : ~Registered(post[p], k)
      BY <2>3, Zenon DEF Registered
    <3> QED
      BY <1>3, <2>1, <3>1, <3>2, UnregisteredStep, Zenon
  <2> QED
    BY <2>2, <2>3
<1> QED
  BY <1>5, <1>6, <1>7, <1>8, <1>9, <1>10

LEMMA RegistryUntouched ==
  ASSUME RegistryInv, UNCHANGED <<post, active>>
  PROVE  RegistryInv'
BY Zenon DEF RegistryInv, PostSound, ActiveKeys, ActiveCount, RegisteredCalls,
             InState, Keys, Key, NoKey

LEMMA InitRegistry ==
  ASSUME BoundaryInit
  PROVE  RegistryInv
<1>1. post = [p \in Posts |-> FreePost] /\ active = [k \in Keys |-> 0]
  BY Zenon DEF BoundaryInit
<1>2. FreePost.pc = "free" /\ PostSound(FreePost)
  BY DEF FreePost, PostSound
<1>3. \A p \in Posts : PostSound(post[p]) /\ ~InState(p, "running")
  BY <1>1, <1>2 DEF InState
<1>4. \A k \in Keys : RegisteredCalls(k) = {} /\ active[k] = 0
  BY <1>1, <1>3 DEF RegisteredCalls
<1>5. ActiveKeys = {}
  BY <1>4 DEF ActiveKeys
<1>6. ActiveCount = 0 /\ IsFiniteSet(ActiveKeys) /\ MaxActive \in Nat
  BY <1>5, FS_EmptySet, BoundaryAssumption
  DEF ActiveKeys, ActiveCount, BoundaryAssumption
<1>7. \A k \in Keys : active[k] = Cardinality(RegisteredCalls(k))
  BY <1>4, FS_EmptySet
<1>8. active \in [Keys -> Nat] /\ post \in [Posts -> {post[p] : p \in Posts}]
  <2>1. active \in [Keys -> Nat]
    BY <1>1
  <2>2. post \in [Posts -> {post[p] : p \in Posts}]
    BY <1>1
  <2> QED
    BY <2>1, <2>2
<1> QED
  BY <1>3, <1>6, <1>7, <1>8 DEF RegistryInv

BoundaryInv == WindowsInv /\ RegistryInv

(* The windows and the registry are sound in every state, for any POSTs    *)
(* that are finitely many, any messages and any limits (mcp/middleware.py, *)
(* limits.py acquire_mcp_post).                                            *)
THEOREM BoundaryInvariant == BoundarySpec => []BoundaryInv
<1>1. BoundaryInit => BoundaryInv
  BY InitWindows, InitRegistry, Zenon DEF BoundaryInv, BoundaryInit
<1>2. BoundaryInv /\ [BoundaryNext]_boundaryVars => BoundaryInv'
  <2> SUFFICES ASSUME WindowsInv, RegistryInv, [BoundaryNext]_boundaryVars
               PROVE  WindowsInv' /\ RegistryInv'
    BY DEF BoundaryInv
  <2>1. ASSUME NEW p \in Posts,
               \/ Arrive(p) \/ BodyAbandoned(p) \/ BodyRead(p)
               \/ SdkAnswers(p) \/ CallBegins(p) \/ CallEnds(p)
        PROVE  WindowsInv' /\ RegistryInv'
    <3>1. RegistryInv'
      BY <2>1, BoundaryStepKeepsRegistry, Zenon
    <3>2. CASE BodyRead(p)
      <4>1. PICK kind \in PostKinds : AcquireMcpPost(kind)
        BY <3>2 DEF BodyRead, PostKinds
      <4> QED
        BY <3>1, <4>1, PostKeepsWindows
    <3>3. CASE ~BodyRead(p)
      <4>1. UNCHANGED vars
        BY <2>1, <3>3, Zenon
        DEF Arrive, BodyAbandoned, SdkAnswers, CallBegins, CallEnds, vars
      <4> QED
        BY <3>1, <4>1, StutterKeepsWindows
    <3> QED
      BY <3>2, <3>3
  <2>2. CASE TimePasses
    BY <2>2, TickKeepsWindows, RegistryUntouched, Zenon DEF TimePasses
  <2>3. CASE UNCHANGED boundaryVars
    <3>1. UNCHANGED vars /\ UNCHANGED <<post, active>>
      BY <2>3, Zenon DEF boundaryVars
    <3> QED
      BY <3>1, StutterKeepsWindows, RegistryUntouched
  <2> QED
    BY <2>1, <2>2, <2>3, Zenon DEF BoundaryNext
<1> QED
  BY <1>1, <1>2, PTL DEF BoundarySpec

(* The registry counts exactly the registered calls under way and keeps    *)
(* within its bound (mcp/middleware.py begin and finish).                  *)
THEOREM RegistryIsTrue == BoundarySpec => []RegistryTellsTheTruth
<1>1. BoundaryInv => RegistryTellsTheTruth
  BY Zenon DEF BoundaryInv, RegistryInv, RegistryTellsTheTruth
<1> QED
  BY <1>1, BoundaryInvariant, PTL
-----------------------------------------------------------------------------

(* The admissions of a window that are not a window's length ago.          *)
RecentOf(w) ==
  {i \in DOMAIN admitted[w] : admitted[w][i] > now - Window}

(* No more than the limit of a window's admissions are recent, and a full  *)
(* window has one.                                                         *)
LEMMA RecentWithinLimit ==
  ASSUME WindowsInv, NEW w \in Windows
  PROVE  /\ IsFiniteSet(RecentOf(w))
         /\ Cardinality(RecentOf(w)) \in Nat
         /\ Cardinality(RecentOf(w)) <= Limit(w)
         /\ Full(w) => RecentOf(w) # {}
<1> DEFINE a == attempts[w]
           h == admitted[w]
           l == Limit(w)
           n == Len(h)
           R == RecentOf(w)
<1>1. l \in Nat \ {0} /\ now \in Nat /\ Window \in Nat
  BY LimitPositive, AttemptAssumption DEF WindowsInv, AttemptAssumption
<1>2. Attempts(l, a, now) /\ Accounts(a, h, now) /\ History(l, h)
  BY Zenon DEF WindowsInv, Sound
<1>3. R = {i \in DOMAIN h : h[i] > now - Window}
  BY Zenon DEF RecentOf
<1>4. Full(w) => Len(PrunedAt(a, now)) >= l
  BY Zenon DEF Full, Pruned, PrunedAt, Outside
<1> HIDE DEF a, h, l, R
<1>5. h \in Seq(Nat) /\ n \in Nat /\ n <= l + 1 /\ DOMAIN h = 1..n
  BY <1>2 DEF History
<1>6. \A i \in 1..n : h[i] \in Nat
  BY <1>5
<1>7. a \in Seq(Nat) /\ InOrder(a) /\ Len(a) \in Nat /\ n - Len(a) \in Nat
      /\ \A i \in 1..Len(a) : a[i] \in Nat /\ a[i] <= now
  <2>1. a \in Seq(Nat)
    BY <1>2 DEF Attempts
  <2>2. \A i \in 1..Len(a) : a[i] \in Nat
    BY <2>1
  <2> QED
    BY <1>2, <2>1, <2>2 DEF Attempts, Accounts
<1>8. \A i \in 1..n : h[i] <= now
  <2> TAKE i \in 1..n
  <2>1. CASE i \in 1..(n - Len(a))
    <3>1. h[i] + Window <= now
      BY <1>2, <2>1 DEF Accounts
    <3> QED
      BY <1>1, <1>6, <3>1
  <2>2. CASE i \notin 1..(n - Len(a))
    <3>1. i - (n - Len(a)) \in 1..Len(a) /\ (n - Len(a)) + (i - (n - Len(a))) = i
      BY <1>5, <1>7, <2>2
    <3>2. a[i - (n - Len(a))] = h[(n - Len(a)) + (i - (n - Len(a)))]
      BY <1>2, <3>1 DEF Accounts
    <3> QED
      BY <1>7, <3>1, <3>2
  <2> QED
    BY <2>1, <2>2
<1>a. l \in Nat \ {0} /\ n \in Nat /\ n <= l + 1
  BY <1>1, <1>5
<1>9. R \in SUBSET (1..n)
  BY <1>3, <1>5
<1>10. IsFiniteSet(R) /\ Cardinality(R) \in Nat
  BY <1>5, <1>9, SizeUpTo, FS_Subset, FS_CardinalityType
<1>11. Cardinality(R) <= l
  <2>1. CASE n <= l
    <3>1. Cardinality(1..n) = n /\ IsFiniteSet(1..n)
      BY <1>5, SizeUpTo
    <3>2. Cardinality(R) <= Cardinality(1..n)
      BY <1>9, <3>1, FS_Subset
    <3> QED
      BY <1>1, <1>5, <1>10, <2>1, <3>1, <3>2
  <2>2. CASE ~(n <= l)
    <3>1. n = l + 1
      <4> HIDE DEF n
      <4> QED
        BY <1>a, <2>2
    <3>2. h[n] - h[1] >= Window /\ 1 \in 1..n /\ n \in 1..n
      <4>1. h[l + 1] - h[1] >= Window
        BY <1>2, <3>1 DEF History
      <4> QED
        BY <1>1, <3>1, <4>1
    <3>3. h[1] + Window <= now
      BY <1>1, <1>6, <1>8, <3>2
    <3>4. 1 \notin R
      BY <1>1, <1>3, <1>6, <3>2, <3>3
    <3>5. R \in SUBSET ((1..n) \ {1})
      BY <1>9, <3>4
    <3>6. /\ IsFiniteSet((1..n) \ {1})
          /\ Cardinality((1..n) \ {1}) = Cardinality(1..n) - 1
      BY <1>5, <3>2, SizeUpTo, FS_RemoveElement
    <3>7. Cardinality(1..n) = n
      BY <1>5, SizeUpTo
    <3>8. Cardinality(R) <= Cardinality((1..n) \ {1})
      BY <3>5, <3>6, FS_Subset
    <3> QED
      BY <1>1, <1>10, <3>1, <3>6, <3>7, <3>8
  <2> QED
    BY <2>1, <2>2
<1>12. ASSUME Full(w)
       PROVE  R # {}
  <2> DEFINE k == Outside(a, now)
  <2>1. /\ k \in 0..Len(a)
        /\ Len(PrunedAt(a, now)) = Len(a) - k
        /\ \A i \in (k + 1)..Len(a) : a[i] + Window > now
    <3> HIDE DEF k
    <3> QED
      BY <1>1, <1>7, PrunedFacts DEF k
  <2> HIDE DEF k
  <2>2. Len(a) \in (k + 1)..Len(a) /\ Len(a) \in 1..Len(a)
    <3>1. Len(a) - k >= l
      BY <1>4, <1>12, <2>1
    <3> QED
      BY <1>1, <1>7, <2>1, <3>1
  <2>3. a[Len(a)] + Window > now
    BY <2>1, <2>2
  <2>4. a[Len(a)] = h[(n - Len(a)) + Len(a)] /\ (n - Len(a)) + Len(a) = n
    <3>1. (n - Len(a)) + Len(a) = n
      BY <1>5, <1>7
    <3>2. \A i \in 1..Len(a) : a[i] = h[(n - Len(a)) + i]
      BY <1>2 DEF Accounts
    <3> QED
      BY <2>2, <3>1, <3>2
  <2>5. n \in 1..n
    BY <1>5, <1>7, <2>2
  <2>6. n \in R
    BY <1>1, <1>3, <1>5, <1>6, <2>3, <2>4, <2>5
  <2> QED
    BY <2>6
<1> QED
  BY <1>10, <1>11, <1>12 DEF R, l

(* The two MCP windows together, as PostsWithinWindow says.                *)
LEMMA WindowsKeepPosts ==
  ASSUME WindowsInv
  PROVE  PostsWithinWindow
<1> DEFINE reg == <<Mcp, "regular">>
           can == <<Mcp, "cancellation">>
<1>1. ReserveMcp /\ ExtractionLimit \in Nat
  BY AttemptAssumption, BoundaryAssumption
  DEF AttemptAssumption, BoundaryAssumption
<1>2. reg \in Windows /\ can \in Windows
  BY <1>1 DEF Windows, PostKinds
<1>3. Limit(reg) = ExtractionLimit - 1 /\ Limit(can) = 1
  BY DEF Limit
<1> HIDE DEF reg, can
<1>4. /\ Cardinality(RecentOf(reg)) \in Nat
      /\ Cardinality(RecentOf(can)) \in Nat
      /\ Cardinality(RecentOf(reg)) <= Limit(reg)
      /\ Cardinality(RecentOf(can)) <= Limit(can)
      /\ Full(can) => RecentOf(can) # {}
  BY <1>2, RecentWithinLimit, Zenon
<1>5. Cardinality(RecentOf(reg)) + Cardinality(RecentOf(can)) <= ExtractionLimit
  BY <1>1, <1>3, <1>4
<1>6. RetryAfterHonoured
  BY WindowsHonour
<1> QED
  BY <1>4, <1>5, <1>6, Zenon DEF PostsWithinWindow, RecentOf, reg, can

Charged(kind) == admitted'[<<Mcp, kind>>] # admitted[<<Mcp, kind>>]

(* A call that m cancels is registered and under way in m's session.       *)
Cancels(m) ==
  /\ m.kind = "cancel"
  /\ m.legacy
  /\ \E q \in Posts :
       /\ InState(q, "running") /\ post[q].registered
       /\ post[q].msg.session = m.session
       /\ Canonical[post[q].msg.id] = Canonical[m.id]

ChargedAsDue(p) ==
  InState(p, "reading") /\ post'[p] # post[p] =>
    /\ Charged("cancellation") => Cancels(post[p].msg)
    /\ Charged("regular") => ~Cancels(post[p].msg)

(* _is_active_cancellation decides by the registry what is true of the     *)
(* calls: the invariant makes the two agree.                               *)
LEMMA DecisionIsRight ==
  ASSUME RegistryInv, NEW m \in Messages
  PROVE  IsActiveCancellation(m) <=> Cancels(m)
<1> DEFINE key == Key(m)
<1>1. key = IF m.session = NoSession THEN NoKey
            ELSE <<m.session, Canonical[m.id]>>
  BY Zenon DEF Key
<1>2. ASSUME key # NoKey
      PROVE  key \in Keys /\ active[key] = Cardinality(RegisteredCalls(key))
  <2>1. key \in Keys
    BY <1>2, Zenon DEF Keys
  <2> QED
    BY <2>1, Zenon DEF RegistryInv
<1>3. \A q \in Posts :
        InState(q, "running") /\ post[q].registered => Key(post[q].msg) # NoKey
  BY Zenon DEF RegistryInv, PostSound, InState
<1>4. ASSUME IsActiveCancellation(m)
      PROVE  Cancels(m)
  <2>1. m.kind = "cancel" /\ m.legacy /\ key # NoKey /\ active[key] > 0
    BY <1>4, Zenon DEF IsActiveCancellation, Contains
  <2>2. RegisteredCalls(key) # {}
    <3>1. Cardinality({}) = 0
      BY FS_EmptySet
    <3>2. Cardinality(RegisteredCalls(key)) > 0
      BY <1>2, <2>1, Zenon
    <3> HIDE DEF key
    <3> QED
      BY <3>1, <3>2
  <2>3. PICK q \in Posts : /\ InState(q, "running") /\ post[q].registered
                           /\ Key(post[q].msg) = key
    BY <2>2, Zenon DEF RegisteredCalls
  <2>4. key = <<m.session, Canonical[m.id]>>
    BY <1>1, <2>1
  <2>5. key = <<post[q].msg.session, Canonical[post[q].msg.id]>>
    BY <2>1, <2>3, Zenon DEF Key
  <2>6. /\ post[q].msg.session = m.session
        /\ Canonical[post[q].msg.id] = Canonical[m.id]
    <3> HIDE DEF key
    <3> QED
      BY <2>4, <2>5
  <2> QED
    BY <2>1, <2>3, <2>6, Zenon DEF Cancels
<1>5. ASSUME Cancels(m)
      PROVE  IsActiveCancellation(m)
  <2>1. PICK q \in Posts : /\ InState(q, "running") /\ post[q].registered
                           /\ post[q].msg.session = m.session
                           /\ Canonical[post[q].msg.id] = Canonical[m.id]
    BY <1>5, Zenon DEF Cancels
  <2>2. Key(post[q].msg) = key /\ key # NoKey
    <3>1. Key(post[q].msg) = key
      BY <2>1, Zenon DEF Key
    <3> QED
      BY <1>3, <2>1, <3>1, Zenon
  <2>3. q \in RegisteredCalls(key)
    BY <2>1, <2>2, Zenon DEF RegisteredCalls
  <2>4. active[key] > 0
    <3>1. active[key] = Cardinality(RegisteredCalls(key))
      BY <1>2, <2>2, Zenon
    <3> HIDE DEF key
    <3>2. /\ IsFiniteSet(RegisteredCalls(key))
          /\ Cardinality(RegisteredCalls(key)) \in Nat
      BY CallsFinite
    <3>3. Cardinality(RegisteredCalls(key)) # 0
      BY <2>3, <3>2, FS_EmptySet
    <3> QED
      BY <3>1, <3>2, <3>3
  <2> QED
    BY <1>5, <2>2, <2>4, Zenon DEF Cancels, IsActiveCancellation, Contains
<1> QED
  BY <1>4, <1>5, Zenon

(* Only the read of a body charges, one window, and that by the decision.  *)
LEMMA StepChargesAsDue ==
  ASSUME BoundaryInv, BoundaryNext, NEW p \in Posts
  PROVE  ChargedAsDue(p)
<1> SUFFICES ASSUME InState(p, "reading"), post'[p] # post[p]
             PROVE  /\ Charged("cancellation") => Cancels(post[p].msg)
                    /\ Charged("regular") => ~Cancels(post[p].msg)
  BY Zenon DEF ChargedAsDue
<1> DEFINE m == post[p].msg
<1>1. WindowsInv /\ RegistryInv
  BY DEF BoundaryInv
<1>2. m \in Messages /\ post[p].pc = "reading"
  <2>1. PostSound(post[p]) /\ post[p].pc = "reading"
    BY <1>1, Zenon DEF RegistryInv, InState
  <2> QED
    BY <2>1 DEF PostSound
<1>3. \A q \in Posts : \A r : q # p => [post EXCEPT ![q] = r][p] = post[p]
  BY <1>1, Zenon DEF RegistryInv
<1>4. CASE TimePasses
  BY <1>4, Zenon DEF TimePasses
<1>5. ASSUME NEW q \in Posts,
             \/ Arrive(q) \/ BodyAbandoned(q) \/ BodyRead(q)
             \/ SdkAnswers(q) \/ CallBegins(q) \/ CallEnds(q)
      PROVE  q = p
  <2>1. PICK r : post' = [post EXCEPT ![q] = r]
    BY <1>5, Zenon
    DEF Arrive, BodyAbandoned, BodyRead, SdkAnswers, CallBegins, CallEnds
  <2>2. SUFFICES ASSUME q # p
                 PROVE  FALSE
    OBVIOUS
  <2>3. post'[p] = post[p]
    BY <1>3, <2>1, <2>2, Zenon
  <2> QED
    BY <2>3
<1>6. ASSUME \/ Arrive(p) \/ BodyAbandoned(p) \/ SdkAnswers(p)
             \/ CallBegins(p) \/ CallEnds(p)
      PROVE  ~Charged("cancellation") /\ ~Charged("regular")
  <2>1. admitted' = admitted
    BY <1>6, Zenon
    DEF Arrive, BodyAbandoned, SdkAnswers, CallBegins, CallEnds, vars
  <2> QED
    BY <2>1, Zenon DEF Charged
<1>7. ASSUME BodyRead(p)
      PROVE  /\ Charged("cancellation") => Cancels(m)
             /\ Charged("regular") => ~Cancels(m)
  <2> DEFINE kind == IF IsActiveCancellation(m) THEN "cancellation" ELSE "regular"
             w == <<Mcp, kind>>
  <2>1. AcquireMcpPost(kind)
    BY <1>7, Zenon DEF BodyRead
  <2>2. \A v \in Windows : v # w => admitted'[v] = admitted[v]
    <3>1. Attempt(w, {})
      BY <2>1, Zenon DEF AcquireMcpPost
    <3> HIDE DEF w
    <3>2. \/ admitted' = [v \in Windows |->
                            IF v = w THEN Remembered(v)
                            ELSE IF v[1] \in {} THEN <<>> ELSE admitted[v]]
          \/ UNCHANGED admitted
      BY <3>1, Zenon DEF Attempt
    <3> QED
      BY <3>2
  <2>3. <<Mcp, "cancellation">> \in Windows /\ <<Mcp, "regular">> \in Windows
    BY BoundaryAssumption DEF BoundaryAssumption, Windows, PostKinds
  <2>4. IsActiveCancellation(m) <=> Cancels(m)
    BY <1>1, <1>2, DecisionIsRight
  <2>5. CASE IsActiveCancellation(m)
    <3>1. <<Mcp, "regular">> # w
      BY <2>5
    <3>2. ~Charged("regular")
      BY <2>2, <2>3, <3>1, Zenon DEF Charged
    <3> QED
      BY <2>4, <2>5, <3>2
  <2>6. CASE ~IsActiveCancellation(m)
    <3>1. <<Mcp, "cancellation">> # w
      BY <2>6
    <3>2. ~Charged("cancellation")
      BY <2>2, <2>3, <3>1, Zenon DEF Charged
    <3> QED
      BY <2>4, <2>6, <3>2
  <2> QED
    BY <2>5, <2>6
<1> QED
  BY <1>4, <1>5, <1>6, <1>7, Zenon DEF BoundaryNext

(* A POST is charged to the reserve exactly if it cancels a registered     *)
(* call under way in its own session, and the windows keep room for it     *)
(* (mcp/middleware.py __call__, _is_active_cancellation).                  *)
THEOREM ReserveIsKept == BoundarySpec => ReserveIsForActiveCalls
<1>1. BoundaryInv => PostsWithinWindow
  BY WindowsKeepPosts DEF BoundaryInv
<1>2. BoundaryInv /\ BoundaryInv' /\ [BoundaryNext]_boundaryVars
        => [\A p \in Posts : ChargedAsDue(p)]_boundaryVars
  BY StepChargesAsDue, Zenon
<1>3. [\A p \in Posts : ChargedAsDue(p)]_boundaryVars
        => [LET Ch(kind) == admitted'[<<Mcp, kind>>] # admitted[<<Mcp, kind>>]
                Ca(m) ==
                  /\ m.kind = "cancel"
                  /\ m.legacy
                  /\ \E q \in Posts :
                       /\ InState(q, "running") /\ post[q].registered
                       /\ post[q].msg.session = m.session
                       /\ Canonical[post[q].msg.id] = Canonical[m.id]
            IN
            \A p \in Posts :
              InState(p, "reading") /\ post'[p] # post[p] =>
                /\ Ch("cancellation") => Ca(post[p].msg)
                /\ Ch("regular") => ~Ca(post[p].msg)]_boundaryVars
  BY Zenon DEF ChargedAsDue, Charged, Cancels
<1> QED
  BY <1>1, <1>2, <1>3, BoundaryInvariant, PTL
  DEF BoundarySpec, ReserveIsForActiveCalls
=============================================================================
