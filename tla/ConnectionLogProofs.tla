------------------------ MODULE ConnectionLogProofs ------------------------
(***************************************************************************)
(* The connection log, for every number of callers, files, events and      *)
(* crashes: what the rotation of the file and the memory ring may lose,    *)
(* that an Ok of log is kept by a backend, and what the purge deletes.     *)
(***************************************************************************)
EXTENDS ConnectionLog, SequenceTheorems, TLAPS

\* The steps of a call of log or of the cleanup.
Pcs == {"idle", "stat", "close", "rename", "open", "write", "flush", "insert", "purge"}

\* An event of a caller that the file has not taken yet.
Waiting(c) == caller[c].ev # None /\ caller[c].pc \in {"stat", "close", "rename", "open", "write"}

CallerRecord == [pc : Pcs, ev : Nat \cup {None}, i : FileNos, failed : BOOLEAN]

\* What a caller r may be when there are n events.
CallerTyped(r, n) ==
    /\ r \in CallerRecord
    /\ r.ev # None => r.ev \in 1 .. n
    /\ r.pc = "idle" => r.ev = None
    /\ r.pc \in {"write", "flush", "insert"} => r.ev # None

OpenWriter == [at : FileNos, buf : Seq(Nat)]

Typed ==
    /\ mode \in Modes /\ retention \in Nat /\ now \in Nat
    /\ made \in Seq(Nat) /\ memory \in Seq(Nat) /\ written \in Seq(Nat)
    /\ files \in [FileNos -> Seq(Nat) \cup {None}]
    /\ writer \in OpenWriter \cup {None}
    /\ caller \in [Callers -> CallerRecord]
    /\ \A c \in Callers : CallerTyped(caller[c], Len(made))
    /\ disturbed \in BOOLEAN

\* The file is used by the loggers that have one, the ring by the memory logger,
\* whose log is a single step.
ModeInv ==
    /\ mode # "memory" => memory = <<>>
    /\ mode = "memory" => \A c \in Callers : caller[c].pc = "idle"
    /\ ~UsesFile => /\ writer = None
                    /\ \A c \in Callers : caller[c].pc \in {"idle", "insert", "purge"}

\* The writer has a file, and no file is newer: a rename moves it along and
\* never replaces it.
WriterInv ==
    writer # None => /\ files[writer.at] # None
                     /\ \A j \in FileNos : j < writer.at => files[j] = None

\* No event is written twice.
Fresh ==
    /\ \A k, l \in DOMAIN written : written[k] = written[l] => k = l
    /\ ToSet(written) \subseteq 1 .. Len(made)
    /\ Gone \subseteq ToSet(written)
    /\ \A c \in Callers : Waiting(c) => caller[c].ev \notin ToSet(written)
    /\ \A c, d \in Callers : Waiting(c) /\ Waiting(d) /\ c # d => caller[c].ev # caller[d].ev

\* As long as no two rotations overlapped and no rename failed, a rotation that
\* renames finds the file closed and, below the oldest file, the name it renames
\* to free.
RotationInv ==
    ~disturbed =>
        /\ \A c, d \in Callers : Rotating(c) /\ Rotating(d) => c = d
        /\ \A c \in Callers :
              /\ caller[c].pc \in {"rename", "open"} => writer = None
              /\ caller[c].pc = "rename" /\ caller[c].i < MaxFiles - 1
                    => files[caller[c].i] = None

\* What a call that may still answer Ok on account of the file has written.
AckInv ==
    \A c \in Callers :
        caller[c].pc = "flush"
            \/ (caller[c].pc = "insert" /\ mode = "both" /\ ~caller[c].failed)
        => caller[c].ev \in ToSet(written)

\* A row has the rounded time of its event.
RowsInv ==
    \A row \in db : row.id \in DOMAIN made /\ row.timestamp = anonymize(made[row.id])

IInv ==
    /\ Typed /\ ModeInv /\ WriterInv /\ Fresh /\ RotationInv
    /\ AckInv /\ AckedIsTaken /\ KeptIsSuffix
    /\ RowsInv

-----------------------------------------------------------------------------
(* KeptIsSuffix as a property of the files' contents, so that what a step   *)
(* does to them can be told apart from how it does it.                      *)

In(P) == UNION {ToSet(P[i]) : i \in FileNos}

Precedes(w, d, e) == \E k, l \in DOMAIN w : k < l /\ w[k] = d /\ w[l] = e

Ordered(P, w) ==
    \A i, j \in FileNos : \A p \in DOMAIN P[i], q \in DOMAIN P[j] :
        i > j \/ (i = j /\ p < q) => Precedes(w, P[i][p], P[j][q])

Recent(P, w, L) ==
    \A k, l \in DOMAIN w : k < l /\ w[k] \in In(P) => w[l] \in In(P) \cup L

Good(P, w, L) ==
    /\ In(P) \subseteq ToSet(w) \ L
    /\ Ordered(P, w)
    /\ Recent(P, w, L)

Injective(w) == \A k, l \in DOMAIN w : w[k] = w[l] => k = l

Parts == [i \in FileNos |-> Part(i)]

\* What excuses a file that was replaced before its turn.
Excused == replaced # {} => disturbed

LEMMA GoodIsKept ==
    KeptIsSuffix <=> Good(Parts, written, Gone) /\ Excused
<1>1. \A i \in FileNos : Parts[i] = Part(i)
  BY DEF Parts
<1>2. Kept = In(Parts)
  BY <1>1 DEF Kept, In
<1>3. \A d, e : Before(d, e) <=> Precedes(written, d, e)
  BY DEF Before, Precedes
<1>4. (\A i, j \in FileNos : \A p \in DOMAIN Part(i), q \in DOMAIN Part(j) :
          i > j \/ (i = j /\ p < q) => Before(Part(i)[p], Part(j)[q]))
      <=> Ordered(Parts, written)
  BY <1>1, <1>3 DEF Ordered
<1> QED BY <1>2, <1>4 DEF KeptIsSuffix, Good, Recent, Excused

\* The files hold what they held, at the same places.
LEMMA GoodIsKeptNext ==
    KeptIsSuffix' <=> Good(Parts', written', Gone') /\ Excused'
<1>1. KeptIsSuffix' <=> (Good(Parts, written, Gone) /\ Excused)'
  BY GoodIsKept, PTL
<1> QED BY <1>1

LEMMA SameKept ==
    ASSUME KeptIsSuffix, \A i \in FileNos : Part(i)' = Part(i),
           written' = written, lost' = lost, replaced' = replaced, disturbed' \in BOOLEAN,
           disturbed => disturbed'
    PROVE  KeptIsSuffix'
<1>1. Parts' = Parts /\ Gone' = Gone
  BY DEF Parts, Gone
<1>2. Good(Parts, written, Gone) /\ Excused
  BY GoodIsKept
<1>3. Good(Parts', written', Gone') /\ Excused'
  BY <1>1, <1>2 DEF Excused
<1> QED BY <1>3, GoodIsKeptNext

LEMMA ToSetAppend ==
    ASSUME NEW s \in Seq(Nat), NEW e \in Nat
    PROVE  /\ Append(s, e) \in Seq(Nat) /\ Len(Append(s, e)) = Len(s) + 1
           /\ DOMAIN s = 1 .. Len(s) /\ DOMAIN Append(s, e) = 1 .. Len(s) + 1
           /\ \A k \in 1 .. Len(s) : Append(s, e)[k] = s[k]
           /\ Append(s, e)[Len(s) + 1] = e
           /\ ToSet(Append(s, e)) = ToSet(s) \cup {e}
<1>1. /\ Append(s, e) \in Seq(Nat) /\ Len(Append(s, e)) = Len(s) + 1
      /\ DOMAIN s = 1 .. Len(s) /\ DOMAIN Append(s, e) = 1 .. Len(s) + 1
      /\ \A k \in 1 .. Len(s) : Append(s, e)[k] = s[k]
      /\ Append(s, e)[Len(s) + 1] = e /\ Len(s) \in Nat
  BY AppendProperties, LenProperties
<1>2. ToSet(Append(s, e)) = ToSet(s) \cup {e}
  <2> DEFINE t == Append(s, e)
  <2>1. \A k \in DOMAIN t : t[k] \in ToSet(s) \cup {e}
    BY <1>1 DEF ToSet
  <2>2. \A k \in DOMAIN s : k \in DOMAIN t /\ t[k] = s[k]
    BY <1>1
  <2>3. e \in ToSet(t)
    BY <1>1 DEF ToSet
  <2>4. ToSet(s) \subseteq ToSet(t)
    BY <2>2 DEF ToSet
  <2> HIDE DEF t
  <2>5. ToSet(t) \subseteq ToSet(s) \cup {e}
    BY <2>1 DEF ToSet
  <2> QED BY <2>3, <2>4, <2>5 DEF t
<1> QED BY <1>1, <1>2

\* An event that is new is appended to the newest file.
Appends(P, Q, e, a) ==
    /\ P \in [FileNos -> Seq(Nat)] /\ Q \in [FileNos -> Seq(Nat)] /\ a \in FileNos
    /\ \A j \in FileNos : j < a => P[j] = <<>>
    /\ Q = [P EXCEPT ![a] = Append(P[a], e)]

LEMMA GoodAppend ==
    ASSUME NEW w \in Seq(Nat), NEW e \in Nat, NEW P, NEW Q, NEW a, NEW L,
           Good(P, w, L), L \subseteq ToSet(w), e \notin ToSet(w), Appends(P, Q, e, a)
    PROVE  Good(Q, Append(w, e), L)
<1> USE DEF Appends
<1> DEFINE v == Append(w, e)
<1>1. /\ Q[a] = Append(P[a], e) /\ \A i \in FileNos \ {a} : Q[i] = P[i]
      /\ FileNos \subseteq Nat
  BY DEF FileNos
<1>2. /\ v \in Seq(Nat) /\ DOMAIN w = 1 .. Len(w) /\ DOMAIN v = 1 .. Len(w) + 1
      /\ \A k \in 1 .. Len(w) : v[k] = w[k]
      /\ v[Len(w) + 1] = e /\ ToSet(v) = ToSet(w) \cup {e} /\ Len(w) \in Nat
  BY ToSetAppend, LenProperties
<1>3. /\ P[a] \in Seq(Nat) /\ Len(P[a]) \in Nat
      /\ DOMAIN P[a] = 1 .. Len(P[a]) /\ DOMAIN Q[a] = 1 .. Len(P[a]) + 1
      /\ \A k \in 1 .. Len(P[a]) : Q[a][k] = P[a][k]
      /\ Q[a][Len(P[a]) + 1] = e /\ ToSet(Q[a]) = ToSet(P[a]) \cup {e}
  BY <1>1, ToSetAppend, LenProperties
<1> HIDE DEF v
<1>4. In(Q) = In(P) \cup {e}
  BY <1>1, <1>3 DEF In
<1>5. In(Q) \subseteq ToSet(v) \ L
  BY <1>2, <1>4 DEF Good
<1>6. \A d, f : Precedes(w, d, f) => Precedes(v, d, f)
  BY <1>2 DEF Precedes
<1>7. \A d \in In(P) : Precedes(v, d, e)
  <2> TAKE d \in In(P)
  <2>1. PICK k \in DOMAIN w : w[k] = d
    BY DEF Good, ToSet
  <2>2. k \in DOMAIN v /\ v[k] = d /\ Len(w) + 1 \in DOMAIN v /\ k < Len(w) + 1
    BY <1>2, <2>1
  <2> QED BY <1>2, <2>2 DEF Precedes
<1>8. Ordered(Q, v)
  <2> SUFFICES ASSUME NEW i \in FileNos, NEW j \in FileNos,
                      NEW p \in DOMAIN Q[i], NEW q \in DOMAIN Q[j],
                      i > j \/ (i = j /\ p < q)
               PROVE  Precedes(v, Q[i][p], Q[j][q])
    BY DEF Ordered
  <2>1. CASE j = a /\ q = Len(P[a]) + 1
    <3>1. p \in DOMAIN P[i] /\ Q[i][p] = P[i][p]
      BY <1>1, <1>3, <2>1
    <3>2. P[i][p] \in In(P)
      BY <3>1 DEF In, ToSet
    <3> QED BY <1>3, <1>7, <2>1, <3>1, <3>2
  <2>2. CASE ~(j = a /\ q = Len(P[a]) + 1)
    <3>1. q \in DOMAIN P[j] /\ Q[j][q] = P[j][q]
      BY <1>1, <1>3, <2>2
    <3>2. P[j] # <<>>
      BY <3>1
    <3>3. p \in DOMAIN P[i] /\ Q[i][p] = P[i][p]
      <4>1. CASE i # a
        BY <1>1, <4>1
      <4>2. CASE i = a
        <5>1. j = a
          BY <1>1, <3>2, <4>2
        <5> QED BY <1>1, <1>3, <3>1, <4>2, <5>1
      <4> QED BY <4>1, <4>2
    <3>4. Precedes(w, P[i][p], P[j][q])
      BY <3>1, <3>3 DEF Good, Ordered
    <3> QED BY <1>6, <3>1, <3>3, <3>4
  <2> QED BY <2>1, <2>2
<1>9. Recent(Q, v, L)
  <2> SUFFICES ASSUME NEW k \in DOMAIN v, NEW l \in DOMAIN v, k < l, v[k] \in In(Q)
               PROVE  v[l] \in In(Q) \cup L
    BY DEF Recent
  <2>1. k \in DOMAIN w /\ v[k] = w[k]
    BY <1>2
  <2>2. w[k] \in In(P)
    BY <1>4, <2>1 DEF ToSet
  <2>3. CASE l \in DOMAIN w
    <3>1. w[l] \in In(P) \cup L
      BY <2>1, <2>2, <2>3 DEF Good, Recent
    <3> QED BY <1>2, <1>4, <2>3, <3>1
  <2>4. CASE l \notin DOMAIN w
    <3>1. l = Len(w) + 1
      BY <1>2, <2>4
    <3> QED BY <1>2, <1>4, <3>1
  <2> QED BY <2>3, <2>4
<1> QED BY <1>5, <1>8, <1>9 DEF Good, v

LEMMA Shift ==
    ASSUME NEW m \in Nat, NEW n \in Nat, NEW k \in 1 .. n
    PROVE  m + k \in 1 .. m + n
OBVIOUS

LEMMA IndexNat ==
    ASSUME NEW w \in Seq(Nat), NEW k \in DOMAIN w
    PROVE  k \in Nat
BY LenProperties

LEMMA PrecedesStrict ==
    ASSUME NEW w \in Seq(Nat), Injective(w), NEW k \in DOMAIN w, NEW l \in DOMAIN w,
           Precedes(w, w[k], w[l])
    PROVE  k < l
BY DEF Injective, Precedes

\* Nothing of P is missing in Q but M and events older than all that are left.
Drops(P, Q, w, M) ==
    /\ In(Q) \subseteq In(P) \ M
    /\ Ordered(Q, w)
    /\ \A x \in In(P) \ (In(Q) \cup M), y \in In(Q) : Precedes(w, x, y)

LEMMA GoodLess ==
    ASSUME NEW w \in Seq(Nat), Injective(w), NEW P, NEW Q, NEW L, NEW M,
           Good(P, w, L), L \subseteq M, Drops(P, Q, w, M)
    PROVE  Good(Q, w, M)
<1> USE DEF Drops
<1>1. In(Q) \subseteq ToSet(w) \ M
  BY DEF Good
<1>2. Recent(Q, w, M)
  <2> SUFFICES ASSUME NEW k \in DOMAIN w, NEW l \in DOMAIN w, k < l, w[k] \in In(Q),
                      w[l] \notin In(Q) \cup M
               PROVE  FALSE
    BY DEF Recent
  <2>1. w[k] \in In(P)
    OBVIOUS
  <2>2. w[l] \in In(P) \cup L
    BY <2>1 DEF Good, Recent
  <2>3. Precedes(w, w[l], w[k])
    BY <2>2
  <2>4. l < k
    BY <2>3, PrecedesStrict
  <2>5. k \in Nat /\ l \in Nat
    BY LenProperties
  <2> QED BY <2>4, <2>5
<1> QED BY <1>1, <1>2 DEF Good

LEMMA NotBeforeItself ==
    ASSUME NEW w \in Seq(Nat), Injective(w), NEW y
    PROVE  ~Precedes(w, y, y)
<1> SUFFICES ASSUME Precedes(w, y, y) PROVE FALSE
  OBVIOUS
<1>1. PICK k \in DOMAIN w : w[k] = y
  BY DEF Precedes
<1>2. k < k
  BY <1>1, PrecedesStrict
<1> QED BY <1>1, <1>2, IndexNat

\* A file loses what it holds; that of the oldest file is older than the rest.
Empties(P, Q, n) ==
    /\ P \in [FileNos -> Seq(Nat)] /\ Q \in [FileNos -> Seq(Nat)] /\ n \in FileNos
    /\ Q = [P EXCEPT ![n] = <<>>]

MiddleOf(P, n) == IF n < MaxFiles - 1 THEN ToSet(P[n]) ELSE {}

LEMMA GoodEmptied ==
    ASSUME NEW w \in Seq(Nat), Injective(w), NEW P, NEW Q, NEW n, NEW L,
           Good(P, w, L), Empties(P, Q, n)
    PROVE  Good(Q, w, L \cup MiddleOf(P, n))
<1> USE DEF Empties
<1> DEFINE M == L \cup MiddleOf(P, n)
<1>1. /\ Q[n] = <<>> /\ \A i \in FileNos \ {n} : Q[i] = P[i]
      /\ \A i \in FileNos \ {n} : n > i \/ i > n
      /\ n < MaxFiles - 1 \/ \A i \in FileNos \ {n} : n > i
  BY ConstantsAssumption DEF FileNos
<1>2. ToSet(<<>>) = {}
  BY DEF ToSet
<1>3. \A i \in FileNos : \A p \in DOMAIN Q[i] : i # n /\ p \in DOMAIN P[i] /\ Q[i][p] = P[i][p]
  BY <1>1
<1>4. Ordered(Q, w)
  BY <1>3 DEF Good, Ordered
<1>5. \A y \in In(Q) : \E i \in FileNos \ {n} : \E p \in DOMAIN P[i] : P[i][p] = y
  <2> TAKE y \in In(Q)
  <2>1. PICK i \in FileNos : y \in ToSet(Q[i])
    BY DEF In
  <2>2. PICK p \in DOMAIN Q[i] : Q[i][p] = y
    BY <2>1 DEF ToSet
  <2> QED BY <1>3, <2>2
<1>6. In(Q) \subseteq In(P)
  BY <1>5 DEF In, ToSet
<1>7. \A x \in In(P) \ In(Q) : \E p \in DOMAIN P[n] : P[n][p] = x
  <2> TAKE x \in In(P) \ In(Q)
  <2>1. PICK j \in FileNos : x \in ToSet(P[j])
    BY DEF In
  <2>2. j = n
    BY <1>1, <2>1 DEF In
  <2> QED BY <2>1, <2>2 DEF ToSet
<1>8. In(Q) \cap ToSet(P[n]) = {}
  <2> SUFFICES ASSUME NEW y \in In(Q), y \in ToSet(P[n]) PROVE FALSE
    OBVIOUS
  <2>1. PICK q \in DOMAIN P[n] : P[n][q] = y
    BY DEF ToSet
  <2>2. PICK i \in FileNos \ {n} : \E p \in DOMAIN P[i] : P[i][p] = y
    BY <1>5
  <2>3. PICK p \in DOMAIN P[i] : P[i][p] = y
    BY <2>2
  <2>4. Precedes(w, y, y)
    BY <1>1, <2>1, <2>3 DEF Good, Ordered
  <2> QED BY <2>4, NotBeforeItself
<1>9. In(Q) \subseteq In(P) \ M
  BY <1>6, <1>8 DEF Good, MiddleOf
<1>10. ASSUME NEW x \in In(P) \ (In(Q) \cup M), NEW y \in In(Q)
       PROVE  Precedes(w, x, y)
  <2>1. PICK p \in DOMAIN P[n] : P[n][p] = x
    BY <1>7
  <2>2. x \in ToSet(P[n])
    BY <2>1 DEF ToSet
  <2>3. ~(n < MaxFiles - 1)
    BY <2>2 DEF MiddleOf
  <2>4. PICK j \in FileNos \ {n} : \E q \in DOMAIN P[j] : P[j][q] = y
    BY <1>5
  <2>5. n > j
    BY <1>1, <2>3
  <2> QED BY <2>1, <2>4, <2>5 DEF Good, Ordered
<1> HIDE DEF M
<1>11. Drops(P, Q, w, M)
  BY <1>4, <1>9, <1>10 DEF Drops
<1>12. L \subseteq M
  BY DEF M
<1>13. Good(Q, w, M)
  BY <1>11, <1>12, GoodLess
<1> QED BY <1>13 DEF M

\* A file gets the next number, which no file has.
Renames(P, Q, n) ==
    /\ P \in [FileNos -> Seq(Nat)] /\ Q \in [FileNos -> Seq(Nat)]
    /\ n \in FileNos /\ n > 0 /\ P[n] = <<>>
    /\ Q = [P EXCEPT ![n] = P[n - 1], ![n - 1] = <<>>]

LEMMA GoodRename ==
    ASSUME NEW w \in Seq(Nat), Injective(w), NEW P, NEW Q, NEW n, NEW L,
           Good(P, w, L), Renames(P, Q, n)
    PROVE  Good(Q, w, L)
<1> USE DEF Renames
<1>1. /\ n - 1 \in FileNos /\ FileNos \subseteq Nat /\ \A i \in FileNos : i <= MaxFiles - 1
      /\ Q[n] = P[n - 1] /\ Q[n - 1] = <<>>
      /\ \A i \in FileNos \ {n, n - 1} : Q[i] = P[i]
  BY DEF FileNos
<1>2. ToSet(<<>>) = {}
  BY DEF ToSet
<1>3. /\ ToSet(Q[n]) = ToSet(P[n - 1]) /\ ToSet(Q[n - 1]) = {}
      /\ \A i \in FileNos \ {n, n - 1} : ToSet(Q[i]) = ToSet(P[i])
  BY <1>1, <1>2
<1>4. \A y \in In(Q) : \E j \in FileNos \ {n} : y \in ToSet(P[j])
  <2> TAKE y \in In(Q)
  <2>1. PICK j \in FileNos : y \in ToSet(Q[j])
    BY DEF In
  <2>2. CASE j = n
    BY <1>1, <1>3, <2>1, <2>2
  <2>3. CASE j # n
    BY <1>3, <2>1, <2>3
  <2> QED BY <2>2, <2>3
<1>5. \A x \in In(P) \ In(Q) : x \in ToSet(P[n])
  <2> TAKE x \in In(P) \ In(Q)
  <2>1. PICK j \in FileNos : x \in ToSet(P[j])
    BY DEF In
  <2>2. \A i \in FileNos : x \notin ToSet(Q[i])
    BY DEF In
  <2> QED BY <1>1, <1>3, <2>1, <2>2
<1>6. In(Q) \subseteq In(P) \ L
  BY <1>4 DEF In, Good
<1>7. Ordered(Q, w)
  <2> SUFFICES ASSUME NEW i \in FileNos, NEW j \in FileNos,
                      NEW p \in DOMAIN Q[i], NEW q \in DOMAIN Q[j],
                      i > j \/ (i = j /\ p < q)
               PROVE  Precedes(w, Q[i][p], Q[j][q])
    BY DEF Ordered
  <2> DEFINE from(k) == IF k = n THEN n - 1 ELSE k
  <2>1. \A k \in FileNos : Q[k] # <<>> =>
           from(k) \in FileNos /\ Q[k] = P[from(k)] /\ k # n - 1
    BY <1>1
  <2>2. Q[i] # <<>> /\ Q[j] # <<>>
    OBVIOUS
  <2>3. from(i) > from(j) \/ (from(i) = from(j) /\ p < q)
    <3>1. i \in Nat /\ j \in Nat /\ n \in Nat /\ i # n - 1 /\ j # n - 1
      BY <1>1, <2>1, <2>2
    <3> HIDE DEF Renames
    <3> QED BY <3>1
  <2> HIDE DEF from
  <2>4. /\ from(i) \in FileNos /\ from(j) \in FileNos
        /\ Q[i] = P[from(i)] /\ Q[j] = P[from(j)]
    BY <2>1, <2>2
  <2> QED BY <2>3, <2>4 DEF Good, Ordered
<1>8. In(P) \ (In(Q) \cup L) = {}
  BY <1>2, <1>5
<1>9. Drops(P, Q, w, L)
  BY <1>6, <1>7, <1>8 DEF Drops
<1> QED BY <1>9, GoodLess

LEMMA OnlyZero ==
    ASSUME NEW P, 0 \in FileNos, \A i \in FileNos : i # 0 => ToSet(P[i]) = {}
    PROVE  In(P) = ToSet(P[0])
<1>1. ToSet(P[0]) \subseteq In(P)
  BY DEF In
<1>2. ASSUME NEW x \in In(P) PROVE x \in ToSet(P[0])
  <2>1. PICK i \in FileNos : x \in ToSet(P[i])
    BY DEF In
  <2> QED BY <2>1
<1> QED BY <1>1, <1>2

\* The ring drops its oldest event.
DropsHead(P, Q) ==
    /\ P \in [FileNos -> Seq(Nat)] /\ Q \in [FileNos -> Seq(Nat)]
    /\ 0 \in FileNos /\ P[0] # <<>> /\ \A j \in FileNos : j # 0 => P[j] = <<>>
    /\ Q = [P EXCEPT ![0] = Tail(P[0])]

LEMMA GoodTail ==
    ASSUME NEW w \in Seq(Nat), Injective(w), NEW P, NEW Q, NEW L,
           Good(P, w, L), DropsHead(P, Q)
    PROVE  Good(Q, w, L)
<1> USE DEF DropsHead
<1>1. Q[0] = Tail(P[0]) /\ \A i \in FileNos : i # 0 => Q[i] = P[i] /\ Q[i] = <<>>
  OBVIOUS
<1>2. /\ Len(P[0]) \in Nat /\ DOMAIN P[0] = 1 .. Len(P[0])
      /\ DOMAIN Q[0] = 1 .. Len(P[0]) - 1
      /\ \A k \in 1 .. Len(P[0]) - 1 : Q[0][k] = P[0][k + 1]
  <2>1. P[0] \in Seq(Nat)
    OBVIOUS
  <2>2. /\ Tail(P[0]) \in Seq(Nat) /\ Len(Tail(P[0])) = Len(P[0]) - 1
        /\ \A k \in 1 .. Len(Tail(P[0])) : Tail(P[0])[k] = P[0][k + 1]
    BY <2>1, HeadTailProperties
  <2> QED BY <1>1, <2>1, <2>2, LenProperties
<1>3. ToSet(<<>>) = {}
  BY DEF ToSet
<1>4. In(P) = ToSet(P[0]) /\ In(Q) = ToSet(Q[0])
  <2>1. \A i \in FileNos : i # 0 => ToSet(P[i]) = {} /\ ToSet(Q[i]) = {}
    BY <1>1, <1>3
  <2>2. In(P) = ToSet(P[0])
    BY <2>1, OnlyZero
  <2>3. In(Q) = ToSet(Q[0])
    BY <2>1, OnlyZero
  <2> QED BY <2>2, <2>3
<1>5. ToSet(Q[0]) \subseteq ToSet(P[0])
  <2>1. \A k \in DOMAIN Q[0] : k + 1 \in DOMAIN P[0] /\ Q[0][k] = P[0][k + 1]
    BY <1>2
  <2> QED BY <2>1 DEF ToSet
<1>6. In(Q) \subseteq In(P) \ L
  BY <1>4, <1>5 DEF Good
<1>7. Ordered(Q, w)
  <2> SUFFICES ASSUME NEW i \in FileNos, NEW j \in FileNos,
                      NEW p \in DOMAIN Q[i], NEW q \in DOMAIN Q[j],
                      i > j \/ (i = j /\ p < q)
               PROVE  Precedes(w, Q[i][p], Q[j][q])
    BY DEF Ordered
  <2>1. i = 0 /\ j = 0
    BY <1>1
  <2>2. /\ p + 1 \in DOMAIN P[0] /\ q + 1 \in DOMAIN P[0] /\ p + 1 < q + 1
        /\ Q[i][p] = P[0][p + 1] /\ Q[j][q] = P[0][q + 1]
    BY <1>2, <2>1
  <2> QED BY <2>2 DEF Good, Ordered
<1>8. ASSUME NEW x \in In(P) \ (In(Q) \cup L), NEW y \in In(Q)
      PROVE  Precedes(w, x, y)
  <2>1. PICK p \in DOMAIN P[0] : P[0][p] = x
    BY <1>4 DEF ToSet
  <2>2. p = 1
    <3> SUFFICES ASSUME p # 1 PROVE FALSE
      OBVIOUS
    <3>1. p - 1 \in DOMAIN Q[0] /\ Q[0][p - 1] = x
      BY <1>2, <2>1
    <3> QED BY <1>4, <3>1 DEF ToSet
  <2>3. PICK q \in DOMAIN Q[0] : Q[0][q] = y
    BY <1>4 DEF ToSet
  <2>4. q + 1 \in DOMAIN P[0] /\ P[0][q + 1] = y /\ p < q + 1
    BY <1>2, <2>2, <2>3
  <2> QED BY <2>1, <2>4 DEF Good, Ordered
<1>9. Drops(P, Q, w, L)
  BY <1>6, <1>7, <1>8 DEF Drops
<1> QED BY <1>9, GoodLess

\* A crash takes the buffer of the writer of the newest file.
Cuts(P, Q, a, f, b) ==
    /\ P \in [FileNos -> Seq(Nat)] /\ Q \in [FileNos -> Seq(Nat)] /\ a \in FileNos
    /\ \A j \in FileNos : j < a => P[j] = <<>>
    /\ P[a] = f \o b /\ Q = [P EXCEPT ![a] = f]

LEMMA GoodCut ==
    ASSUME NEW w \in Seq(Nat), Injective(w), NEW f \in Seq(Nat), NEW b \in Seq(Nat),
           NEW P, NEW Q, NEW a, NEW L,
           Good(P, w, L), Cuts(P, Q, a, f, b)
    PROVE  Good(Q, w, L \cup ToSet(b))
<1> USE DEF Cuts
<1>1. Q[a] = f /\ \A i \in FileNos \ {a} : Q[i] = P[i]
  OBVIOUS
<1>2. /\ Len(f) \in Nat /\ Len(b) \in Nat
      /\ DOMAIN f = 1 .. Len(f) /\ DOMAIN b = 1 .. Len(b)
      /\ DOMAIN P[a] = 1 .. Len(f) + Len(b)
      /\ \A k \in 1 .. Len(f) : P[a][k] = f[k]
      /\ \A k \in 1 .. Len(b) : P[a][Len(f) + k] = b[k]
  <2>1. /\ Len(f \o b) = Len(f) + Len(b) /\ f \o b \in Seq(Nat)
        /\ \A k \in 1 .. Len(f) + Len(b) :
              (f \o b)[k] = IF k <= Len(f) THEN f[k] ELSE b[k - Len(f)]
    BY ConcatProperties
  <2>2. Len(f) \in Nat /\ Len(b) \in Nat
    BY LenProperties
  <2>3. \A k \in 1 .. Len(b) :
           /\ Len(f) + k \in 1 .. Len(f) + Len(b) /\ ~(Len(f) + k <= Len(f))
           /\ (Len(f) + k) - Len(f) = k
    BY <2>2
  <2> QED BY <2>1, <2>2, <2>3, LenProperties
<1>3. \A i \in FileNos : \A p \in DOMAIN Q[i] : p \in DOMAIN P[i] /\ Q[i][p] = P[i][p]
  BY <1>1, <1>2
<1>4. Ordered(Q, w)
  BY <1>3 DEF Good, Ordered
<1>5. In(Q) \subseteq In(P)
  BY <1>3 DEF In, ToSet
<1>6. In(P) \subseteq In(Q) \cup ToSet(b)
  <2> SUFFICES ASSUME NEW x \in In(P), x \notin ToSet(b)
               PROVE  x \in In(Q)
    OBVIOUS
  <2>1. PICK i \in FileNos : x \in ToSet(P[i])
    BY DEF In
  <2>0. PICK p \in DOMAIN P[i] : P[i][p] = x
    BY <2>1 DEF ToSet
  <2>2. p \in DOMAIN Q[i]
    <3>1. CASE i # a
      BY <1>1, <3>1
    <3>2. CASE i = a
      <4> SUFFICES ASSUME ~(p <= Len(f)) PROVE FALSE
        BY <1>1, <1>2, <3>2
      <4>1. p - Len(f) \in DOMAIN b /\ b[p - Len(f)] = x
        BY <1>2, <2>0, <3>2
      <4> QED BY <4>1 DEF ToSet
    <3> QED BY <3>1, <3>2
  <2>3. Q[i][p] = x
    BY <1>3, <2>0, <2>2
  <2> QED BY <2>2, <2>3 DEF In, ToSet
<1>7. In(Q) \cap ToSet(b) = {}
  <2> SUFFICES ASSUME NEW y \in In(Q), y \in ToSet(b) PROVE FALSE
    OBVIOUS
  <2>1. PICK i \in FileNos : y \in ToSet(Q[i])
    BY DEF In
  <2>0. PICK p \in DOMAIN Q[i] : Q[i][p] = y
    BY <2>1 DEF ToSet
  <2>2. PICK q \in DOMAIN b : b[q] = y
    BY DEF ToSet
  <2>3. p \in DOMAIN P[i] /\ P[i][p] = y
    BY <1>3, <2>0
  <2>4. Len(f) + q \in DOMAIN P[a] /\ P[a][Len(f) + q] = y
    <3>1. q \in 1 .. Len(b)
      BY <1>2, <2>2
    <3>2. Len(f) + q \in 1 .. Len(f) + Len(b)
      BY <1>2, <3>1, Shift
    <3> QED BY <1>2, <2>2, <3>1, <3>2
  <2>5. i > a \/ (i = a /\ p < Len(f) + q)
    <3>1. P[i] # <<>>
      BY <2>3
    <3> QED BY <1>1, <1>2, <3>1 DEF FileNos
  <2>6. Precedes(w, y, y)
    <3>1. Precedes(w, P[i][p], P[a][Len(f) + q])
      BY <2>3, <2>4, <2>5 DEF Good, Ordered
    <3> QED BY <2>3, <2>4, <3>1
  <2>7. PICK k \in DOMAIN w : w[k] = y
    BY <2>6 DEF Precedes
  <2>8. k < k
    BY <2>6, <2>7, PrecedesStrict
  <2>9. k \in Nat
    BY <2>7, IndexNat
  <2> QED BY <2>8, <2>9
<1>8. In(Q) \subseteq In(P) \ (L \cup ToSet(b))
  BY <1>5, <1>7 DEF Good
<1>9. \A x \in In(P) \ (In(Q) \cup (L \cup ToSet(b))), y \in In(Q) : Precedes(w, x, y)
  BY <1>6
<1>10. Drops(P, Q, w, L \cup ToSet(b)) /\ L \subseteq L \cup ToSet(b)
  BY <1>4, <1>8, <1>9 DEF Drops
<1> QED BY <1>10, GoodLess

-----------------------------------------------------------------------------
(* The parts of the files *)

LEMMA NoneFacts ==
    /\ FileNos \subseteq Nat /\ 0 \in FileNos /\ None \notin FileNos /\ None \notin Nat
    /\ None \notin Seq(Nat) /\ None \notin OpenWriter
<1>1. OpenWriter \subseteq Writer
  BY DEF OpenWriter, Writer
<1>2. FileNos \subseteq Nat /\ 0 \in FileNos
  BY ConstantsAssumption DEF FileNos
<1> QED BY <1>1, <1>2, NoneAssumption

LEMMA ConcatEmpty ==
    ASSUME NEW s \in Seq(Nat)
    PROVE  s \o <<>> = s /\ <<>> \in Seq(Nat)
BY ConcatEmptySeq, EmptySeq

LEMMA PartsTyped ==
    ASSUME Typed
    PROVE  /\ Parts \in [FileNos -> Seq(Nat)]
           /\ \A i \in FileNos : Parts[i] = Part(i) /\ Part(i) \in Seq(Nat)
<1> SUFFICES ASSUME NEW i \in FileNos PROVE Part(i) \in Seq(Nat)
  BY DEF Parts
<1>1. /\ memory \in Seq(Nat) /\ <<>> \in Seq(Nat) /\ files[i] \in Seq(Nat) \cup {None}
      /\ writer # None => writer.buf \in Seq(Nat)
  BY EmptySeq DEF Typed, OpenWriter
<1>2. \A s, t \in Seq(Nat) : s \o t \in Seq(Nat)
  BY ConcatProperties
<1> QED BY <1>1, <1>2 DEF Part

PartsOk == Parts \in [FileNos -> Seq(Nat)]

LEMMA TypedPartsOk == Typed => PartsOk
BY PartsTyped DEF PartsOk

LEMMA PartsTypedNext ==
    ASSUME Typed'
    PROVE  Parts' \in [FileNos -> Seq(Nat)] /\ Parts' = [i \in FileNos |-> Part(i)']
<1>1. Typed' => PartsOk'
  BY TypedPartsOk, PTL
<1> QED BY <1>1 DEF PartsOk, Parts

\* A flush leaves in the files what the files and the buffer held.
LEMMA FlushedParts ==
    ASSUME Typed, WriterInv, mode # "memory"
    PROVE  /\ Flushed \in [FileNos -> Seq(Nat) \cup {None}]
           /\ \A i \in FileNos : /\ Flushed[i] = None <=> files[i] = None
                                 /\ Part(i) = IF Flushed[i] = None THEN <<>> ELSE Flushed[i]
<1>1. CASE writer = None
  BY <1>1 DEF Flushed, Typed, Part
<1>2. CASE writer # None
  <2>1. /\ writer.at \in FileNos /\ writer.buf \in Seq(Nat) /\ writer.at # None
        /\ files[writer.at] \in Seq(Nat) /\ files[writer.at] # None
    BY <1>2, NoneFacts DEF Typed, OpenWriter, WriterInv
  <2>2. files[writer.at] \o writer.buf \in Seq(Nat)
    BY <2>1, ConcatProperties
  <2>3. Flushed = [files EXCEPT ![writer.at] = files[writer.at] \o writer.buf]
    BY <1>2, <2>1 DEF Flushed
  <2>4. files[writer.at] \o writer.buf # None
    BY <2>2, NoneFacts
  <2>5. files \in [FileNos -> Seq(Nat) \cup {None}]
    BY DEF Typed
  <2> DEFINE t == files[writer.at] \o writer.buf
  <2>6. \A i \in FileNos : Part(i) = IF files[i] = None THEN <<>>
                                     ELSE IF i = writer.at THEN t ELSE files[i]
    BY <1>2 DEF Part
  <2> HIDE DEF t
  <2>7. Flushed = [files EXCEPT ![writer.at] = t] /\ t \in Seq(Nat) /\ t # None
    BY <2>2, <2>3, <2>4 DEF t
  <2> QED BY <2>1, <2>5, <2>6, <2>7
<1> QED BY <1>1, <1>2

\* With nothing in the buffer the files are all there is.
LEMMA FlatParts ==
    ASSUME mode' # "memory", files' \in [FileNos -> Seq(Nat) \cup {None}],
           writer' # None => writer'.buf = <<>>
    PROVE  \A i \in FileNos : Part(i)' = IF files'[i] = None THEN <<>> ELSE files'[i]
<1> TAKE i \in FileNos
<1>1. CASE files'[i] = None
  BY <1>1 DEF Part
<1>2. CASE files'[i] # None
  <2>1. files'[i] \in Seq(Nat)
    BY <1>2
  <2>2. files'[i] \o <<>> = files'[i]
    BY <2>1, ConcatEmpty
  <2> QED BY <1>2, <2>2 DEF Part
<1> QED BY <1>1, <1>2

\* A flush, with or without closing, changes no part.
LEMMA FlushKeeps ==
    ASSUME Typed, WriterInv, mode # "memory", mode' = mode, files' = Flushed,
           writer' # None => writer'.buf = <<>>
    PROVE  \A i \in FileNos : Part(i)' = Part(i)
BY FlushedParts, FlatParts

LEMMA OpenKeeps ==
    ASSUME NEW fs \in [FileNos -> Seq(Nat) \cup {None}], mode' # "memory",
           files' = open_file(fs).files, writer' = open_file(fs).writer
    PROVE  /\ files' \in [FileNos -> Seq(Nat) \cup {None}] /\ writer' \in OpenWriter
           /\ WriterInv'
           /\ \A i \in FileNos : Part(i)' = IF fs[i] = None THEN <<>> ELSE fs[i]
<1>0. writer' = [at |-> 0, buf |-> <<>>] /\ <<>> \in Seq(Nat) /\ <<>> # None
  BY EmptySeq, NoneFacts DEF open_file
<1>1. files' = [fs EXCEPT ![0] = IF fs[0] = None THEN <<>> ELSE fs[0]]
  BY DEF open_file
<1>2. files' \in [FileNos -> Seq(Nat) \cup {None}] /\ files'[0] # None
      /\ \A i \in FileNos : (IF files'[i] = None THEN <<>> ELSE files'[i])
                            = (IF fs[i] = None THEN <<>> ELSE fs[i])
  BY <1>0, <1>1, NoneFacts
<1>3. writer'.buf = <<>> /\ writer'.at = 0
  BY <1>0
<1>4. writer' \in OpenWriter
  BY <1>0, NoneFacts DEF OpenWriter
<1>5. WriterInv'
  <2>1. \A j \in FileNos : ~(j < 0)
    BY DEF FileNos
  <2> QED BY <1>2, <1>3, <2>1 DEF WriterInv
<1>6. \A i \in FileNos : Part(i)' = IF files'[i] = None THEN <<>> ELSE files'[i]
  BY <1>2, <1>3, FlatParts
<1> QED BY <1>2, <1>4, <1>5, <1>6

-----------------------------------------------------------------------------
(* One caller moves *)

\* What a caller r may be on account of what is written.
AckOk(r) ==
    r.pc = "flush" \/ (r.pc = "insert" /\ mode = "both" /\ ~r.failed)
    => r.ev \in ToSet(written)

\* A step of caller c that makes and writes no event.
LEMMA MoveIInv ==
    ASSUME IInv, NEW c \in Callers, NEW r, CallerTyped(r, Len(made)),
           mode # "memory", caller' = [caller EXCEPT ![c] = r],
           UNCHANGED <<mode, retention, now, made, memory, written>>,
           Gone' \subseteq ToSet(written),
           r.ev # None /\ r.pc \in {"stat", "close", "rename", "open", "write"} =>
               Waiting(c) /\ r.ev = caller[c].ev,
           AckOk(r),
           files' \in [FileNos -> Seq(Nat) \cup {None}], writer' \in OpenWriter \cup {None},
           UsesFile \/ (writer' = writer /\ r.pc \in {"idle", "insert", "purge"}),
           disturbed' \in BOOLEAN,
           WriterInv', KeptIsSuffix', RotationInv', AckedIsTaken', RowsInv'
    PROVE  IInv'
<1>1. /\ caller \in [Callers -> CallerRecord] /\ r \in CallerRecord
      /\ caller'[c] = r /\ \A d \in Callers \ {c} : caller'[d] = caller[d]
      /\ caller' \in [Callers -> CallerRecord]
  BY DEF IInv, Typed, CallerTyped
<1>2. Typed'
  <2>1. \A d \in Callers : CallerTyped(caller'[d], Len(made))
    BY <1>1 DEF IInv, Typed
  <2> QED BY <1>1, <2>1 DEF IInv, Typed
<1>3. ModeInv'
  <2>1. ~UsesFile => \A d \in Callers : caller'[d].pc \in {"idle", "insert", "purge"}
    BY <1>1 DEF IInv, ModeInv
  <2> QED BY <2>1 DEF IInv, ModeInv, UsesFile
<1>4. \A d \in Callers : Waiting(d)' => Waiting(d) /\ caller'[d].ev = caller[d].ev
  BY <1>1 DEF Waiting
<1>5. Fresh'
  <2>1. \A d \in Callers : Waiting(d)' => caller'[d].ev \notin ToSet(written)
    BY <1>4 DEF IInv, Fresh
  <2>2. \A d, e \in Callers :
           Waiting(d)' /\ Waiting(e)' /\ d # e => caller'[d].ev # caller'[e].ev
    BY <1>4 DEF IInv, Fresh
  <2> QED BY <2>1, <2>2 DEF IInv, Fresh
<1>6. AckInv'
  <2>1. \A d \in Callers : AckOk(caller'[d])
    BY <1>1 DEF IInv, AckInv, AckOk
  <2> QED BY <2>1 DEF AckInv, AckOk
<1> QED BY <1>2, <1>3, <1>5, <1>6 DEF IInv

\* A step of caller c that leaves the files alone, too.
LEMMA IdleFilesIInv ==
    ASSUME IInv, NEW c \in Callers, NEW r, CallerTyped(r, Len(made)),
           mode # "memory", caller' = [caller EXCEPT ![c] = r],
           UNCHANGED <<mode, retention, now, made, memory, written, files, writer>>,
           UNCHANGED <<lost, replaced>>,
           r.ev # None /\ r.pc \in {"stat", "close", "rename", "open", "write"} =>
               Waiting(c) /\ r.ev = caller[c].ev,
           AckOk(r),
           disturbed' \in BOOLEAN, disturbed => disturbed',
           r.pc \in {"close", "rename", "open"} /\ ~disturbed' =>
               \/ Rotating(c)
               \/ \A d \in Callers : ~Rotating(d),
           r.pc \in {"rename", "open"} => caller[c].pc \in {"rename", "open"},
           r.pc # "rename", UsesFile \/ r.pc \in {"idle", "insert", "purge"},
           AckedIsTaken', RowsInv'
    PROVE  IInv'
<1>1. /\ caller \in [Callers -> CallerRecord]
      /\ caller'[c] = r /\ \A d \in Callers \ {c} : caller'[d] = caller[d]
  BY DEF IInv, Typed
<1>2. files' \in [FileNos -> Seq(Nat) \cup {None}] /\ writer' \in OpenWriter \cup {None}
  BY DEF IInv, Typed
<1>3. WriterInv'
  BY DEF IInv, WriterInv
<1>4. KeptIsSuffix'
  <2>1. \A i \in FileNos : Part(i)' = Part(i)
    BY DEF Part
  <2> QED BY <2>1, SameKept DEF IInv
<1>5. RotationInv'
  <2> SUFFICES ASSUME ~disturbed'
               PROVE  /\ \A d, e \in Callers : Rotating(d)' /\ Rotating(e)' => d = e
                      /\ \A d \in Callers :
                            /\ caller'[d].pc \in {"rename", "open"} => writer' = None
                            /\ caller'[d].pc = "rename" /\ caller'[d].i < MaxFiles - 1
                                  => files'[caller'[d].i] = None
    BY DEF RotationInv
  <2>0. RotationInv /\ ~disturbed
    BY DEF IInv
  <2>1. \A d \in Callers \ {c} : Rotating(d)' <=> Rotating(d)
    BY <1>1 DEF Rotating
  <2>2. Rotating(c)' => Rotating(c) \/ \A d \in Callers : ~Rotating(d)
    BY <1>1 DEF Rotating
  <2>3. \A d, e \in Callers : Rotating(d)' /\ Rotating(e)' => d = e
    BY <2>0, <2>1, <2>2 DEF RotationInv
  <2>4. ASSUME NEW d \in Callers
        PROVE  /\ caller'[d].pc \in {"rename", "open"} => writer' = None
               /\ caller'[d].pc = "rename" /\ caller'[d].i < MaxFiles - 1
                     => files'[caller'[d].i] = None
    <3>1. CASE d = c
      BY <1>1, <2>0, <3>1 DEF RotationInv
    <3>2. CASE d # c
      BY <1>1, <2>0, <3>2 DEF RotationInv
    <3> QED BY <3>1, <3>2
  <2> QED BY <2>3, <2>4
<1>6. Gone' \subseteq ToSet(written)
  BY DEF IInv, Fresh, Gone
<1> QED BY <1>2, <1>3, <1>4, <1>5, <1>6, MoveIInv

\* What LeaveFile makes of a caller.
LEMMA LeaveFileCaller ==
    ASSUME Typed, NEW c \in Callers, NEW ok \in BOOLEAN, LeaveFile(c, ok)
    PROVE  \E r : /\ caller' = [caller EXCEPT ![c] = r]
                  /\ CallerTyped(r, Len(made))
                  /\ r.pc \in {"idle", "insert", "purge"}
                  /\ r.pc = "insert" => r.ev = caller[c].ev /\ r.failed = ~ok
                  /\ acked' \subseteq acked \cup (IF ok THEN {caller[c].ev} ELSE {})
                  /\ caller[c].ev = None => acked' = acked /\ r.pc # "insert"
<1>1. caller \in [Callers -> CallerRecord] /\ CallerTyped(caller[c], Len(made))
  BY DEF Typed
<1>2. /\ Idle \in CallerRecord /\ [Idle EXCEPT !.pc = "purge"] \in CallerRecord
      /\ Idle.ev = None /\ Idle.pc = "idle"
      /\ [Idle EXCEPT !.pc = "purge"].ev = None /\ [Idle EXCEPT !.pc = "purge"].pc = "purge"
  BY NoneFacts DEF Idle, CallerRecord, Pcs
<1>3. CASE caller[c].ev = None
  <2> DEFINE r == IF ok /\ UsesDb THEN [Idle EXCEPT !.pc = "purge"] ELSE Idle
  <2>1. caller' = [caller EXCEPT ![c] = r] /\ acked' = acked
    BY <1>3 DEF LeaveFile
  <2>2. CallerTyped(r, Len(made)) /\ r.pc \in {"idle", "purge"}
    BY <1>2 DEF CallerTyped
  <2> QED BY <2>1, <2>2
<1>4. CASE caller[c].ev # None /\ UsesDb
  <2> DEFINE r == [caller[c] EXCEPT !.pc = "insert", !.failed = ~ok]
  <2>1. caller' = [caller EXCEPT ![c] = r] /\ acked' = acked
    BY <1>1, <1>4 DEF LeaveFile
  <2>2. r \in CallerRecord /\ r.pc = "insert" /\ r.failed = ~ok /\ r.ev = caller[c].ev
    BY <1>1 DEF CallerRecord, Pcs
  <2>3. CallerTyped(r, Len(made))
    BY <1>1, <1>4, <2>2 DEF CallerTyped
  <2> QED BY <1>4, <2>1, <2>2, <2>3
<1>5. CASE caller[c].ev # None /\ ~UsesDb
  <2>1. caller' = [caller EXCEPT ![c] = Idle]
    BY <1>5 DEF LeaveFile
  <2>2. acked' = IF ok THEN acked \cup {caller[c].ev} ELSE acked
    BY <1>5 DEF LeaveFile
  <2>3. CallerTyped(Idle, Len(made))
    BY <1>2 DEF CallerTyped
  <2> QED BY <1>2, <1>5, <2>1, <2>2, <2>3
<1> QED BY <1>3, <1>4, <1>5

LEMMA GotoCaller ==
    ASSUME Typed, NEW c \in Callers, NEW pc \in Pcs, Goto(c, pc)
    PROVE  \E r \in CallerRecord :
              /\ caller' = [caller EXCEPT ![c] = r]
              /\ r.pc = pc /\ r.ev = caller[c].ev /\ r.i = caller[c].i
              /\ r.ev # None => r.ev \in 1 .. Len(made)
<1> DEFINE r == [caller[c] EXCEPT !.pc = pc]
<1>1. caller[c] \in CallerRecord /\ CallerTyped(caller[c], Len(made))
  BY DEF Typed
<1>2. caller' = [caller EXCEPT ![c] = r]
  BY DEF Goto, Typed
<1>3. r \in CallerRecord /\ r.pc = pc /\ r.ev = caller[c].ev /\ r.i = caller[c].i
  BY <1>1 DEF CallerRecord
<1> QED BY <1>1, <1>2, <1>3 DEF CallerTyped

\* Caller c is no longer rotating; what it did to the files touches no other
\* rotation.
LEMMA RotationShrinks ==
    ASSUME Typed, RotationInv, NEW c \in Callers, NEW r, caller' = [caller EXCEPT ![c] = r],
           r.pc \notin {"close", "rename", "open"}, disturbed' = disturbed,
           Rotating(c) \/ (writer = None => writer' = None /\ files' = files)
    PROVE  RotationInv'
<1> SUFFICES ASSUME ~disturbed
             PROVE  /\ \A d, e \in Callers : Rotating(d)' /\ Rotating(e)' => d = e
                    /\ \A d \in Callers :
                          /\ caller'[d].pc \in {"rename", "open"} => writer' = None
                          /\ caller'[d].pc = "rename" /\ caller'[d].i < MaxFiles - 1
                                => files'[caller'[d].i] = None
  BY DEF RotationInv
<1>1. caller'[c] = r /\ \A d \in Callers \ {c} : caller'[d] = caller[d]
  BY DEF Typed
<1>2. \A d \in Callers : Rotating(d)' => d # c /\ Rotating(d)
  BY <1>1 DEF Rotating
<1>3. ASSUME NEW d \in Callers, caller'[d].pc \in {"rename", "open"}
      PROVE  /\ writer' = None
             /\ caller'[d].pc = "rename" /\ caller'[d].i < MaxFiles - 1
                   => files'[caller'[d].i] = None
  <2>1. d # c /\ Rotating(d) /\ caller'[d] = caller[d]
    BY <1>1, <1>2, <1>3 DEF Rotating
  <2>2. ~Rotating(c)
    BY <2>1 DEF RotationInv
  <2>3. writer = None
    BY <1>3, <2>1 DEF RotationInv
  <2> QED BY <2>1, <2>2, <2>3 DEF RotationInv
<1> QED BY <1>2, <1>3 DEF RotationInv

\* A caller that is done with the file.
LEMMA LeaveIInv ==
    ASSUME IInv, NEW c \in Callers, NEW ok \in BOOLEAN, LeaveFile(c, ok), mode # "memory",
           UNCHANGED <<mode, retention, now, made, memory, written, db, stored, disturbed>>,
           Gone' \subseteq ToSet(written),
           ok => caller[c].ev = None \/ caller[c].ev \in ToSet(written),
           UsesFile \/ writer' = writer,
           files' \in [FileNos -> Seq(Nat) \cup {None}], writer' \in OpenWriter \cup {None},
           WriterInv', KeptIsSuffix',
           Rotating(c) \/ (writer = None => writer' = None /\ files' = files)
    PROVE  IInv'
<1>0. Typed /\ RotationInv
  BY DEF IInv
<1>1. PICK r : /\ caller' = [caller EXCEPT ![c] = r]
               /\ CallerTyped(r, Len(made))
               /\ r.pc \in {"idle", "insert", "purge"}
               /\ r.pc = "insert" => r.ev = caller[c].ev /\ r.failed = ~ok
               /\ acked' \subseteq acked \cup (IF ok THEN {caller[c].ev} ELSE {})
               /\ caller[c].ev = None => acked' = acked /\ r.pc # "insert"
  BY <1>0, LeaveFileCaller
<1>2. RotationInv'
  BY <1>0, <1>1, RotationShrinks
<1>3. AckedIsTaken'
  BY <1>1 DEF IInv, AckedIsTaken
<1>4. AckOk(r)
  BY <1>1 DEF AckOk
<1>5. RowsInv'
  BY DEF IInv, RowsInv
<1>6. disturbed' \in BOOLEAN
  BY DEF IInv, Typed
<1>7. ~(r.ev # None /\ r.pc \in {"stat", "close", "rename", "open", "write"})
  BY <1>1
<1> QED BY <1>1, <1>2, <1>3, <1>4, <1>5, <1>6, <1>7, MoveIInv

\* ... and leaves the files as they are.
LEMMA LeaveAsIsIInv ==
    ASSUME IInv, NEW c \in Callers, NEW ok \in BOOLEAN, LeaveFile(c, ok), mode # "memory",
           UNCHANGED <<mode, retention, now, made, memory, written, lost, replaced, db, stored,
                       disturbed, files, writer>>,
           ok => caller[c].ev = None \/ caller[c].ev \in ToSet(written)
    PROVE  IInv'
<1>1. files' \in [FileNos -> Seq(Nat) \cup {None}] /\ writer' \in OpenWriter \cup {None}
      /\ disturbed \in BOOLEAN
  BY DEF IInv, Typed
<1>2. WriterInv'
  BY DEF IInv, WriterInv
<1>3. \A i \in FileNos : Part(i)' = Part(i)
  BY DEF Part
<1>4. KeptIsSuffix'
  BY <1>1, <1>3, SameKept DEF IInv
<1>5. Gone' \subseteq ToSet(written)
  BY DEF IInv, Fresh, Gone
<1> QED BY <1>1, <1>2, <1>4, <1>5, LeaveIInv

-----------------------------------------------------------------------------
(* The steps *)

LEMMA NotMemory ==
    ASSUME IInv, NEW c \in Callers, ~At(c, "idle")
    PROVE  /\ mode # "memory"
           /\ caller[c].pc \notin {"insert", "purge"} => UsesFile
BY DEF IInv, ModeInv, At

LEMMA CleanupIInv ==
    ASSUME IInv, NEW c \in Callers, Cleanup(c)
    PROVE  IInv'
<1> DEFINE pc == IF UsesFile THEN "stat" ELSE "purge"
<1>0. /\ Typed /\ pc \in Pcs /\ Goto(c, pc) /\ mode # "memory" /\ disturbed \in BOOLEAN
      /\ UNCHANGED <<mode, retention, now, made, memory, written, files, writer>>
      /\ UNCHANGED <<lost, replaced>>
      /\ UNCHANGED <<disturbed, db, stored, acked>>
      /\ caller[c].ev = None
  BY DEF IInv, Typed, Cleanup, Pcs, config, fileVars, losses, dbVars, At, CallerTyped
<1>1. PICK r \in CallerRecord : /\ caller' = [caller EXCEPT ![c] = r]
                                /\ r.pc = pc /\ r.ev = caller[c].ev
  BY <1>0, GotoCaller
<1>2. /\ CallerTyped(r, Len(made)) /\ AckOk(r) /\ r.pc \in {"stat", "purge"} /\ r.ev = None
      /\ UsesFile \/ r.pc = "purge"
  BY <1>0, <1>1 DEF CallerTyped, AckOk
<1>3. AckedIsTaken' /\ RowsInv'
  BY <1>0 DEF IInv, AckedIsTaken, RowsInv
<1> HIDE DEF pc
<1> QED BY <1>0, <1>1, <1>2, <1>3, IdleFilesIInv

LEMMA StatIInv ==
    ASSUME IInv, NEW c \in Callers, Stat(c)
    PROVE  IInv'
<1>0. /\ Typed /\ mode # "memory" /\ UsesFile /\ disturbed \in BOOLEAN
      /\ UNCHANGED <<mode, retention, now, made, memory, written, files, writer>>
      /\ UNCHANGED <<lost, replaced>>
      /\ UNCHANGED <<db, stored>> /\ caller[c].pc = "stat"
  BY NotMemory DEF IInv, Typed, Stat, config, fileVars, losses, dbVars, At
<1>1. CASE Goto(c, "close") /\ UNCHANGED acked
           /\ disturbed' = (disturbed \/ \E d \in Callers : Rotating(d))
  <2>1. PICK r \in CallerRecord : /\ caller' = [caller EXCEPT ![c] = r]
                                  /\ r.pc = "close" /\ r.ev = caller[c].ev
                                  /\ r.ev # None => r.ev \in 1 .. Len(made)
    BY <1>0, <1>1, GotoCaller DEF Pcs
  <2>2. CallerTyped(r, Len(made)) /\ AckOk(r)
    BY <2>1 DEF CallerTyped, AckOk
  <2>3. AckedIsTaken' /\ RowsInv'
    BY <1>0, <1>1 DEF IInv, AckedIsTaken, RowsInv
  <2>4. r.ev # None => Waiting(c)
    BY <1>0, <2>1 DEF Waiting
  <2>5. disturbed' \in BOOLEAN /\ (disturbed => disturbed')
        /\ (~disturbed' => \A d \in Callers : ~Rotating(d))
    BY <1>0, <1>1
  <2> QED BY <1>0, <2>1, <2>2, <2>3, <2>4, <2>5, IdleFilesIInv
<1>2. CASE caller[c].ev # None /\ Goto(c, "write") /\ UNCHANGED <<acked, disturbed>>
  <2>1. PICK r \in CallerRecord : /\ caller' = [caller EXCEPT ![c] = r]
                                  /\ r.pc = "write" /\ r.ev = caller[c].ev
                                  /\ r.ev # None => r.ev \in 1 .. Len(made)
    BY <1>0, <1>2, GotoCaller DEF Pcs
  <2>2. CallerTyped(r, Len(made)) /\ AckOk(r)
    BY <1>2, <2>1 DEF CallerTyped, AckOk
  <2>3. AckedIsTaken' /\ RowsInv'
    BY <1>0, <1>2 DEF IInv, AckedIsTaken, RowsInv
  <2>4. r.ev # None => Waiting(c)
    BY <1>0, <2>1 DEF Waiting
  <2> QED BY <1>0, <1>2, <2>1, <2>2, <2>3, <2>4, IdleFilesIInv
<1>3. CASE caller[c].ev = None /\ LeaveFile(c, TRUE) /\ UNCHANGED disturbed
  BY <1>0, <1>3, LeaveAsIsIInv
<1> QED BY <1>1, <1>2, <1>3 DEF Stat

LEMMA RenamedIInv ==
    ASSUME IInv, NEW c \in Callers, Renamed(c)
    PROVE  IInv'
<1>0. /\ Typed /\ mode # "memory" /\ UsesFile /\ disturbed \in BOOLEAN
      /\ UNCHANGED <<mode, retention, now, made, memory, written, files, writer>>
      /\ UNCHANGED <<lost, replaced>>
      /\ UNCHANGED <<db, stored, acked, disturbed>> /\ caller[c].pc = "rename"
      /\ Goto(c, "open")
  BY NotMemory DEF IInv, Typed, Renamed, config, fileVars, losses, dbVars, At
<1>1. PICK r \in CallerRecord : /\ caller' = [caller EXCEPT ![c] = r]
                                /\ r.pc = "open" /\ r.ev = caller[c].ev
                                /\ r.ev # None => r.ev \in 1 .. Len(made)
  BY <1>0, GotoCaller DEF Pcs
<1>2. CallerTyped(r, Len(made)) /\ AckOk(r)
  BY <1>1 DEF CallerTyped, AckOk
<1>3. AckedIsTaken' /\ RowsInv'
  BY <1>0 DEF IInv, AckedIsTaken, RowsInv
<1>4. (r.ev # None => Waiting(c)) /\ Rotating(c)
  BY <1>0, <1>1 DEF Waiting, Rotating
<1> QED BY <1>0, <1>1, <1>2, <1>3, <1>4, IdleFilesIInv

LEMMA RotationFailsIInv ==
    ASSUME IInv, NEW c \in Callers, RotationFails(c)
    PROVE  IInv'
<1>1. mode # "memory"
  BY NotMemory DEF RotationFails, At
<1>2. /\ LeaveFile(c, FALSE)
      /\ UNCHANGED <<mode, retention, now, made, memory, written, lost, replaced, db, stored,
                     disturbed, files, writer>>
  BY DEF RotationFails, config, fileVars, losses, dbVars
<1> QED BY <1>1, <1>2, LeaveAsIsIInv

LEMMA PurgeIInv ==
    ASSUME IInv, NEW c \in Callers, Purge(c)
    PROVE  IInv'
<1>0. /\ Typed /\ mode # "memory" /\ disturbed \in BOOLEAN
      /\ UNCHANGED <<mode, retention, now, made, memory, written, files, writer>>
      /\ UNCHANGED <<lost, replaced>>
      /\ UNCHANGED <<stored, acked, disturbed>> /\ db' \subseteq db
      /\ caller' = [caller EXCEPT ![c] = Idle]
  BY NotMemory DEF IInv, Typed, Purge, config, fileVars, losses, At
<1>1. CallerTyped(Idle, Len(made)) /\ AckOk(Idle) /\ Idle.pc = "idle"
  BY NoneFacts DEF CallerTyped, AckOk, Idle, CallerRecord, Pcs
<1>2. AckedIsTaken' /\ RowsInv'
  BY <1>0 DEF IInv, AckedIsTaken, RowsInv
<1> QED BY <1>0, <1>1, <1>2, IdleFilesIInv

LEMMA InsertIInv ==
    ASSUME IInv, NEW c \in Callers, Insert(c)
    PROVE  IInv'
<1>0. /\ Typed /\ mode # "memory" /\ disturbed \in BOOLEAN
      /\ UNCHANGED <<mode, retention, now, made, memory, written, files, writer>>
      /\ UNCHANGED <<lost, replaced>>
      /\ UNCHANGED <<disturbed>> /\ caller[c].pc = "insert"
      /\ caller[c].ev \in 1 .. Len(made)
  BY NotMemory DEF IInv, Typed, Insert, config, fileVars, losses, At, CallerTyped
<1>1. /\ CallerTyped(Idle, Len(made)) /\ AckOk(Idle) /\ Idle.pc = "idle"
      /\ CallerTyped([Idle EXCEPT !.pc = "purge"], Len(made))
      /\ AckOk([Idle EXCEPT !.pc = "purge"]) /\ [Idle EXCEPT !.pc = "purge"].pc = "purge"
  BY NoneFacts DEF CallerTyped, AckOk, Idle, CallerRecord, Pcs
<1>2. mode = "both" /\ ~caller[c].failed => caller[c].ev \in ToSet(written)
  BY <1>0 DEF IInv, AckInv
<1> DEFINE ev == caller[c].ev
           row == [id |-> ev, timestamp |-> anonymize(made[ev])]
<1>3. CASE /\ db' = db \cup {row} /\ stored' = stored \cup {ev}
           /\ acked' = (IF CompositeOk(c, TRUE) THEN acked \cup {ev} ELSE acked)
           /\ caller' = [caller EXCEPT ![c] =
                IF (total + 1) % PurgeEvery = 0 THEN [Idle EXCEPT !.pc = "purge"] ELSE Idle]
  <2>1. AckedIsTaken'
    BY <1>0, <1>3 DEF IInv, AckedIsTaken
  <2>2. row.id \in DOMAIN made /\ row.timestamp = anonymize(made[row.id])
    BY <1>0, LenProperties DEF Typed
  <2>3. RowsInv'
    BY <1>0, <1>3, <2>2 DEF IInv, RowsInv, anonymize
  <2>4. PICK r \in {Idle, [Idle EXCEPT !.pc = "purge"]} : caller' = [caller EXCEPT ![c] = r]
    BY <1>3
  <2>5. CallerTyped(r, Len(made)) /\ AckOk(r) /\ r.pc \in {"idle", "purge"}
    BY <1>1, <2>4
  <2> QED BY <1>0, <2>1, <2>3, <2>4, <2>5, IdleFilesIInv
<1>4. CASE /\ acked' = (IF CompositeOk(c, FALSE) THEN acked \cup {ev} ELSE acked)
           /\ caller' = [caller EXCEPT ![c] = Idle]
           /\ UNCHANGED dbVars
  <2>1. AckedIsTaken'
    BY <1>0, <1>2, <1>4 DEF IInv, AckedIsTaken, CompositeOk, dbVars
  <2>2. RowsInv'
    BY <1>0, <1>4 DEF IInv, RowsInv, dbVars
  <2> QED BY <1>0, <1>1, <1>4, <2>1, <2>2, IdleFilesIInv
<1> QED BY <1>3, <1>4 DEF Insert

LEMMA CloseIInv ==
    ASSUME IInv, NEW c \in Callers, Close(c)
    PROVE  IInv'
<1>0. /\ Typed /\ WriterInv /\ mode # "memory" /\ UsesFile /\ disturbed \in BOOLEAN
      /\ UNCHANGED <<mode, retention, now, made, memory, written, lost, replaced>>
      /\ UNCHANGED <<db, stored, disturbed>> /\ caller[c].pc = "close"
  BY NotMemory DEF IInv, Typed, Close, config, losses, dbVars, At
<1>1. CASE LeaveFile(c, FALSE) /\ UNCHANGED <<files, writer>>
  BY <1>0, <1>1, LeaveAsIsIInv
<1>2. CASE /\ files' = Flushed /\ writer' = None /\ acked' = acked
           /\ caller' = [caller EXCEPT ![c].pc = "rename", ![c].i = MaxFiles - 1]
  <2>1. Flushed \in [FileNos -> Seq(Nat) \cup {None}]
    BY <1>0, FlushedParts
  <2>2. KeptIsSuffix'
    <3>1. \A i \in FileNos : Part(i)' = Part(i)
      BY <1>0, <1>2, FlushKeeps
    <3> QED BY <1>0, <3>1, SameKept DEF IInv
  <2>3. WriterInv'
    BY <1>0, <1>2 DEF WriterInv
  <2> DEFINE r == [caller[c] EXCEPT !.pc = "rename", !.i = MaxFiles - 1]
  <2>4. caller[c] \in CallerRecord /\ CallerTyped(caller[c], Len(made))
    BY <1>0 DEF Typed
  <2>5. MaxFiles - 1 \in FileNos
    BY ConstantsAssumption DEF FileNos
  <2>6. /\ r \in CallerRecord /\ r.pc = "rename" /\ r.i = MaxFiles - 1
        /\ r.ev = caller[c].ev
    BY <2>4, <2>5 DEF CallerRecord, Pcs
  <2>7. caller' = [caller EXCEPT ![c] = r]
    BY <1>0, <1>2 DEF Typed
  <2> HIDE DEF r
  <2>8. CallerTyped(r, Len(made)) /\ AckOk(r)
    BY <2>4, <2>6 DEF CallerTyped, AckOk
  <2>9. r.ev # None => Waiting(c)
    BY <1>0, <2>6 DEF Waiting
  <2>10. AckedIsTaken' /\ RowsInv'
    BY <1>0, <1>2 DEF IInv, AckedIsTaken, RowsInv
  <2>11. RotationInv'
    <3> SUFFICES ASSUME ~disturbed'
                 PROVE  /\ \A d, e \in Callers : Rotating(d)' /\ Rotating(e)' => d = e
                        /\ \A d \in Callers :
                              /\ caller'[d].pc \in {"rename", "open"} => writer' = None
                              /\ caller'[d].pc = "rename" /\ caller'[d].i < MaxFiles - 1
                                    => files'[caller'[d].i] = None
      BY DEF RotationInv
    <3>1. caller'[c] = r /\ \A d \in Callers \ {c} : caller'[d] = caller[d]
      BY <1>0, <2>7 DEF Typed
    <3>2. Rotating(c) /\ \A d \in Callers : Rotating(d) => d = c
      BY <1>0 DEF IInv, RotationInv, Rotating
    <3>3. \A d \in Callers : Rotating(d)' => d = c
      BY <3>1, <3>2 DEF Rotating
    <3>4. ~(MaxFiles - 1 < MaxFiles - 1)
      BY ConstantsAssumption
    <3>5. \A d \in Callers : caller'[d].pc = "rename" => ~(caller'[d].i < MaxFiles - 1)
      BY <2>6, <3>1, <3>3, <3>4 DEF Rotating
    <3> QED BY <1>0, <1>2, <3>3, <3>5 DEF Rotating
  <2>12. Gone' \subseteq ToSet(written)
    BY <1>0 DEF IInv, Fresh, Gone
  <2> QED BY <1>0, <1>2, <2>1, <2>2, <2>3, <2>7, <2>8, <2>9, <2>6, <2>10, <2>11, <2>12, MoveIInv
<1> QED BY <1>0, <1>1, <1>2 DEF Close

LEMMA ToSetConcat ==
    ASSUME NEW f \in Seq(Nat), NEW b \in Seq(Nat)
    PROVE  ToSet(b) \subseteq ToSet(f \o b)
<1>1. /\ Len(f \o b) = Len(f) + Len(b) /\ f \o b \in Seq(Nat)
      /\ \A k \in 1 .. Len(f) + Len(b) :
            (f \o b)[k] = IF k <= Len(f) THEN f[k] ELSE b[k - Len(f)]
  BY ConcatProperties
<1>2. /\ Len(f) \in Nat /\ Len(b) \in Nat /\ DOMAIN b = 1 .. Len(b)
      /\ DOMAIN (f \o b) = 1 .. Len(f) + Len(b)
  BY <1>1, LenProperties
<1>3. \A k \in 1 .. Len(b) :
         /\ Len(f) + k \in 1 .. Len(f) + Len(b) /\ ~(Len(f) + k <= Len(f))
         /\ (Len(f) + k) - Len(f) = k
  BY <1>2
<1>4. \A k \in DOMAIN b : Len(f) + k \in DOMAIN (f \o b) /\ (f \o b)[Len(f) + k] = b[k]
  BY <1>1, <1>2, <1>3
<1> QED BY <1>4 DEF ToSet

\* The writer's buffer is dropped, the files stay as they are on disk.
LEMMA BufferLost ==
    ASSUME IInv, mode # "memory", writer # None,
           \A i \in FileNos : Part(i)' = IF files[i] = None THEN <<>> ELSE files[i],
           UNCHANGED <<written, replaced, disturbed>>, Gone' = Gone \cup ToSet(writer.buf)
    PROVE  KeptIsSuffix' /\ Gone' \subseteq ToSet(written)
<1>1. /\ Typed /\ WriterInv /\ written \in Seq(Nat)
      /\ files \in [FileNos -> Seq(Nat) \cup {None}]
  BY DEF IInv, Typed
<1>2. /\ Good(Parts, written, Gone) /\ Excused /\ Injective(written)
      /\ Gone \subseteq ToSet(written)
  BY GoodIsKept DEF IInv, Fresh, Injective
<1>3. Parts \in [FileNos -> Seq(Nat)] /\ \A i \in FileNos : Parts[i] = Part(i)
  BY <1>1, PartsTyped
<1>4. Parts' = [i \in FileNos |-> IF files[i] = None THEN <<>> ELSE files[i]]
  BY DEF Parts
<1>5. Parts' \in [FileNos -> Seq(Nat)]
  BY <1>1, <1>4, EmptySeq
<1>6. PICK a \in FileNos : a = writer.at
  BY <1>1 DEF Typed, OpenWriter
<1>7. /\ writer.buf \in Seq(Nat) /\ files[a] # None /\ files[a] \in Seq(Nat)
      /\ \A j \in FileNos : j < a => files[j] = None
  BY <1>1, <1>6 DEF Typed, OpenWriter, WriterInv
<1>8. Parts[a] = files[a] \o writer.buf /\ Parts'[a] = files[a]
  BY <1>3, <1>4, <1>6, <1>7 DEF Part
<1>9. \A i \in FileNos \ {a} : Parts'[i] = Parts[i]
  BY <1>3, <1>4, <1>6 DEF Part
<1>10. Parts' = [Parts EXCEPT ![a] = files[a]]
  BY <1>3, <1>5, <1>6, <1>8, <1>9
<1>11. \A j \in FileNos : j < a => Parts[j] = <<>>
  BY <1>3, <1>7 DEF Part
<1>12. Cuts(Parts, Parts', a, files[a], writer.buf)
  BY <1>3, <1>5, <1>6, <1>8, <1>10, <1>11 DEF Cuts
<1>13. Good(Parts', written, Gone \cup ToSet(writer.buf))
  BY <1>1, <1>2, <1>7, <1>12, GoodCut
<1>14. Good(Parts', written', Gone') /\ Excused'
  BY <1>2, <1>13 DEF Excused
<1>15. ToSet(writer.buf) \subseteq ToSet(written)
  <2>1. ToSet(writer.buf) \subseteq ToSet(Parts[a])
    BY <1>7, <1>8, ToSetConcat
  <2> QED BY <1>2, <1>6, <2>1 DEF Good, In
<1> QED BY <1>2, <1>14, <1>15, GoodIsKeptNext

LEMMA OpenIInv ==
    ASSUME IInv, NEW c \in Callers, Open(c)
    PROVE  IInv'
<1>0. /\ Typed /\ WriterInv /\ mode # "memory" /\ UsesFile /\ disturbed \in BOOLEAN
      /\ UNCHANGED <<mode, retention, now, made, memory, written, replaced>>
      /\ UNCHANGED <<db, stored, disturbed>> /\ caller[c].pc = "open"
  BY NotMemory DEF IInv, Typed, Open, config, dbVars, At
<1>1. /\ Flushed \in [FileNos -> Seq(Nat) \cup {None}]
      /\ \A i \in FileNos : Part(i) = IF Flushed[i] = None THEN <<>> ELSE Flushed[i]
  BY <1>0, FlushedParts
<1>2. /\ files' \in [FileNos -> Seq(Nat) \cup {None}] /\ writer' \in OpenWriter
      /\ WriterInv'
  <2>1. PICK fs \in {Flushed, files} : files' = open_file(fs).files /\ writer' = open_file(fs).writer
    BY DEF Open
  <2> QED BY <1>0, <1>1, <2>1, OpenKeeps DEF Typed
<1>3. KeptIsSuffix' /\ Gone' \subseteq ToSet(written)
  <2>1. CASE /\ files' = open_file(Flushed).files /\ writer' = open_file(Flushed).writer
             /\ lost' = lost
    <3>1. \A i \in FileNos : Part(i)' = Part(i)
      BY <1>0, <1>1, <2>1, OpenKeeps
    <3> QED BY <1>0, <2>1, <3>1, SameKept DEF IInv, Fresh, Gone
  <2>2. CASE /\ files' = open_file(files).files /\ writer' = open_file(files).writer
             /\ files # Flushed /\ lost' = lost \cup ToSet(writer.buf)
    <3>1. \A i \in FileNos : Part(i)' = IF files[i] = None THEN <<>> ELSE files[i]
      BY <1>0, <2>2, OpenKeeps DEF Typed
    <3>2. writer # None
      BY <2>2 DEF Flushed
    <3>3. Gone' = Gone \cup ToSet(writer.buf)
      BY <1>0, <2>2 DEF Gone
    <3> QED BY <1>0, <1>2, <3>1, <3>2, <3>3, BufferLost
  <2> QED BY <2>1, <2>2 DEF Open
<1>4. Rotating(c)
  BY <1>0 DEF Rotating
<1>5. CASE caller[c].ev = None /\ LeaveFile(c, TRUE)
  BY <1>0, <1>2, <1>3, <1>4, <1>5, LeaveIInv
<1>6. CASE caller[c].ev # None /\ Goto(c, "write") /\ UNCHANGED acked
  <2>1. PICK r \in CallerRecord : /\ caller' = [caller EXCEPT ![c] = r]
                                  /\ r.pc = "write" /\ r.ev = caller[c].ev
                                  /\ r.ev # None => r.ev \in 1 .. Len(made)
    BY <1>0, <1>6, GotoCaller DEF Pcs
  <2>2. CallerTyped(r, Len(made)) /\ AckOk(r)
    BY <1>6, <2>1 DEF CallerTyped, AckOk
  <2>3. AckedIsTaken' /\ RowsInv'
    BY <1>0, <1>6 DEF IInv, AckedIsTaken, RowsInv
  <2>4. r.ev # None => Waiting(c)
    BY <1>0, <2>1 DEF Waiting
  <2>5. RotationInv'
    BY <1>0, <1>4, <2>1, RotationShrinks DEF IInv
  <2> QED BY <1>0, <1>2, <1>3, <2>1, <2>2, <2>3, <2>4, <2>5, MoveIInv
<1> QED BY <1>5, <1>6 DEF Open

LEMMA FlushIInv ==
    ASSUME IInv, NEW c \in Callers, Flush(c)
    PROVE  IInv'
<1>0. /\ Typed /\ WriterInv /\ mode # "memory" /\ UsesFile /\ disturbed \in BOOLEAN
      /\ UNCHANGED <<mode, retention, now, made, memory, written, lost, replaced, db, stored,
                     disturbed>>
      /\ caller[c].pc = "flush"
      /\ caller[c].ev \in ToSet(written)
  BY NotMemory DEF IInv, Typed, Flush, config, losses, dbVars, At, AckInv
<1>1. CASE (LeaveFile(c, TRUE) \/ LeaveFile(c, FALSE)) /\ UNCHANGED <<files, writer>>
  BY <1>0, <1>1, LeaveAsIsIInv
<1>2. CASE /\ writer # None /\ files' = Flushed /\ writer' = [writer EXCEPT !.buf = <<>>]
           /\ LeaveFile(c, TRUE)
  <2>1. writer \in OpenWriter
    BY <1>0, <1>2 DEF Typed
  <2>2. writer' \in OpenWriter /\ writer'.at = writer.at /\ writer'.buf = <<>>
    BY <1>2, <2>1, EmptySeq DEF OpenWriter
  <2>3. /\ Flushed \in [FileNos -> Seq(Nat) \cup {None}]
        /\ \A i \in FileNos : Flushed[i] = None <=> files[i] = None
    BY <1>0, FlushedParts
  <2>4. WriterInv'
    BY <1>0, <1>2, <2>1, <2>2, <2>3 DEF WriterInv, OpenWriter
  <2>5. KeptIsSuffix'
    <3>1. \A i \in FileNos : Part(i)' = Part(i)
      BY <1>0, <1>2, <2>2, FlushKeeps
    <3> QED BY <1>0, <3>1, SameKept DEF IInv
  <2>6. Gone' \subseteq ToSet(written)
    BY <1>0 DEF IInv, Fresh, Gone
  <2> QED BY <1>0, <1>2, <2>2, <2>3, <2>4, <2>5, <2>6, LeaveIInv
<1> QED BY <1>1, <1>2 DEF Flush

LEMMA ConcatAssoc ==
    ASSUME NEW f \in Seq(Nat), NEW g \in Seq(Nat), NEW t \in Seq(Nat)
    PROVE  (f \o g) \o t = f \o (g \o t)
BY ConcatAssociative

\* The first event of the buffer goes to the end of the file.
LEMMA SpillConcat ==
    ASSUME NEW f \in Seq(Nat), NEW b \in Seq(Nat), b # <<>>
    PROVE  /\ Head(b) \in Nat /\ Tail(b) \in Seq(Nat) /\ Append(f, Head(b)) \in Seq(Nat)
           /\ Append(f, Head(b)) \o Tail(b) = f \o b
<1>1. Head(b) \in Nat /\ Tail(b) \in Seq(Nat)
  BY HeadTailProperties
<1>2. PICK h \in Nat : h = Head(b)
  BY <1>1
<1>3. PICK t \in Seq(Nat) : t = Tail(b)
  BY <1>1
<1>5. <<h>> \in Seq(Nat) /\ Len(<<h>>) = 1 /\ <<h>>[1] = h
  OBVIOUS
<1>4. b = <<h>> \o t
  <2>1. /\ Len(b) \in Nat /\ Len(t) = Len(b) - 1 /\ h = b[1] /\ Len(b) > 0
        /\ \A k \in 1 .. Len(t) : t[k] = b[k + 1]
    BY <1>2, <1>3, HeadTailProperties, LenProperties, EmptySeq
  <2>2. /\ <<h>> \o t \in Seq(Nat) /\ Len(<<h>> \o t) = 1 + Len(t)
        /\ \A k \in 1 .. 1 + Len(t) :
              (<<h>> \o t)[k] = IF k <= 1 THEN <<h>>[k] ELSE t[k - 1]
    BY <1>5, ConcatProperties
  <2>3. \A k \in 1 .. Len(b) : (<<h>> \o t)[k] = b[k]
    <3> TAKE k \in 1 .. Len(b)
    <3>1. CASE k = 1
      BY <1>5, <2>1, <2>2, <3>1
    <3>2. CASE k # 1
      <4>1. k - 1 \in 1 .. Len(t) /\ k \in 1 .. 1 + Len(t) /\ ~(k <= 1) /\ (k - 1) + 1 = k
        BY <2>1, <3>2
      <4> QED BY <2>1, <2>2, <4>1
    <3> QED BY <3>1, <3>2
  <2>4. Len(<<h>> \o t) = Len(b)
    BY <2>1, <2>2
  <2> QED BY <2>2, <2>3, <2>4, SeqEqual
<1>6. Append(f, h) = f \o <<h>> /\ Append(f, h) \in Seq(Nat)
  BY AppendIsConcat, AppendProperties
<1>7. (f \o <<h>>) \o t = f \o (<<h>> \o t)
  BY <1>5, ConcatAssoc
<1> QED BY <1>1, <1>2, <1>3, <1>4, <1>6, <1>7

LEMMA SpillIInv ==
    ASSUME IInv, Spill
    PROVE  IInv'
<1>0. /\ Typed /\ WriterInv /\ mode # "memory" /\ UsesFile /\ disturbed \in BOOLEAN
      /\ UNCHANGED <<mode, retention, now, made, memory, written, lost, replaced, db, stored,
                     disturbed, acked, caller>>
      /\ writer # None /\ writer.buf # <<>>
  BY DEF IInv, ModeInv, Typed, Spill, config, losses, dbVars, UsesFile
<1>1. PICK a \in FileNos : a = writer.at
  BY <1>0 DEF Typed, OpenWriter
<1>2. PICK b \in Seq(Nat) : b = writer.buf
  BY <1>0 DEF Typed, OpenWriter
<1>3. PICK f \in Seq(Nat) : f = files[a] /\ f # None
  BY <1>0, <1>1, NoneFacts DEF Typed, WriterInv
<1>4. /\ Head(b) \in Nat /\ Tail(b) \in Seq(Nat)
      /\ Append(f, Head(b)) \in Seq(Nat) /\ Append(f, Head(b)) # None
      /\ Append(f, Head(b)) \o Tail(b) = f \o b
  BY <1>0, <1>2, SpillConcat, NoneFacts
<1>5. PICK g \in Seq(Nat) : g = Append(f, Head(b)) /\ g # None
  BY <1>4
<1>6. PICK t \in Seq(Nat) : t = Tail(b)
  BY <1>4
<1>7. /\ files' = [files EXCEPT ![a] = g] /\ writer' = [writer EXCEPT !.buf = t]
      /\ writer \in OpenWriter /\ files \in [FileNos -> Seq(Nat) \cup {None}]
  BY <1>0, <1>1, <1>2, <1>3, <1>5, <1>6 DEF Spill, Typed
<1>8. /\ files' \in [FileNos -> Seq(Nat) \cup {None}] /\ files'[a] = g
      /\ \A i \in FileNos \ {a} : files'[i] = files[i]
      /\ \A i \in FileNos : files'[i] = None <=> files[i] = None
  BY <1>3, <1>5, <1>7
<1>9. writer' \in OpenWriter /\ writer'.at = a /\ writer'.buf = t
  BY <1>1, <1>7 DEF OpenWriter
<1>10. writer' # None
  BY <1>9, NoneFacts
<1>11. WriterInv'
  BY <1>0, <1>1, <1>8, <1>9 DEF WriterInv
<1>12. KeptIsSuffix'
  <2>1. Part(a) = f \o b /\ Part(a)' = g \o t
    BY <1>0, <1>1, <1>2, <1>3, <1>5, <1>8, <1>9, <1>10 DEF Part
  <2>2. Part(a)' = Part(a)
    BY <1>4, <1>5, <1>6, <2>1
  <2>3. \A i \in FileNos \ {a} : Part(i)' = Part(i)
    BY <1>0, <1>1, <1>8, <1>9 DEF Part
  <2>4. \A i \in FileNos : Part(i)' = Part(i)
    BY <2>2, <2>3
  <2> QED BY <1>0, <2>4, SameKept DEF IInv
<1>13. Typed' /\ ModeInv'
  BY <1>0, <1>8, <1>9 DEF IInv, Typed, ModeInv, UsesFile
<1>14. Fresh' /\ AckInv' /\ AckedIsTaken' /\ RowsInv'
  BY <1>0 DEF IInv, Fresh, Gone, Waiting, AckInv, AckedIsTaken, RowsInv
<1>15. RotationInv'
  BY <1>0, <1>8 DEF IInv, RotationInv, Rotating
<1> QED BY <1>11, <1>12, <1>13, <1>14, <1>15 DEF IInv

LEMMA TickIInv ==
    ASSUME IInv, Tick
    PROVE  IInv'
<1>0. /\ UNCHANGED <<mode, retention, made, memory, written, lost, replaced, db, stored,
                     disturbed, acked, caller, files, writer>>
      /\ now' \in Nat
  BY DEF IInv, Typed, Tick, fileVars, losses, dbVars
<1>1. Typed' /\ ModeInv' /\ WriterInv'
  BY <1>0 DEF IInv, Typed, ModeInv, UsesFile, WriterInv
<1>2. Fresh' /\ AckInv' /\ AckedIsTaken' /\ RowsInv'
  BY <1>0 DEF IInv, Fresh, Gone, Waiting, AckInv, AckedIsTaken, RowsInv
<1>3. RotationInv'
  BY <1>0 DEF IInv, RotationInv, Rotating
<1>4. \A i \in FileNos : Part(i)' = Part(i)
  BY <1>0 DEF Part
<1>5. KeptIsSuffix'
  BY <1>0, <1>4, SameKept DEF IInv, Typed
<1> QED BY <1>1, <1>2, <1>3, <1>5 DEF IInv

LEMMA LogIInv ==
    ASSUME IInv, NEW c \in Callers, Log(c)
    PROVE  IInv'
<1>0. /\ Typed /\ mode # "memory" /\ disturbed \in BOOLEAN
      /\ UNCHANGED <<mode, retention, now, memory, written, lost, replaced, db, stored,
                     disturbed, acked, files, writer>>
      /\ made' = Append(made, now) /\ made \in Seq(Nat) /\ now \in Nat
      /\ caller[c].pc = "idle"
  BY DEF IInv, Typed, Log, config, fileVars, losses, dbVars, At
<1>1. /\ made' \in Seq(Nat) /\ Len(made') = Len(made) + 1 /\ Len(made) \in Nat
      /\ DOMAIN made = 1 .. Len(made) /\ DOMAIN made' = 1 .. Len(made) + 1
      /\ \A k \in DOMAIN made : k \in DOMAIN made' /\ made'[k] = made[k]
  BY <1>0, ToSetAppend, LenProperties
<1> DEFINE e == Len(made) + 1
           r == [caller[c] EXCEPT !.ev = e, !.pc = IF UsesFile THEN "stat" ELSE "insert"]
<1>2. e \in Nat /\ e \in 1 .. Len(made') /\ 1 .. Len(made) \subseteq 1 .. Len(made')
      /\ e \notin 1 .. Len(made)
  BY <1>1
<1>3. caller' = [caller EXCEPT ![c] = r]
  BY <1>0 DEF Log, Typed
<1>4. caller[c] \in CallerRecord
  BY <1>0 DEF Typed
<1>5. /\ r \in CallerRecord /\ r.ev = e /\ r.pc = IF UsesFile THEN "stat" ELSE "insert"
  BY <1>2, <1>4 DEF CallerRecord, Pcs
<1> HIDE DEF r, e
<1>6. e # None
  BY <1>2, NoneFacts
<1>7. CallerTyped(r, Len(made'))
  BY <1>2, <1>5, <1>6 DEF CallerTyped
<1>8. /\ caller'[c] = r /\ \A d \in Callers \ {c} : caller'[d] = caller[d]
      /\ caller' \in [Callers -> CallerRecord]
  BY <1>0, <1>3, <1>5 DEF Typed
<1>9. Typed'
  <2>1. \A d \in Callers : CallerTyped(caller'[d], Len(made'))
    <3>1. \A d \in Callers : CallerTyped(caller[d], Len(made))
      BY <1>0 DEF Typed
    <3>2. \A d \in Callers : CallerTyped(caller[d], Len(made'))
      BY <1>2, <3>1 DEF CallerTyped
    <3> QED BY <1>7, <1>8, <3>2
  <2> QED BY <1>0, <1>1, <1>8, <2>1 DEF Typed
<1>10. ModeInv' /\ WriterInv' /\ AckedIsTaken'
  <2>1. ~UsesFile => \A d \in Callers : caller'[d].pc \in {"idle", "insert", "purge"}
    BY <1>5, <1>8 DEF IInv, ModeInv
  <2> QED BY <1>0, <2>1 DEF IInv, ModeInv, UsesFile, WriterInv, AckedIsTaken
<1>11. Fresh'
  <2>1. ToSet(written) \subseteq 1 .. Len(made) /\ ToSet(written') \subseteq 1 .. Len(made')
    BY <1>0, <1>2 DEF IInv, Fresh
  <2>2. \A d \in Callers \ {c} : (Waiting(d)' <=> Waiting(d)) /\ caller'[d].ev = caller[d].ev
    BY <1>8 DEF Waiting
  <2>3. \A d \in Callers : Waiting(d) => caller[d].ev # e
    BY <1>0, <1>2 DEF Waiting, Typed, CallerTyped
  <2>4. caller'[c].ev = e /\ e \notin ToSet(written)
    BY <1>2, <1>5, <1>8, <2>1
  <2>5. \A d \in Callers : Waiting(d)' => caller'[d].ev \notin ToSet(written')
    BY <1>0, <2>2, <2>4 DEF IInv, Fresh
  <2>6. \A d, f \in Callers : Waiting(d)' /\ Waiting(f)' /\ d # f =>
           caller'[d].ev # caller'[f].ev
    BY <2>2, <2>3, <2>4 DEF IInv, Fresh
  <2> QED BY <1>0, <2>1, <2>5, <2>6 DEF IInv, Fresh, Gone
<1>12. RotationInv'
  <2>1. r.pc \notin {"close", "rename", "open"}
    BY <1>5
  <2> QED BY <1>0, <1>3, <2>1, RotationShrinks DEF IInv
<1>13. AckInv'
  <2>1. AckOk(r)
    BY <1>5 DEF AckOk, UsesFile
  <2>2. \A d \in Callers : AckOk(caller'[d])
    BY <1>8, <2>1 DEF IInv, AckInv, AckOk
  <2> QED BY <1>0, <2>2 DEF AckInv, AckOk
<1>14. RowsInv'
  BY <1>0, <1>1 DEF IInv, RowsInv, anonymize
<1>15. KeptIsSuffix'
  <2>1. \A i \in FileNos : Part(i)' = Part(i)
    BY <1>0 DEF Part
  <2> QED BY <1>0, <2>1, SameKept DEF IInv
<1> QED BY <1>9, <1>10, <1>11, <1>12, <1>13, <1>14, <1>15 DEF IInv

LEMMA ConcatAppend ==
    ASSUME NEW s \in Seq(Nat), NEW t \in Seq(Nat), NEW e \in Nat
    PROVE  s \o Append(t, e) = Append(s \o t, e)
<1>1. <<e>> \in Seq(Nat)
  OBVIOUS
<1>2. Append(t, e) = t \o <<e>>
  BY AppendIsConcat
<1>3. s \o t \in Seq(Nat)
  BY ConcatProperties
<1>4. Append(s \o t, e) = (s \o t) \o <<e>>
  BY <1>3, AppendIsConcat
<1>5. (s \o t) \o <<e>> = s \o (t \o <<e>>)
  BY <1>1, ConcatAssociative
<1> QED BY <1>2, <1>4, <1>5

LEMMA InjectiveAppend ==
    ASSUME NEW w \in Seq(Nat), Injective(w), NEW e \in Nat, e \notin ToSet(w)
    PROVE  Injective(Append(w, e))
<1> DEFINE v == Append(w, e)
<1>1. /\ DOMAIN w = 1 .. Len(w) /\ DOMAIN v = 1 .. Len(w) + 1 /\ Len(w) \in Nat
      /\ \A k \in 1 .. Len(w) : v[k] = w[k]
      /\ v[Len(w) + 1] = e
  BY ToSetAppend, LenProperties
<1>2. \A k \in DOMAIN w : w[k] # e
  BY DEF ToSet
<1> HIDE DEF v
<1>3. Injective(v)
  <2> SUFFICES ASSUME NEW k \in DOMAIN v, NEW l \in DOMAIN v, v[k] = v[l] PROVE k = l
    BY DEF Injective
  <2>1. k \in DOMAIN w \/ k = Len(w) + 1
    BY <1>1
  <2>2. l \in DOMAIN w \/ l = Len(w) + 1
    BY <1>1
  <2> QED BY <1>1, <1>2, <2>1, <2>2 DEF Injective
<1> QED BY <1>3 DEF v

\* A new event e is written.
LEMMA WrittenFresh ==
    ASSUME Fresh, written \in Seq(Nat), NEW e \in Nat, e \notin ToSet(written),
           written' = Append(written, e)
    PROVE  /\ Injective(written) /\ Injective(written') /\ written' \in Seq(Nat)
           /\ ToSet(written') = ToSet(written) \cup {e}
           /\ Gone \subseteq ToSet(written')
           /\ Fresh' <=>
                 /\ Gone' \subseteq ToSet(written') /\ ToSet(written') \subseteq 1 .. Len(made')
                 /\ \A c \in Callers : Waiting(c)' => caller'[c].ev \notin ToSet(written')
                 /\ \A c, d \in Callers : Waiting(c)' /\ Waiting(d)' /\ c # d =>
                       caller'[c].ev # caller'[d].ev
<1>1. Injective(written)
  BY DEF Fresh, Injective
<1>2. Injective(written') /\ written' \in Seq(Nat)
      /\ ToSet(written') = ToSet(written) \cup {e}
  BY <1>1, InjectiveAppend, ToSetAppend
<1>3. Gone \subseteq ToSet(written')
  BY <1>2 DEF Fresh
<1> QED BY <1>1, <1>2, <1>3 DEF Fresh, Injective

LEMMA WriteIInv ==
    ASSUME IInv, NEW c \in Callers, Write(c)
    PROVE  IInv'
<1> DEFINE e == caller[c].ev
<1>0. /\ Typed /\ WriterInv /\ mode # "memory" /\ UsesFile /\ disturbed \in BOOLEAN
      /\ UNCHANGED <<mode, retention, now, made, memory, db, stored, files>>
      /\ UNCHANGED <<lost, replaced, disturbed>> /\ Gone' = Gone
      /\ caller[c].pc = "write" /\ e # None /\ e \in 1 .. Len(made)
  BY NotMemory DEF IInv, Typed, Write, config, losses, Gone, dbVars, At, CallerTyped
<1>1. CASE LeaveFile(c, FALSE) /\ UNCHANGED <<writer, written>>
  BY <1>0, <1>1, LeaveAsIsIInv
<1>2. CASE /\ writer # None
           /\ writer' = [writer EXCEPT !.buf = Append(writer.buf, e)]
           /\ written' = Append(written, e) /\ Goto(c, "flush") /\ acked' = acked
  <2>0. /\ writer' = [writer EXCEPT !.buf = Append(writer.buf, e)]
        /\ written' = Append(written, e) /\ Goto(c, "flush") /\ acked' = acked
    BY <1>2
  <2>1. e \in Nat /\ e \notin ToSet(written) /\ written \in Seq(Nat)
    BY <1>0, LenProperties DEF IInv, Typed, Fresh, Waiting
  <2> HIDE DEF e
  <2>2. /\ Injective(written) /\ written' \in Seq(Nat)
        /\ ToSet(written') = ToSet(written) \cup {e}
        /\ Gone \subseteq ToSet(written')
        /\ Fresh' <=>
              /\ Gone' \subseteq ToSet(written') /\ ToSet(written') \subseteq 1 .. Len(made')
              /\ \A d \in Callers : Waiting(d)' => caller'[d].ev \notin ToSet(written')
              /\ \A d, f \in Callers : Waiting(d)' /\ Waiting(f)' /\ d # f =>
                    caller'[d].ev # caller'[f].ev
    BY <2>0, <2>1, WrittenFresh DEF IInv
  <2>3. PICK r \in CallerRecord : /\ caller' = [caller EXCEPT ![c] = r]
                                  /\ r.pc = "flush" /\ r.ev = e
    BY <1>0, <2>0, GotoCaller DEF Pcs, e
  <2>4. /\ caller'[c] = r /\ \A d \in Callers \ {c} : caller'[d] = caller[d]
        /\ caller' \in [Callers -> CallerRecord]
    BY <1>0, <2>3 DEF Typed
  <2>5. /\ writer \in OpenWriter /\ writer.at \in FileNos /\ writer.buf \in Seq(Nat)
        /\ files[writer.at] \in Seq(Nat) /\ files[writer.at] # None
        /\ \A j \in FileNos : j < writer.at => files[j] = None
    BY <1>0, <1>2 DEF Typed, OpenWriter, WriterInv
  <2>6. /\ Append(writer.buf, e) \in Seq(Nat)
        /\ writer' \in OpenWriter /\ writer'.at = writer.at
        /\ writer'.buf = Append(writer.buf, e) /\ writer' # None
    <3>1. Append(writer.buf, e) \in Seq(Nat)
      BY <2>1, <2>5, AppendProperties
    <3> DEFINE b == Append(writer.buf, e)
    <3>2. b \in Seq(Nat) /\ writer' = [writer EXCEPT !.buf = b]
      BY <2>0, <3>1
    <3> HIDE DEF b
    <3>3. writer' \in OpenWriter /\ writer'.at = writer.at /\ writer'.buf = b
      BY <2>5, <3>2 DEF OpenWriter
    <3> QED BY <3>1, <3>3, NoneFacts DEF b
  <2>7. Typed'
    <3>1. CallerTyped(r, Len(made))
      BY <1>0, <2>3 DEF CallerTyped, e
    <3>2. \A d \in Callers : CallerTyped(caller'[d], Len(made))
      BY <1>0, <2>4, <3>1 DEF Typed
    <3> QED BY <1>0, <2>2, <2>4, <2>6, <3>2 DEF Typed
  <2>8. ModeInv' /\ WriterInv'
    BY <1>0, <2>5, <2>6 DEF IInv, ModeInv, WriterInv, UsesFile
  <2>9. Fresh'
    <3>1. \A d \in Callers : Waiting(d)' => d # c /\ Waiting(d) /\ caller'[d] = caller[d]
      BY <2>3, <2>4 DEF Waiting
    <3>2. Waiting(c) /\ caller[c].ev = e
      BY <1>0 DEF Waiting, e
    <3>3. \A d \in Callers : Waiting(d)' => caller'[d].ev \notin ToSet(written')
      BY <2>2, <3>1, <3>2 DEF IInv, Fresh
    <3>4. \A d, f \in Callers : Waiting(d)' /\ Waiting(f)' /\ d # f =>
             caller'[d].ev # caller'[f].ev
      BY <3>1 DEF IInv, Fresh
    <3>5. ToSet(written') \subseteq 1 .. Len(made')
      BY <1>0, <2>2 DEF IInv, Fresh, e
    <3> QED BY <1>0, <2>2, <3>3, <3>4, <3>5
  <2>10. RotationInv'
    BY <1>0, <1>2, <2>3, RotationShrinks DEF IInv
  <2>11. AckInv'
    <3>1. \A d \in Callers : caller'[d].pc \in {"flush", "insert"} =>
             caller'[d] = caller[d] \/ caller'[d].ev = e
      BY <2>3, <2>4
    <3> QED BY <1>0, <2>2, <3>1 DEF IInv, AckInv
  <2>12. AckedIsTaken' /\ RowsInv'
    BY <1>0, <2>0, <2>2 DEF IInv, AckedIsTaken, RowsInv
  <2>13. KeptIsSuffix'
    <3>1. Parts \in [FileNos -> Seq(Nat)] /\ \A i \in FileNos : Parts[i] = Part(i)
      BY <1>0, PartsTyped
    <3>0. PICK a \in FileNos : a = writer.at
      BY <2>5
    <3>2. Part(a) = files[a] \o writer.buf /\ Part(a)' = files[a] \o Append(writer.buf, e)
      BY <1>0, <1>2, <2>5, <2>6, <3>0 DEF Part
    <3>3. Part(a)' = Append(Part(a), e)
      <4>1. files[a] \in Seq(Nat) /\ writer.buf \in Seq(Nat)
        BY <2>5, <3>0
      <4>2. files[a] \o Append(writer.buf, e) = Append(files[a] \o writer.buf, e)
        BY <2>1, <4>1, ConcatAppend
      <4> QED BY <3>2, <4>2
    <3>4. \A i \in FileNos \ {a} : Part(i)' = Part(i)
      BY <1>0, <2>6, <3>0 DEF Part
    <3>5. \A j \in FileNos : j < a => Parts[j] = <<>>
      BY <1>0, <2>5, <3>0, <3>1 DEF Part
    <3>6. Parts' = [i \in FileNos |-> Part(i)'] /\ Parts' \in [FileNos -> Seq(Nat)]
      BY <2>7, PartsTypedNext
    <3>7. Parts' = [Parts EXCEPT ![a] = Append(Parts[a], e)]
      BY <3>0, <3>1, <3>3, <3>4, <3>6
    <3>8. Good(Parts, written, Gone) /\ Excused /\ Gone \subseteq ToSet(written)
      BY GoodIsKept DEF IInv, Fresh
    <3>9. Good(Parts', Append(written, e), Gone)
      <4>1. Appends(Parts, Parts', e, a)
        BY <3>0, <3>1, <3>5, <3>6, <3>7 DEF Appends
      <4> QED BY <2>1, <3>8, <4>1, GoodAppend
    <3>10. Good(Parts', written', Gone') /\ Excused'
      BY <1>0, <2>0, <3>8, <3>9 DEF Excused
    <3> QED BY <3>10, GoodIsKeptNext
  <2> QED BY <2>7, <2>8, <2>9, <2>10, <2>11, <2>12, <2>13 DEF IInv
<1> QED BY <1>1, <1>2 DEF Write

LEMMA LogMemoryIInv ==
    ASSUME IInv, NEW c \in Callers, LogMemory(c)
    PROVE  IInv'
<1> DEFINE n == Len(made) + 1
<1>0. /\ Typed /\ mode = "memory" /\ disturbed \in BOOLEAN
      /\ UNCHANGED <<mode, retention, now, db, stored, caller, files, writer>>
      /\ UNCHANGED <<lost, replaced, disturbed>> /\ Gone' = Gone
      /\ made' = Append(made, now) /\ made \in Seq(Nat) /\ now \in Nat
      /\ written' = Append(written, n) /\ acked' = acked \cup {n}
      /\ written \in Seq(Nat) /\ memory \in Seq(Nat)
  BY DEF IInv, Typed, LogMemory, config, fileVars, losses, Gone, dbVars
<1>1. /\ made' \in Seq(Nat) /\ Len(made') = n /\ Len(made) \in Nat
      /\ DOMAIN made = 1 .. Len(made) /\ DOMAIN made' = 1 .. n
      /\ \A k \in DOMAIN made : k \in DOMAIN made' /\ made'[k] = made[k]
  BY <1>0, ToSetAppend, LenProperties
<1>2. n \in Nat /\ 1 .. Len(made) \subseteq 1 .. Len(made') /\ n \in 1 .. Len(made')
      /\ n \notin 1 .. Len(made)
  BY <1>1
<1>3. n \notin ToSet(written)
  BY <1>2 DEF IInv, Fresh
<1>4. memory' = IF Len(memory) >= MaxMemory THEN Append(Tail(memory), n)
                                            ELSE Append(memory, n)
  BY DEF LogMemory
<1> HIDE DEF n
<1>5. /\ Injective(written) /\ written' \in Seq(Nat)
      /\ ToSet(written') = ToSet(written) \cup {n}
      /\ Gone \subseteq ToSet(written')
      /\ Fresh' <=>
            /\ Gone' \subseteq ToSet(written') /\ ToSet(written') \subseteq 1 .. Len(made')
            /\ \A d \in Callers : Waiting(d)' => caller'[d].ev \notin ToSet(written')
            /\ \A d, f \in Callers : Waiting(d)' /\ Waiting(f)' /\ d # f =>
                  caller'[d].ev # caller'[f].ev
  BY <1>0, <1>2, <1>3, WrittenFresh DEF IInv
<1>6. \A d \in Callers : caller'[d] = caller[d] /\ caller[d].pc = "idle"
  BY <1>0 DEF IInv, ModeInv
<1>7. \A d \in Callers : ~Waiting(d)'
  BY <1>6 DEF Waiting
<1>8. Fresh'
  <2>1. ToSet(written') \subseteq 1 .. Len(made')
    BY <1>2, <1>5 DEF IInv, Fresh
  <2> QED BY <1>0, <1>5, <1>7, <2>1
\* The ring as it is before the event is appended.
<1> DEFINE m == IF Len(memory) >= MaxMemory THEN Tail(memory) ELSE memory
           Q == [i \in FileNos |-> IF i = 0 THEN m ELSE <<>>]
<1>9. Parts = [i \in FileNos |-> IF i = 0 THEN memory ELSE <<>>]
  BY <1>0 DEF Parts, Part
<1>10. Parts \in [FileNos -> Seq(Nat)] /\ Parts[0] = memory
       /\ \A j \in FileNos : j # 0 => Parts[j] = <<>>
  BY <1>0, <1>9, EmptySeq, NoneFacts
<1>11. Good(Parts, written, Gone) /\ Excused
  BY GoodIsKept DEF IInv
<1>12. Q \in [FileNos -> Seq(Nat)] /\ Good(Q, written, Gone) /\ m \in Seq(Nat)
  <2>1. CASE Len(memory) >= MaxMemory
    <3>1. memory # <<>>
      BY <1>0, <2>1, ConstantsAssumption, EmptySeq
    <3>2. Tail(memory) \in Seq(Nat) /\ m = Tail(memory)
      BY <1>0, <2>1, <3>1, HeadTailProperties
    <3>3. Q \in [FileNos -> Seq(Nat)]
      BY <3>2, EmptySeq
    <3>4. Q = [Parts EXCEPT ![0] = Tail(Parts[0])]
      BY <1>9, <1>10, <3>2
    <3>5. DropsHead(Parts, Q)
      BY <1>10, <3>1, <3>3, <3>4, NoneFacts DEF DropsHead
    <3> QED BY <1>0, <1>5, <1>11, <3>2, <3>3, <3>5, GoodTail
  <2>2. CASE ~(Len(memory) >= MaxMemory)
    BY <1>0, <1>9, <1>10, <1>11, <2>2
  <2> QED BY <2>1, <2>2
<1>13. memory' = Append(m, n)
  BY <1>4
<1>14. Append(m, n) \in Seq(Nat)
  BY <1>2, <1>12, AppendProperties
<1>15. Parts' = [i \in FileNos |-> IF i = 0 THEN Append(m, n) ELSE <<>>]
  BY <1>0, <1>13 DEF Parts, Part
<1>16. Q[0] = m /\ \A j \in FileNos : j # 0 => Q[j] = <<>>
  BY NoneFacts
<1> HIDE DEF m, Q
<1>17. Appends(Q, Parts', n, 0)
  <2>1. Parts' \in [FileNos -> Seq(Nat)]
    BY <1>14, <1>15, EmptySeq
  <2>2. Parts' = [Q EXCEPT ![0] = Append(Q[0], n)]
    BY <1>12, <1>15, <1>16
  <2>3. \A j \in FileNos : ~(j < 0)
    BY NoneFacts
  <2> QED BY <1>12, <2>1, <2>2, <2>3, NoneFacts DEF Appends
<1>18. KeptIsSuffix'
  <2>1. Good(Parts', Append(written, n), Gone)
    BY <1>0, <1>2, <1>3, <1>12, <1>17, GoodAppend DEF IInv, Fresh
  <2>2. Good(Parts', written', Gone') /\ Excused'
    BY <1>0, <1>11, <2>1 DEF Excused
  <2> QED BY <2>2, GoodIsKeptNext
<1>19. Typed'
  <2>1. \A d \in Callers : CallerTyped(caller[d], Len(made'))
    BY <1>0, <1>2 DEF Typed, CallerTyped
  <2> QED BY <1>0, <1>1, <1>5, <1>13, <1>14, <2>1 DEF Typed
<1>20. ModeInv' /\ WriterInv'
  BY <1>0 DEF IInv, ModeInv, WriterInv, UsesFile
<1>21. RotationInv'
  BY <1>0 DEF IInv, RotationInv, Rotating
<1>22. AckInv' /\ AckedIsTaken'
  BY <1>0, <1>5, <1>6 DEF IInv, AckInv, AckedIsTaken
<1>23. RowsInv'
  BY <1>0, <1>1 DEF IInv, RowsInv, anonymize
<1> QED BY <1>8, <1>18, <1>19, <1>20, <1>21, <1>22, <1>23 DEF IInv

LEMMA RenameIInv ==
    ASSUME IInv, NEW c \in Callers, Rename(c)
    PROVE  IInv'
<1>n. PICK n : n = caller[c].i
  OBVIOUS
<1> DEFINE r == [caller[c] EXCEPT !.i = n - 1]
<1>0. /\ Typed /\ WriterInv /\ mode # "memory" /\ UsesFile /\ disturbed \in BOOLEAN
      /\ UNCHANGED <<mode, retention, now, made, memory, written, lost>>
      /\ UNCHANGED <<db, stored, acked>> /\ caller[c].pc = "rename" /\ n > 0
  BY <1>n, NotMemory DEF IInv, Typed, Rename, config, dbVars, At
<1>1. caller[c] \in CallerRecord /\ CallerTyped(caller[c], Len(made))
  BY <1>0 DEF Typed
<1>2. /\ n \in FileNos /\ n - 1 \in FileNos /\ n \in Nat /\ n # n - 1 /\ n - 1 < MaxFiles - 1
      /\ \A j \in FileNos : (j < n <=> j < n - 1 \/ j = n - 1) /\ j <= MaxFiles - 1
  BY <1>0, <1>1, <1>n, ConstantsAssumption DEF CallerRecord, FileNos
<1>3. /\ r \in CallerRecord /\ r.pc = "rename" /\ r.i = n - 1 /\ r.ev = caller[c].ev
  BY <1>0, <1>1, <1>2 DEF CallerRecord
<1>4. caller' = [caller EXCEPT ![c] = r]
  BY <1>0, <1>n DEF Rename, Typed
<1>5. \/ files[n - 1] = None /\ UNCHANGED <<files, writer, replaced, disturbed>>
      \/ UNCHANGED <<files, writer, replaced>> /\ disturbed' = TRUE
      \/ /\ files[n - 1] # None /\ disturbed' = disturbed
         /\ replaced' = replaced \cup Middle(n)
         /\ files' = [files EXCEPT ![n] = files[n - 1], ![n - 1] = None]
         /\ writer' = IF writer = None THEN None
                      ELSE [writer EXCEPT !.at = CASE writer.at = n - 1 -> n
                                                   [] writer.at = n -> None
                                                   [] OTHER -> writer.at]
  BY <1>n DEF Rename
<1>6. RotationInv /\ Rotating(c)
  BY <1>0 DEF IInv, Rotating
<1>7. ~disturbed => writer = None /\ (n < MaxFiles - 1 => files[n] = None)
  BY <1>0, <1>6, <1>n DEF RotationInv
<1> HIDE DEF r
<1>8. CallerTyped(r, Len(made)) /\ AckOk(r) /\ (r.ev # None => Waiting(c))
  BY <1>0, <1>1, <1>3 DEF CallerTyped, AckOk, Waiting
<1>9. AckedIsTaken' /\ RowsInv'
  BY <1>0 DEF IInv, AckedIsTaken, RowsInv
<1>10. ASSUME disturbed' \/ (files'[n - 1] = None /\ disturbed' = disturbed),
              writer = None => writer' = None
       PROVE  RotationInv'
  <2> SUFFICES ASSUME ~disturbed'
               PROVE  /\ \A d, e \in Callers : Rotating(d)' /\ Rotating(e)' => d = e
                      /\ \A d \in Callers :
                            /\ caller'[d].pc \in {"rename", "open"} => writer' = None
                            /\ caller'[d].pc = "rename" /\ caller'[d].i < MaxFiles - 1
                                  => files'[caller'[d].i] = None
    BY DEF RotationInv
  <2>1. caller'[c] = r /\ \A d \in Callers \ {c} : caller'[d] = caller[d]
    BY <1>0, <1>4 DEF Typed
  <2>2. \A d \in Callers : Rotating(d) => d = c
    BY <1>0, <1>6, <1>10 DEF RotationInv
  <2>3. \A d \in Callers : Rotating(d)' => d = c
    BY <2>1, <2>2 DEF Rotating
  <2>4. \A d \in Callers : caller'[d].pc \in {"rename", "open"} => d = c
    BY <2>3 DEF Rotating
  <2> QED BY <1>0, <1>3, <1>7, <1>10, <2>1, <2>3, <2>4
<1>11. CASE /\ UNCHANGED <<files, writer, replaced>> /\ disturbed' \in BOOLEAN
            /\ disturbed => disturbed'
            /\ disturbed' \/ (files[n - 1] = None /\ disturbed' = disturbed)
  <2>1. files' \in [FileNos -> Seq(Nat) \cup {None}] /\ writer' \in OpenWriter \cup {None}
    BY <1>0, <1>11 DEF Typed
  <2>2. WriterInv'
    BY <1>0, <1>11 DEF WriterInv
  <2>3. KeptIsSuffix'
    <3>1. \A i \in FileNos : Part(i)' = Part(i)
      BY <1>0, <1>11 DEF Part
    <3> QED BY <1>0, <1>11, <3>1, SameKept DEF IInv
  <2>4. RotationInv'
    BY <1>0, <1>10, <1>11
  <2>5. Gone' \subseteq ToSet(written)
    BY <1>0, <1>11 DEF IInv, Fresh, Gone
  <2> QED BY <1>0, <1>3, <1>4, <1>8, <1>9, <1>11, <2>1, <2>2, <2>3, <2>4, <2>5, MoveIInv
<1>12. CASE /\ files[n - 1] # None /\ disturbed' = disturbed
            /\ replaced' = replaced \cup Middle(n)
            /\ files' = [files EXCEPT ![n] = files[n - 1], ![n - 1] = None]
            /\ writer' = IF writer = None THEN None
                         ELSE [writer EXCEPT !.at = CASE writer.at = n - 1 -> n
                                                      [] writer.at = n -> None
                                                      [] OTHER -> writer.at]
  <2>1. files \in [FileNos -> Seq(Nat) \cup {None}]
    BY <1>0 DEF Typed
  <2>2. /\ files' \in [FileNos -> Seq(Nat) \cup {None}]
        /\ files'[n] = files[n - 1] /\ files'[n - 1] = None
        /\ \A i \in FileNos \ {n, n - 1} : files'[i] = files[i]
    BY <1>2, <1>12, <2>1
  <2>3. writer # None =>
           /\ writer \in OpenWriter /\ writer.at \in FileNos /\ writer.at # n
           /\ files[writer.at] # None /\ \A j \in FileNos : j < writer.at => files[j] = None
    <3> SUFFICES ASSUME writer # None PROVE
           /\ writer \in OpenWriter /\ writer.at \in FileNos /\ writer.at # n
           /\ files[writer.at] # None /\ \A j \in FileNos : j < writer.at => files[j] = None
      OBVIOUS
    <3>1. writer \in OpenWriter /\ writer.at \in FileNos
      BY <1>0 DEF Typed, OpenWriter
    <3>2. files[writer.at] # None /\ \A j \in FileNos : j < writer.at => files[j] = None
      BY <1>0 DEF WriterInv
    <3>3. n - 1 < n
      BY <1>2
    <3>4. writer.at # n
      BY <1>2, <1>12, <3>2, <3>3
    <3> QED BY <3>1, <3>2, <3>4
  <2>4. writer # None =>
           /\ writer' \in OpenWriter /\ writer'.buf = writer.buf /\ writer' # None
           /\ writer'.at = IF writer.at = n - 1 THEN n ELSE writer.at
    <3> SUFFICES ASSUME writer # None
                 PROVE  /\ writer' \in OpenWriter /\ writer'.buf = writer.buf
                        /\ writer'.at = IF writer.at = n - 1 THEN n ELSE writer.at
      BY NoneFacts
    <3> DEFINE a == IF writer.at = n - 1 THEN n ELSE writer.at
    <3>1. writer' = [writer EXCEPT !.at = a] /\ a \in FileNos
      BY <1>2, <1>12, <2>3
    <3> HIDE DEF a
    <3>2. writer' \in OpenWriter /\ writer'.buf = writer.buf /\ writer'.at = a
      BY <2>3, <3>1 DEF OpenWriter
    <3> QED BY <3>2 DEF a
  <2>5. writer = None => writer' = None
    BY <1>12
  <2>6. writer' \in OpenWriter \cup {None}
    BY <2>4, <2>5
  <2>7. WriterInv'
    <3> SUFFICES ASSUME writer # None
                 PROVE  /\ files'[writer'.at] # None
                        /\ \A j \in FileNos : j < writer'.at => files'[j] = None
      BY <2>5 DEF WriterInv
    <3>1. CASE writer.at = n - 1
      <4>1. \A j \in FileNos : j < n => files'[j] = None
        BY <1>2, <2>2, <2>3, <3>1
      <4> QED BY <1>12, <2>2, <2>4, <3>1, <4>1
    <3>2. CASE writer.at # n - 1
      <4>1. writer.at \in FileNos \ {n, n - 1}
        BY <2>3, <3>2
      <4>2. ~(n - 1 < writer.at)
        BY <1>2, <1>12, <2>3
      <4>3. \A j \in FileNos : j < writer.at => j # n /\ j # n - 1
        <5>1. \A j \in FileNos, k \in FileNos :
                 j < k /\ ~(n - 1 < k) => j # n /\ j # n - 1
          BY <1>2, NoneFacts
        <5> QED BY <4>1, <4>2, <5>1
      <4> QED BY <2>2, <2>3, <2>4, <3>2, <4>1, <4>3
    <3> QED BY <3>1, <3>2
  <2>8. KeptIsSuffix' /\ Gone' \subseteq ToSet(written)
    <3>1. Parts \in [FileNos -> Seq(Nat)] /\ \A i \in FileNos : Parts[i] = Part(i)
      BY <1>0, PartsTyped
    <3>2. Part(n)' = Part(n - 1)
      <4>1. files'[n] # None /\ files'[n] = files[n - 1]
        BY <1>12, <2>2
      <4>2. writer' # None /\ writer'.at = n <=> writer # None /\ writer.at = n - 1
        BY <2>3, <2>4, <2>5
      <4>3. writer # None => writer'.buf = writer.buf
        BY <2>4
      <4> QED BY <1>0, <1>12, <4>1, <4>2, <4>3 DEF Part
    <3>3. Part(n - 1)' = <<>>
      BY <1>0, <2>2 DEF Part
    <3>4. ASSUME NEW i \in FileNos \ {n, n - 1} PROVE Part(i)' = Part(i)
      <4>1. files'[i] = files[i]
        BY <2>2
      <4>2. writer' # None /\ writer'.at = i <=> writer # None /\ writer.at = i
        BY <2>3, <2>4, <2>5
      <4>3. writer # None => writer'.buf = writer.buf
        BY <2>4
      <4> QED BY <1>0, <4>1, <4>2, <4>3 DEF Part
    <3>5. Parts' = [i \in FileNos |-> Part(i)']
      BY DEF Parts
    <3>6. \A i \in FileNos : Parts'[i] = IF i = n THEN Parts[n - 1]
                                         ELSE IF i = n - 1 THEN <<>> ELSE Parts[i]
      BY <1>2, <3>1, <3>2, <3>3, <3>4, <3>5
    <3>7. Parts' \in [FileNos -> Seq(Nat)]
      BY <1>2, <3>1, <3>5, <3>6, EmptySeq
    <3>8. Parts' = [Parts EXCEPT ![n] = Parts[n - 1], ![n - 1] = <<>>]
      BY <1>2, <3>1, <3>6, <3>7
    <3>9. PICK Q : Q = [Parts EXCEPT ![n] = <<>>]
      OBVIOUS
    <3>10. Q \in [FileNos -> Seq(Nat)] /\ Q[n] = <<>> /\ \A i \in FileNos \ {n} : Q[i] = Parts[i]
      BY <1>2, <3>1, <3>9, EmptySeq
    <3>11. Parts' = [Q EXCEPT ![n] = Q[n - 1], ![n - 1] = <<>>]
      BY <1>2, <3>6, <3>7, <3>10
    <3>12. Empties(Parts, Q, n) /\ Renames(Q, Parts', n)
      BY <1>0, <1>2, <3>1, <3>7, <3>9, <3>10, <3>11 DEF Empties, Renames
    <3>13. /\ Good(Parts, written, Gone) /\ Excused /\ Injective(written)
           /\ written \in Seq(Nat) /\ Gone \subseteq ToSet(written)
      BY GoodIsKept DEF IInv, Fresh, Injective, Typed
    <3>14. Gone' = Gone \cup MiddleOf(Parts, n)
      BY <1>0, <1>2, <1>12, <3>1 DEF Gone, Middle, MiddleOf
    <3>15. Good(Parts', written, Gone')
      <4>1. Good(Q, written, Gone')
        BY <3>12, <3>13, <3>14, GoodEmptied
      <4> QED BY <3>12, <3>13, <4>1, GoodRename
    <3>16. ~disturbed => Middle(n) = {}
      <4>1. ~disturbed /\ n < MaxFiles - 1 => Part(n) = <<>>
        BY <1>0, <1>7 DEF Part
      <4> QED BY <4>1 DEF Middle, ToSet
    <3>17. Excused'
      BY <1>12, <3>13, <3>16 DEF Excused
    <3>18. MiddleOf(Parts, n) \subseteq ToSet(written)
      BY <1>2, <3>13 DEF Good, In, MiddleOf
    <3> QED BY <1>0, <3>13, <3>14, <3>15, <3>17, <3>18, GoodIsKeptNext
  <2>9. RotationInv'
    BY <1>10, <1>12, <2>2, <2>5
  <2> QED BY <1>0, <1>3, <1>4, <1>8, <1>12, <1>9, <2>2, <2>6, <2>7, <2>8, <2>9, MoveIInv
<1> QED BY <1>0, <1>5, <1>11, <1>12

LEMMA ShredIInv ==
    ASSUME IInv, NEW c \in Callers, Shred(c)
    PROVE  IInv'
<1>n. PICK n : n = caller[c].i
  OBVIOUS
<1>0. /\ Typed /\ WriterInv /\ mode # "memory" /\ UsesFile /\ disturbed \in BOOLEAN
      /\ UNCHANGED <<mode, retention, now, made, memory, written, lost, writer, disturbed>>
      /\ UNCHANGED <<db, stored, acked, caller>> /\ caller[c].pc = "rename" /\ n > 0
      /\ files[n - 1] # None /\ files[n] # None
      /\ replaced' = replaced \cup Middle(n)
  BY <1>n, NotMemory DEF IInv, Typed, Shred, config, dbVars, At
<1>1. PICK v \in {<<>>, None} : files' = [files EXCEPT ![n] = v]
  BY <1>n DEF Shred
<1>2. /\ n \in FileNos /\ n - 1 \in FileNos /\ n - 1 < n
  <2>1. n \in FileNos
    BY <1>0, <1>n DEF Typed, CallerRecord
  <2> QED BY <1>0, <2>1, ConstantsAssumption DEF FileNos
<1>3. /\ files \in [FileNos -> Seq(Nat) \cup {None}]
      /\ files' \in [FileNos -> Seq(Nat) \cup {None}] /\ files'[n] = v
      /\ \A i \in FileNos \ {n} : files'[i] = files[i]
  BY <1>0, <1>1, <1>2, EmptySeq DEF Typed
<1>4. \A i \in FileNos : files[i] = None => files'[i] = None
  BY <1>0, <1>3
\* A file below the one that is shredded exists, so the writer is not at it.
<1>5. writer # None => writer.at \in FileNos /\ writer.at # n
  BY <1>0, <1>2 DEF Typed, OpenWriter, WriterInv
<1>6. WriterInv'
  BY <1>0, <1>3, <1>4, <1>5 DEF WriterInv
<1>7. KeptIsSuffix' /\ Gone' \subseteq ToSet(written)
  <2>1. Parts \in [FileNos -> Seq(Nat)] /\ \A i \in FileNos : Parts[i] = Part(i)
    BY <1>0, PartsTyped
  <2>2. Part(n)' = <<>>
    <3>1. ~(writer' # None /\ writer'.at = n)
      BY <1>0, <1>5
    <3> QED BY <1>0, <1>3, <3>1 DEF Part
  <2>3. \A i \in FileNos \ {n} : Part(i)' = Part(i)
    BY <1>0, <1>3 DEF Part
  <2>4. Parts' = [i \in FileNos |-> Part(i)']
    BY DEF Parts
  <2>5. Parts' = [Parts EXCEPT ![n] = <<>>]
    BY <1>2, <2>1, <2>2, <2>3, <2>4
  <2>6. Empties(Parts, Parts', n)
    BY <1>2, <2>1, <2>5, EmptySeq DEF Empties
  <2>7. /\ Good(Parts, written, Gone) /\ Excused /\ Injective(written)
        /\ written \in Seq(Nat) /\ Gone \subseteq ToSet(written)
    BY GoodIsKept DEF IInv, Fresh, Injective, Typed
  <2>8. Gone' = Gone \cup MiddleOf(Parts, n)
    BY <1>0, <1>2, <2>1 DEF Gone, Middle, MiddleOf
  <2>9. Good(Parts', written, Gone')
    BY <2>6, <2>7, <2>8, GoodEmptied
  <2>10. ~disturbed => Middle(n) = {}
    <3>1. ~disturbed => ~(n < MaxFiles - 1)
      BY <1>0, <1>n DEF IInv, RotationInv
    <3> QED BY <3>1 DEF Middle
  <2>11. Excused'
    BY <1>0, <2>7, <2>10 DEF Excused
  <2>12. MiddleOf(Parts, n) \subseteq ToSet(written)
    BY <1>2, <2>7 DEF Good, In, MiddleOf
  <2> QED BY <1>0, <2>7, <2>8, <2>9, <2>11, <2>12, GoodIsKeptNext
<1>8. Typed' /\ ModeInv'
  BY <1>0, <1>3 DEF IInv, Typed, ModeInv, UsesFile
<1>9. Fresh' /\ AckInv' /\ AckedIsTaken' /\ RowsInv'
  BY <1>0, <1>7 DEF IInv, Fresh, Waiting, AckInv, AckedIsTaken, RowsInv
<1>10. RotationInv'
  <2>1. \A d \in Callers : caller[d].i \in FileNos
    BY <1>0 DEF Typed, CallerRecord
  <2> QED BY <1>0, <1>4, <2>1 DEF IInv, RotationInv, Rotating
<1> QED BY <1>6, <1>7, <1>8, <1>9, <1>10 DEF IInv

LEMMA GoodEmpty ==
    ASSUME NEW P, NEW w, NEW L, \A i \in FileNos : P[i] = <<>>
    PROVE  Good(P, w, L)
<1>1. In(P) = {}
  BY DEF In, ToSet
<1>2. Ordered(P, w)
  BY DEF Ordered
<1> QED BY <1>1, <1>2 DEF Good, Recent

LEMMA CrashIInv ==
    ASSUME IInv, Crash
    PROVE  IInv'
<1>0. /\ Typed /\ WriterInv /\ disturbed \in BOOLEAN /\ written \in Seq(Nat)
      /\ UNCHANGED <<mode, retention, now, made, written, db, stored, acked>>
      /\ UNCHANGED <<replaced, disturbed>>
      /\ memory' = <<>> /\ caller' = [c \in Callers |-> Idle]
  BY DEF IInv, Typed, Crash
<1>1. lost' = lost \cup ToSet(memory) \cup (IF writer = None THEN {} ELSE ToSet(writer.buf))
  BY DEF Crash
<1>2. /\ UsesFile => /\ files' = open_file(files).files
                     /\ writer' = open_file(files).writer
      /\ ~UsesFile => UNCHANGED <<files, writer>>
  BY DEF Crash
<1>3. /\ CallerTyped(Idle, Len(made)) /\ Idle.pc = "idle" /\ Idle.ev = None
      /\ Idle \in CallerRecord
  BY NoneFacts DEF CallerTyped, Idle, CallerRecord, Pcs
<1>4. /\ caller' \in [Callers -> CallerRecord]
      /\ \A c \in Callers : caller'[c] = Idle
  BY <1>0, <1>3
<1>5. files \in [FileNos -> Seq(Nat) \cup {None}]
  BY <1>0 DEF Typed
<1>6. UsesFile => mode # "memory" /\ mode' # "memory"
  BY <1>0 DEF UsesFile
<1>7. UsesFile => \A i \in FileNos : Part(i)' = IF files[i] = None THEN <<>> ELSE files[i]
  BY <1>2, <1>5, <1>6, OpenKeeps
<1>8. /\ files' \in [FileNos -> Seq(Nat) \cup {None}] /\ writer' \in OpenWriter \cup {None}
      /\ WriterInv'
  <2>1. CASE UsesFile
    BY <1>2, <1>5, <1>6, <2>1, OpenKeeps
  <2>2. CASE ~UsesFile
    BY <1>0, <1>2, <2>2 DEF Typed, WriterInv
  <2> QED BY <2>1, <2>2
<1>9. Typed'
  BY <1>0, <1>3, <1>4, <1>8, EmptySeq DEF Typed
<1>10. ModeInv'
  BY <1>0, <1>2, <1>3, <1>4 DEF IInv, ModeInv, UsesFile
<1>11. RotationInv' /\ AckInv'
  BY <1>3, <1>4 DEF RotationInv, Rotating, AckInv
<1>12. AckedIsTaken' /\ RowsInv'
  BY <1>0 DEF IInv, AckedIsTaken, RowsInv
<1>13. /\ Good(Parts, written, Gone) /\ Excused /\ Excused' /\ Injective(written)
       /\ Gone \subseteq ToSet(written)
  BY <1>0, GoodIsKept DEF IInv, Fresh, Injective, Excused
<1>14. Parts \in [FileNos -> Seq(Nat)] /\ \A i \in FileNos : Parts[i] = Part(i)
  BY <1>0, PartsTyped
<1>15. Parts' \in [FileNos -> Seq(Nat)] /\ Parts' = [i \in FileNos |-> Part(i)']
  BY <1>9, PartsTypedNext
<1>16. ToSet(<<>>) = {}
  BY DEF ToSet
<1>17. KeptIsSuffix' /\ Gone' \subseteq ToSet(written)
  <2>1. CASE mode = "memory"
    <3>1. \A i \in FileNos : Parts'[i] = <<>>
      BY <1>0, <1>15, <2>1 DEF Part
    <3>2. Parts[0] = memory /\ writer = None
      BY <1>14, <2>1, NoneFacts DEF Part, IInv, ModeInv, UsesFile
    <3>3. ToSet(memory) \subseteq ToSet(written)
      BY <1>13, <3>2, NoneFacts DEF Good, In
    <3>4. Gone' = Gone \cup ToSet(memory)
      BY <1>0, <1>1, <3>2 DEF Gone
    <3>5. Good(Parts', written', Gone')
      BY <3>1, GoodEmpty
    <3> QED BY <1>13, <3>3, <3>4, <3>5, GoodIsKeptNext
  <2>2. CASE mode # "memory" /\ writer = None
    <3>1. lost' = lost
      BY <1>1, <1>16, <2>2 DEF IInv, ModeInv
    <3>2. \A i \in FileNos : Part(i)' = Part(i)
      <4>1. CASE UsesFile
        BY <1>7, <2>2, <4>1 DEF Part
      <4>2. CASE ~UsesFile
        BY <1>0, <1>2, <2>2, <4>2 DEF Part
      <4> QED BY <4>1, <4>2
    <3>3. KeptIsSuffix'
      BY <1>0, <3>1, <3>2, SameKept DEF IInv
    <3> QED BY <1>0, <1>13, <3>1, <3>3 DEF Gone
  <2>3. CASE mode # "memory" /\ writer # None
    <3>1. UsesFile
      BY <2>3 DEF IInv, ModeInv
    <3>2. Gone' = Gone \cup ToSet(writer.buf)
      BY <1>0, <1>1, <1>16, <2>3 DEF IInv, ModeInv, Gone
    <3> QED BY <1>0, <1>7, <2>3, <3>1, <3>2, BufferLost
  <2> QED BY <2>1, <2>2, <2>3
<1>19. Fresh'
  <2>1. \A c \in Callers : ~Waiting(c)'
    BY <1>3, <1>4 DEF Waiting
  <2> QED BY <1>0, <1>17, <2>1 DEF IInv, Fresh
<1> QED BY <1>8, <1>9, <1>10, <1>11, <1>12, <1>17, <1>19 DEF IInv

LEMMA InitIInv == Init => IInv
<1> SUFFICES ASSUME Init PROVE IInv
  OBVIOUS
<1>1. /\ mode \in Modes /\ now = 0 /\ made = <<>> /\ memory = <<>> /\ written = <<>>
      /\ files = [i \in FileNos |-> IF i = 0 /\ UsesFile THEN <<>> ELSE None]
      /\ writer = IF UsesFile THEN [at |-> 0, buf |-> <<>>] ELSE None
      /\ db = {} /\ acked = {} /\ lost = {} /\ disturbed = FALSE /\ replaced = {}
      /\ caller = [c \in Callers |-> Idle]
  BY DEF Init
<1>2. retention \in Nat
  BY ConstantsAssumption DEF Init
<1>3. /\ Idle \in CallerRecord /\ Idle.pc = "idle" /\ Idle.ev = None
      /\ CallerTyped(Idle, Len(made))
  BY NoneFacts DEF CallerTyped, Idle, CallerRecord, Pcs
<1>4. writer \in OpenWriter \cup {None}
      /\ (writer # None => UsesFile /\ writer.at = 0 /\ writer.buf = <<>>)
  BY <1>1, EmptySeq, NoneFacts DEF OpenWriter
<1>5. files \in [FileNos -> Seq(Nat) \cup {None}]
  BY <1>1, EmptySeq
<1>6. \A c \in Callers : caller[c] = Idle
  BY <1>1
<1>7. caller \in [Callers -> CallerRecord]
  BY <1>1, <1>3
<1>8. Typed
  BY <1>1, <1>2, <1>3, <1>4, <1>5, <1>6, <1>7, EmptySeq DEF Typed
<1>9. ModeInv /\ RotationInv /\ AckInv /\ AckedIsTaken /\ RowsInv
  BY <1>1, <1>3, <1>6 DEF ModeInv, RotationInv, Rotating, AckInv, AckedIsTaken, RowsInv
<1>10. WriterInv
  <2>1. \A j \in FileNos : ~(j < 0)
    BY NoneFacts
  <2>2. <<>> # None
    BY EmptySeq, NoneFacts
  <2>3. UsesFile => files[0] = <<>>
    BY <1>1, NoneFacts
  <2> QED BY <1>4, <2>1, <2>2, <2>3 DEF WriterInv
<1>11. Fresh
  <2>1. ToSet(written) = {} /\ DOMAIN written = {}
    BY <1>1 DEF ToSet
  <2>2. \A c \in Callers : ~Waiting(c)
    BY <1>3, <1>6 DEF Waiting
  <2> QED BY <1>1, <2>1, <2>2 DEF Fresh, Gone
<1>12. KeptIsSuffix
  <2>1. <<>> \o <<>> = <<>>
    BY ConcatEmpty, EmptySeq
  <2>2. \A i \in FileNos : files[i] = None \/ files[i] = <<>>
    BY <1>1
  <2>3. \A i \in FileNos : Part(i) = <<>>
    BY <1>1, <1>4, <2>1, <2>2 DEF Part
  <2>4. Good(Parts, written, Gone)
    BY <2>3, GoodEmpty DEF Parts
  <2> QED BY <1>1, <2>4, GoodIsKept DEF Excused
<1> QED BY <1>8, <1>9, <1>10, <1>11, <1>12 DEF IInv

LEMMA NextIInv == IInv /\ [Next]_vars => IInv'
<1> SUFFICES ASSUME IInv, [Next]_vars PROVE IInv'
  OBVIOUS
<1>1. ASSUME NEW c \in Callers, Step(c) PROVE IInv'
  BY <1>1, LogMemoryIInv, LogIInv, CleanupIInv, StatIInv, CloseIInv, RenameIInv, ShredIInv,
     RenamedIInv, OpenIInv, RotationFailsIInv, WriteIInv, FlushIInv, InsertIInv,
     PurgeIInv DEF Step
<1>2. CASE Spill \/ Tick \/ Crash
  BY <1>2, SpillIInv, TickIInv, CrashIInv
<1>3. CASE UNCHANGED vars
  <2>1. UNCHANGED <<mode, retention, now, made, memory, files, writer, db, stored, caller,
                    written, acked, lost, replaced, disturbed>>
    BY <1>3 DEF vars
  <2>2. Typed' /\ ModeInv' /\ WriterInv'
    BY <2>1 DEF IInv, Typed, ModeInv, UsesFile, WriterInv
  <2>3. Fresh' /\ AckInv' /\ AckedIsTaken' /\ RowsInv'
    BY <2>1 DEF IInv, Fresh, Gone, Waiting, AckInv, AckedIsTaken, RowsInv
  <2>4. RotationInv'
    BY <2>1 DEF IInv, RotationInv, Rotating
  <2>5. \A i \in FileNos : Part(i)' = Part(i)
    BY <2>1 DEF Part
  <2>6. KeptIsSuffix'
    BY <2>1, <2>5, SameKept DEF IInv, Typed
  <2> QED BY <2>2, <2>3, <2>4, <2>6 DEF IInv
<1> QED BY <1>1, <1>2, <1>3 DEF Next

\* In every state of the log: who writes where, what was written and by whom,
\* what the files hold and what the rows say.
THEOREM Invariance == Spec => []IInv
BY InitIInv, NextIInv, PTL DEF Spec

\* Rotation, restarts, failing file operations and interleaved callers lose no
\* event but the oldest, what sat in a buffer, and what was in a file that two
\* rotations at once or a failed rename replaced before its turn
\* (rotate_if_needed, the memory ring, create_logger after a crash).
THEOREM OldestAreLost == Spec => []KeptIsSuffix
<1>1. IInv => KeptIsSuffix
  BY DEF IInv
<1> QED BY <1>1, Invariance, PTL

\* An Ok of log is kept by a backend (FileConnectionLogger::log, insert_event,
\* CompositeLogger::log).
THEOREM OkIsTaken == Spec => []AckedIsTaken
<1>1. IInv => AckedIsTaken
  BY DEF IInv
<1> QED BY <1>1, Invariance, PTL

-----------------------------------------------------------------------------
(* The purge *)

\* Rounding takes less than an hour off.
LEMMA Rounding ==
    ASSUME NEW t \in Nat
    PROVE  anonymize(t) \in Nat /\ anonymize(t) <= t /\ t < anonymize(t) + Round
BY ConstantsAssumption DEF anonymize

LEMMA PurgeStep ==
    ASSUME IInv, Next, NEW row \in db \ db'
    PROVE  retention # 0 /\ made[row.id] + retention < now + Round
<1>1. PICK c \in Callers : Purge(c)
  BY DEF Next, Step, LogMemory, Log, Cleanup, Stat, Close, Rename, Shred, Renamed, Open,
     RotationFails, Write, Flush, Insert, Spill, Tick, Crash, dbVars
<1>2. Old(row)
  BY <1>1 DEF Purge
<1>3. /\ made[row.id] \in Nat /\ retention \in Nat /\ now \in Nat
      /\ row.timestamp = anonymize(made[row.id])
  BY DEF IInv, Typed, RowsInv
<1>4. /\ anonymize(made[row.id]) \in Nat
      /\ made[row.id] < anonymize(made[row.id]) + Round
  BY <1>3, Rounding
<1>5. retention # 0 /\ anonymize(made[row.id]) + retention < now
  BY <1>2, <1>3 DEF Old
<1> QED BY <1>3, <1>4, <1>5, ConstantsAssumption

\* purge_old_events deletes nothing that is younger than the retention, up to
\* the hour that rounding its timestamp took off.
THEOREM PurgeRespectsRetention == Spec => PurgedIsOld
<1>1. IInv /\ [Next]_vars =>
         [\A row \in db \ db' : retention # 0 /\ made[row.id] + retention < now + Round]_vars
  BY PurgeStep
<1> QED BY <1>1, Invariance, PTL DEF Spec, PurgedIsOld
=============================================================================
