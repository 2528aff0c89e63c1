--------------------------- MODULE MemoryParts_proofs ---------------------------
(***************************************************************************)
(* What the parts of Memory guarantee, for every value of their constants. *)
(* The module extends that of the store, which comes first.  Each other    *)
(* part is an instance on variables of its own (where names meet, those of *)
(* Across, Projected, Backups, Versions and Actions begin with a, j, b, s  *)
(* and f), declared where its proofs begin; a theorem about one says       *)
(* nothing of the others' variables.                                       *)
(***************************************************************************)
EXTENDS FactStore, FiniteSetTheorems, WellFoundedInduction, TLAPS

-----------------------------------------------------------------------------
(* Sequences.                                                               *)

\* What is appended to a sequence is its last element.
LEMMA Appended ==
  ASSUME NEW T, NEW s \in Seq(T), NEW v \in T
  PROVE  /\ Append(s, v) \in Seq(T)
         /\ Len(Append(s, v)) = Len(s) + 1
         /\ Append(s, v)[Len(s) + 1] = v
<1>1. Append(s, v) \in Seq(T) /\ Len(Append(s, v)) = Len(s) + 1
  OBVIOUS
<1>2. Append(s, v)[Len(s) + 1] = v
  OBVIOUS
<1> QED
  BY <1>1, <1>2

\* To a sequence of one, the second.
LEMMA SecondOfTwo ==
  ASSUME NEW T, NEW s \in Seq(T), Len(s) = 1, NEW v \in T
  PROVE  Append(s, v) \in Seq(T) /\ Len(Append(s, v)) = 2 /\ Append(s, v)[1] = s[1]
         /\ Append(s, v)[2] = v /\ Append(s, v) # << >> /\ s # << >>
<1> DEFINE t == Append(s, v)
<1>1. t \in Seq(T) /\ Len(t) = Len(s) + 1
  BY ZenonT(60), Appended
<1>2. t[Len(s) + 1] = v
  BY ZenonT(60), Appended
<1>3. t[1] = s[1]
  OBVIOUS
<1> HIDE DEF t
<1>4. Len(s) + 1 = 2
  OBVIOUS
<1>5. Len(t) = 2 /\ t[2] = v
  BY <1>1, <1>2, <1>4
<1>6. Len(<< >>) = 0
  OBVIOUS
<1>7. t # << >>
  BY <1>5, <1>6
<1>8. s # << >>
  OBVIOUS
<1> QED
  BY <1>1, <1>3, <1>5, <1>7, <1>8 DEF t

-----------------------------------------------------------------------------
(* The invariant.                                                           *)

\* The constants are a number of files, a number of ids, and texts that are not the mark of
\* a missing one.
Sized ==
  NPaths \in Nat \ {0} /\ MaxId \in Nat /\ MaxActs \in Nat /\ Text # {} /\ NoText \notin Text

Ids(lines) == {l.id : l \in lines}
NoDup(lines) == \A l, m \in lines : l.id = m.id /\ l.id # 0 => l = m
OnFile(i) == \E q \in Path : Has(q, i)

\* The operations of a job, and the lines it holds in memory.
Ops(j) == {j.ops[n] : n \in DOMAIN j.ops}
Viewed(j) == UNION {j.view[q] : q \in Path}
Lines(j) == {op.line : op \in {o \in Ops(j) : o.kind # "save"}}
Saved(j) == UNION {op.lines : op \in {o \in Ops(j) : o.kind = "save"}}
Hands(j) == j.new \union Viewed(j) \union Lines(j) \union Saved(j)

\* What a call is going to do, by kind of call.
Shape(j) ==
  LET s == j.ops IN
  /\ j.call = "other" =>
       \/ s = << >>
       \/ Len(s) = 1 /\ s[1].kind \in {"add", "replace", "cut"}
       \/ Len(s) = 2 /\ s[1].kind \in {"replace", "cut"} /\ s[2].kind = "add"
  /\ j.call = "merge" => \A n \in DOMAIN s : s[n].kind = "replace"
  /\ j.call = "dream" => ~j.norm /\ \A n \in DOMAIN s : s[n].kind = "save"
  /\ \A n \in DOMAIN s : s[n].kind = "replace" =>
       \E l \in s[n].lines : l.id = s[n].line.id /\ l.text = s[n].line.text
  /\ s # << >> /\ s[1].kind = "cut" =>
       \/ Len(s) = 2 /\ s[2].line = s[1].line
       \/ Len(s) = 1 /\ <<s[1].line.id, s[1].line.text>> \in j.drop

\* Where a call is, and what it holds then.
Stage(step, j) ==
  /\ step = "idle" => j = NoJob
  /\ step \in {"merge", "dream"} => j.ops = << >> /\ j.new = {} /\ j.call = step /\ ~j.norm
  /\ step = "fetch" => j.ops # << >> /\ j.new = {} /\ ~j.norm
  /\ step = "mark" => j.new = {} /\ j.norm
  /\ j.norm /\ j.ops = << >> => j.view = NoLines /\ j.done = {} /\ j.call = "other" /\ j.drop = {}

\* The lines in memory are facts, each once.
Held(step, j) ==
  /\ \A l \in Hands(j) : l.id # 0
  /\ NoDup(j.new)
  /\ \A q, r \in Path : \A l \in j.view[q], m \in j.view[r] : l.id = m.id => q = r /\ l = m
  /\ \A op \in Ops(j) : op.kind = "save" => NoDup(op.lines)
  /\ \A n, m \in DOMAIN j.ops :
       n # m /\ j.call = "dream" =>
         /\ j.ops[n].q # j.ops[m].q
         /\ Ids(j.ops[n].lines) \intersect Ids(j.ops[m].lines) = {}
  /\ step = "md" /\ j.call = "dream" =>
       \A op \in Ops(j) : op.q # j.q /\ Ids(op.lines) \intersect Ids(j.new) = {}

Local(step, j) == Shape(j) /\ Stage(step, j) /\ Held(step, j)

\* What p holds of a file that has not changed since it was read.
Current(p) ==
  LET j == job[p] IN
  /\ pc[p] = "cache" /\ j.q \notin stale[p] => file[j.q] = j.new
  /\ pc[p] = "md" /\ j.q \notin stale[p] =>
       \A l \in file[j.q] :
         /\ \/ l.id = 0 \/ l.id \in Ids(j.new)
            \/ \E op \in Ops(j) : op.kind = "add" /\ op.line.id = l.id
            \/ \E d \in j.drop : d[1] = l.id
         /\ \/ \E m \in j.new : m.text = l.text
            \/ \E op \in Ops(j) : op.kind = "add" /\ op.line.text = l.text
            \/ \E d \in j.drop : d[2] = l.text
  /\ pc[p] = "dream" => \A r \in Path \ stale[p] : j.view[r] = file[r]
  /\ \A op \in Ops(j) : op.kind = "save" /\ op.q \notin stale[p] =>
       \A l \in file[op.q] : \/ \E m \in op.lines : m.id = l.id /\ m.text = l.text
                             \/ <<l.id, l.text>> \in j.drop

\* Who says that the text of fact i is t.
DiskSays(i, t) ==
  \E q \in Path : \/ cache[q][i] = t
                  \/ cache[q][i] = NoText /\ \E l \in file[q] : l.id = i /\ l.text = t
HandSays(j, i, t) == (\E l \in Hands(j) : l.id = i /\ l.text = t) \/ <<i, t>> \in j.drop
Claim(i, t) ==
  DiskSays(i, t) \/ <<i, t>> \in tombs \/ <<i, t>> \in kept \/ \E p \in Proc : HandSays(job[p], i, t)
Agree ==
  \A i \in Id : \A t, u \in Text : Claim(i, t) /\ Claim(i, u) => t = u
Used == \A i \in Id : \A t \in Text : Claim(i, t) => i < next

\* p has a fact that is in no file and is going to put it into one.
Doomed(p) == pc[p] = "md" /\ job[p].q \in stale[p]
HasAdd(j, i) == \E op \in Ops(j) : op.kind = "add" /\ op.line.id = i
Ready(p, i) == HasAdd(job[p], i) /\ ~Doomed(p) /\ job[p].ops[1].kind # "cut"
Adding(p, i) ==
  pc[p] = "md" /\ job[p].q \notin stale[p] /\ i \in Ids(job[p].new) /\ ~Has(job[p].q, i)
Saving(p, i) ==
  \E op \in Ops(job[p]) :
    op.kind = "save" /\ op.q \notin stale[p] /\ i \in Ids(op.lines) /\ ~Has(op.q, i)
Owns(p, i) == ~OnFile(i) /\ (Ready(p, i) \/ Adding(p, i) \/ Saving(p, i))

OneLine ==
  \A q, r \in Path : \A l \in file[q], m \in file[r] : l.id = m.id /\ l.id # 0 => q = r /\ l = m
OneOwner ==
  \A p, r \in Proc, i \in Id : Owns(p, i) /\ Owns(r, i) => p = r
OwnsNew ==
  \A p \in Proc, i \in Id :
    /\ Ready(p, i) /\ OnFile(i) => pc[p] = "md" /\ Has(job[p].q, i)
    /\ Ready(p, i) /\ pc[p] = "md" => i \notin Ids(job[p].new)
    /\ Adding(p, i) \/ Saving(p, i) => ~OnFile(i)

\* What was promised.
IsOf(l, k) == IF k[1] = 0 THEN l.text = k[2] ELSE l.id = k[1]
Carries(step, j, k) ==
  \/ \E op \in Ops(j) : op.kind = "add" /\ IsOf(op.line, k)
  \/ step = "md" /\ \E l \in j.new : IsOf(l, k)
Stored(k) == \E q \in Path : \E l \in file[q] : IsOf(l, k)
Promised == \A k \in kept : Stored(k) \/ \E p \in Proc : Carries(pc[p], job[p], k)

\* p is going to take a forgotten fact out of its file.
Dropping(p, i) ==
  /\ ~HasAdd(job[p], i)
  /\ \/ \E op \in Ops(job[p]) : op.kind = "cut" /\ op.line.id = i
     \/ pc[p] = "md" /\ i \notin Ids(job[p].new) /\ (job[p].q \in stale[p] \/ Has(job[p].q, i))
Gone ==
  \A t \in tombs : OnFile(t[1]) \/ (\E p \in Proc : Owns(p, t[1])) => \E p \in Proc : Dropping(p, t[1])
\* What was forgotten had been in a file, so it is not what a dream has just made.
Unsaved == \A t \in tombs, p \in Proc : ~Saving(p, t[1])

Good ==
  /\ TypeOK
  /\ \A q \in Path : IsFiniteSet(file[q])
  /\ \A p \in Proc : Local(pc[p], job[p]) /\ Current(p)
  /\ \A t \in tombs : t[1] # 0
  /\ Agree /\ Used /\ OneLine /\ OneOwner /\ OwnsNew /\ Promised /\ Gone /\ Unsaved
Inv == Sized /\ (Lossless => Good)

-----------------------------------------------------------------------------
(* Sequences, numbers and the lines of a file.                              *)

\* The rest of a call's operations.
LEMMA TailOps ==
  ASSUME NEW s \in Seq(Op), s # << >>
  PROVE  /\ Tail(s) \in Seq(Op) /\ s[1] \in Op /\ Head(s) = s[1] /\ 1 \in DOMAIN s
         /\ Len(Tail(s)) = Len(s) - 1 /\ Len(s) \in Nat \ {0}
         /\ DOMAIN Tail(s) = 1 .. Len(s) - 1 /\ DOMAIN s = 1 .. Len(s)
         /\ \A n \in DOMAIN Tail(s) : n \in Nat /\ Tail(s)[n] = s[n + 1] /\ n + 1 \in DOMAIN s
         /\ Tail(s) = << >> <=> Len(s) = 1
<1>1. /\ Tail(s) \in Seq(Op) /\ s[1] \in Op /\ Head(s) = s[1] /\ 1 \in DOMAIN s
      /\ Len(Tail(s)) = Len(s) - 1 /\ Len(s) \in Nat \ {0} /\ DOMAIN s = 1 .. Len(s)
  OBVIOUS
<1>2. DOMAIN Tail(s) = 1 .. Len(s) - 1
  BY <1>1
<1>3. \A n \in DOMAIN Tail(s) : n \in Nat /\ Tail(s)[n] = s[n + 1] /\ n + 1 \in DOMAIN s
  BY <1>1, <1>2
<1>4. \A t \in Seq(Op) : t = << >> <=> Len(t) = 0
  OBVIOUS
<1>5. Tail(s) = << >> <=> Len(s) = 1
  <2>1. Tail(s) = << >> <=> Len(Tail(s)) = 0
    BY <1>1, <1>4, Zenon
  <2>2. Len(Tail(s)) = 0 <=> Len(s) = 1
    BY <1>1
  <2> QED
    BY <2>1, <2>2, Zenon
<1> QED
  BY <1>1, <1>2, <1>3, <1>5

\* An id is a number, and not that of a bare line.
LEMMA IdsAreNumbers ==
  ASSUME Sized
  PROVE  \A i \in Id : i # 0 /\ i \in Nat
  BY DEF Id, Sized

\* A set of numbers has a least one.
LEMMA LeastNumber ==
  ASSUME NEW S \in SUBSET Nat, S # {}
  PROVE  \E x \in S : \A y \in S : x <= y
<1>1. PICK x \in S : \A y \in S : ~(<<y, x>> \in OpToRel(<, Nat))
  BY WFMin, NatLessThanWellFounded
<1>2. \A y \in S : ~(y < x)
  BY <1>1 DEF OpToRel
<1> QED
  BY <1>2

\* Facts, each once, are as few as there are ids.
LEMMA FactsAreFew ==
  ASSUME Sized, NEW S \in SUBSET Line, NoDup(S), \A l \in S : l.id # 0
  PROVE  IsFiniteSet(S)
<1> DEFINE f == [l \in S |-> l.id]
<1>1. f \in Injection(S, 0 .. MaxId)
  BY DEF NoDup, Injection, Line, IsInjective
<1>2. IsFiniteSet(0 .. MaxId)
  BY FS_Interval DEF Sized
<1> QED
  BY <1>1, <1>2, FS_Injection

\* The lines that get an id can be numbered.
LEMMA Numbers ==
  ASSUME NEW S, IsFiniteSet(S), NEW m \in Nat
  PROVE  /\ Cardinality(S) \in Nat
         /\ \E f \in [S -> m .. m + Cardinality(S) - 1] : \A a, b \in S : a # b => f[a] # f[b]
<1>1. Cardinality(S) \in Nat /\ ExistsBijection(1 .. Cardinality(S), S)
  BY FS_CardinalityType
<1> DEFINE n == Cardinality(S)
<1>2. PICK g \in Bijection(1 .. n, S) : TRUE
  BY <1>1 DEF ExistsBijection
<1>3. /\ g \in [1 .. n -> S]
      /\ \A a \in S : \E i \in 1 .. n : g[i] = a
  BY <1>2 DEF Bijection, Surjection, Injection
<1> DEFINE h == [a \in S |-> CHOOSE i \in 1 .. n : g[i] = a]
           f == [a \in S |-> m + h[a] - 1]
<1>4. \A a \in S : h[a] \in 1 .. n /\ g[h[a]] = a
  BY <1>3
<1> HIDE DEF h
<1>5. f \in [S -> m .. m + n - 1]
  BY <1>1, <1>4
<1>6. \A a, b \in S : a # b => f[a] # f[b]
  BY <1>1, <1>4
<1> QED
  BY <1>1, <1>5, <1>6

\* The first of some facts of files is one of them.
LEMMA FirstIsOne ==
  ASSUME Sized, NEW S \in SUBSET (Path \X Line), S # {},
         \A a, b \in S : a[1] = b[1] /\ a[2].id = b[2].id => a = b
  PROVE  First(S) \in S
<1> DEFINE Q == {a[1] : a \in S}
<1>1. Q \in SUBSET Nat /\ Q # {}
  BY DEF Path, Sized
<1>2. PICK q \in Q : \A r \in Q : q <= r
  BY <1>1, LeastNumber
<1> DEFINE I == {a[2].id : a \in {b \in S : b[1] = q}}
<1>3. I \in SUBSET Nat /\ I # {}
  BY <1>2 DEF Line, Sized
<1>4. PICK i \in I : \A j \in I : i <= j
  BY <1>3, LeastNumber
<1>5. PICK a \in S : a[1] = q /\ a[2].id = i
  BY <1>4
<1>6. ASSUME NEW b \in S \ {a} PROVE Before(a, b)
  <2>1. b[1] \in Nat /\ b[2].id \in Nat /\ a[1] \in Nat /\ a[2].id \in Nat
    BY DEF Path, Sized, Line
  <2>2. q <= b[1]
    BY <1>2
  <2>3. b[1] = q => i <= b[2].id
    BY <1>4
  <2>4. b[1] = q => b[2].id # i
    BY <1>5
  <2> QED
    BY <1>5, <2>1, <2>2, <2>3, <2>4 DEF Before
<1> QED
  BY <1>5, <1>6 DEF First

\* Some order of the files has those in a set first.
LEMMA FilesInOrder ==
  ASSUME Sized, NEW G \in SUBSET Path
  PROVE  \E f \in [1 .. NPaths -> Path] :
           /\ \A i, j \in 1 .. NPaths : i # j => f[i] # f[j]
           /\ \A i, j \in 1 .. NPaths : i < j /\ f[j] \in G => f[i] \in G
<1> DEFINE H == Path \ G
           n == Cardinality(G)
           m == Cardinality(H)
<1>1. IsFiniteSet(Path) /\ Cardinality(Path) = NPaths
  BY FS_Interval DEF Path, Sized
<1>2. IsFiniteSet(G) /\ IsFiniteSet(H)
  BY <1>1, FS_Subset
<1>3. n \in Nat /\ m \in Nat /\ n + m = NPaths
  <2>1. G \union H = Path /\ G \intersect H = {}
    OBVIOUS
  <2>2. Cardinality({}) = 0
    BY FS_EmptySet
  <2>3. n \in Nat /\ m \in Nat
    BY <1>2, FS_CardinalityType
  <2>4. Cardinality(G \union H) = n + m - Cardinality(G \intersect H)
    BY <1>2, FS_Union
  <2>5. NPaths = n + m - 0
    BY <1>1, <2>1, <2>2, <2>4, Zenon
  <2> QED
    BY <2>3, <2>5 DEF Sized
<1>4. PICK g \in Bijection(1 .. n, G) : TRUE
  BY <1>2, FS_CardinalityType DEF ExistsBijection
<1>5. PICK h \in Bijection(1 .. m, H) : TRUE
  BY <1>2, FS_CardinalityType DEF ExistsBijection
<1>6. /\ \A i \in 1 .. n : g[i] \in G
      /\ \A i, j \in 1 .. n : i # j => g[i] # g[j]
      /\ \A i \in 1 .. m : h[i] \in Path /\ h[i] \notin G
      /\ \A i, j \in 1 .. m : i # j => h[i] # h[j]
  BY <1>4, <1>5 DEF Bijection, Injection, IsInjective
<1> DEFINE f == [i \in 1 .. NPaths |-> IF i <= n THEN g[i] ELSE h[i - n]]
<1> HIDE DEF n, m, H
<1>7. f \in [1 .. NPaths -> Path]
  BY <1>3, <1>6
<1>8. ASSUME NEW i \in 1 .. NPaths, NEW j \in 1 .. NPaths
      PROVE  (i # j => f[i] # f[j]) /\ (i < j /\ f[j] \in G => f[i] \in G)
  <2>1. i <= n => i \in 1 .. n
    BY <1>3
  <2>2. j <= n => j \in 1 .. n
    BY <1>3
  <2>3. ~(i <= n) => i - n \in 1 .. m
    BY <1>3
  <2>4. ~(j <= n) => j - n \in 1 .. m
    BY <1>3
  <2>5. i # j => i - n # j - n
    BY <1>3
  <2> QED
    BY <1>3, <1>6, <2>1, <2>2, <2>3, <2>4, <2>5
<1> QED
  BY <1>7, <1>8

\* What reading makes of a file: every line that needs an id gets one of its own.
NumberedBy(f, q) ==
  /\ \A l \in Fresh(q) : f[l] \in Id /\ f[l] >= next /\ f[l] < next + Cardinality(Fresh(q))
  /\ \A l, m \in Fresh(q) : l # m => f[l] # f[m]
ReadAs(f, q, l, m) ==
  \/ l.id = 0 /\ m = [l EXCEPT !.id = f[l]]
  \/ Edited(q, l) /\ m = [l EXCEPT !.text = cache[q][l.id], !.sby = f[l]]
  \/ Edited(q, l) /\ m = Successor(l, f[l])
  \/ l \notin Fresh(q) /\ m = l

LEMMA NormalLines ==
  ASSUME Sized, TypeOK, NEW q \in Path, IsFiniteSet(file[q]),
         next + Cardinality(Fresh(q)) <= MaxId + 1
  PROVE  /\ Cardinality(Fresh(q)) \in Nat
         /\ \E f : /\ NumberedBy(f, q)
                   /\ \A m : m \in Normalized(q) <=> \E l \in file[q] : ReadAs(f, q, l, m)
<1> DEFINE n == Cardinality(Fresh(q))
           S == [Fresh(q) -> next .. next + n - 1]
           P(f) == \A l, m \in Fresh(q) : l # m => f[l] # f[m]
           g == CHOOSE f \in S : P(f)
<1>1. IsFiniteSet(Fresh(q))
  BY FS_Subset DEF Fresh
<1>2. next \in Nat \ {0}
  BY DEF TypeOK, Sized
<1>3. n \in Nat /\ \E f \in S : P(f)
  BY <1>1, <1>2, Numbers
<1> HIDE DEF n
<1>4. g \in S /\ P(g)
  BY <1>3
<1>5. NumberedBy(g, q)
  <2>1. ASSUME NEW l \in Fresh(q) PROVE g[l] \in Id /\ g[l] >= next /\ g[l] < next + n
    <3>1. g[l] \in next .. next + n - 1
      BY <1>4
    <3> HIDE DEF g
    <3> QED
      BY <3>1, <1>2, <1>3 DEF Id, Sized, n
  <2> QED
    BY <1>4, <2>1 DEF NumberedBy, n
<1>6. Normalized(q) = UNION {Parsed(q, l, IF l \in Fresh(q) THEN g[l] ELSE 0) : l \in file[q]}
  BY DEF Normalized, n
<1> HIDE DEF g
<1>7. ASSUME NEW l \in file[q], NEW m
      PROVE  m \in Parsed(q, l, IF l \in Fresh(q) THEN g[l] ELSE 0) <=> ReadAs(g, q, l, m)
  <2>1. l \in Fresh(q) <=> l.id = 0 \/ Edited(q, l)
    BY DEF Fresh
  <2>2. CASE l.id = 0
    BY <2>1, <2>2 DEF Parsed, ReadAs, Edited
  <2>3. CASE Edited(q, l)
    BY <2>1, <2>3 DEF Parsed, ReadAs, Edited
  <2>4. CASE l \notin Fresh(q)
    BY <2>1, <2>4 DEF Parsed, ReadAs
  <2> QED
    BY <2>1, <2>2, <2>3, <2>4
<1> QED
  BY <1>3, <1>5, <1>6, <1>7 DEF n

\* A call with one operation, or two.
LEMMA OneOp ==
  ASSUME NEW o \in Op
  PROVE  LET s == <<o>> IN
         s \in Seq(Op) /\ s # << >> /\ Len(s) = 1 /\ DOMAIN s = {1} /\ s[1] = o
  OBVIOUS

LEMMA TwoOps ==
  ASSUME NEW o \in Op, NEW u \in Op
  PROVE  LET s == <<o, u>> IN
         s \in Seq(Op) /\ s # << >> /\ Len(s) = 2 /\ DOMAIN s = {1, 2} /\ s[1] = o /\ s[2] = u
  OBVIOUS

LEMMA NoOps ==
  LET s == << >> IN s \in Seq(Op) /\ DOMAIN s = {} /\ Len(s) = 0
  OBVIOUS

\* Operations on lines are operations.
LEMMA OpsAreTyped ==
  /\ \A kind \in {"add", "cut"}, q \in Path, l \in Line :
       /\ Do(kind, q, l) \in Op /\ Do(kind, q, l).kind = kind /\ Do(kind, q, l).q = q
       /\ Do(kind, q, l).line = l /\ Do(kind, q, l).lines = {}
  /\ \A q \in Path, l, m \in Line :
       /\ Change(q, l, m) \in Op /\ Change(q, l, m).kind = "replace" /\ Change(q, l, m).q = q
       /\ Change(q, l, m).line = m /\ Change(q, l, m).lines = {l}
  BY DEF Do, Change, Op

LEMMA SaveIsTyped ==
  ASSUME Sized, NEW q \in Path, NEW lines \in SUBSET Line
  PROVE  /\ Put(q, lines) \in Op /\ Put(q, lines).kind = "save" /\ Put(q, lines).q = q
         /\ Put(q, lines).lines = lines
<1>1. NewFact(0, CHOOSE t \in Text : TRUE, "tool") \in Line
  BY DEF NewFact, Line, Sized, Trust
<1> QED
  BY <1>1 DEF Put, Op

\* A call without operations has no lines.
LEMMA NothingIsTyped ==
  ASSUME Sized
  PROVE  /\ NoJob \in Job /\ NoJob.ops = << >> /\ NoJob.new = {} /\ NoJob.norm = FALSE
         /\ NoJob.view = NoLines /\ NoJob.done = {} /\ NoJob.call = "other" /\ NoJob.drop = {}
<1>1. 1 \in Path
  BY DEF Path, Sized
<1> QED
  BY <1>1, NoOps DEF NoJob, Job, NoLines, Store, Pair

\* What a new line says.
LEMMA NewLines ==
  ASSUME Sized
  PROVE
  /\ \A i \in 0 .. MaxId, t \in Text, h \in Trust :
       /\ NewFact(i, t, h) \in Line /\ NewFact(i, t, h).id = i /\ NewFact(i, t, h).text = t
       /\ NewFact(i, t, h).sup = 0 /\ NewFact(i, t, h).sby = 0 /\ NewFact(i, t, h).trust = h
  /\ \A l \in Line, n \in 0 .. MaxId :
       /\ Successor(l, n) \in Line /\ Successor(l, n).id = n /\ Successor(l, n).text = l.text
       /\ Successor(l, n).sup = l.id /\ Successor(l, n).sby = 0
<1>1. \A i \in 0 .. MaxId, t \in Text, h \in Trust :
        /\ NewFact(i, t, h) \in Line /\ NewFact(i, t, h).id = i /\ NewFact(i, t, h).text = t
        /\ NewFact(i, t, h).sup = 0 /\ NewFact(i, t, h).sby = 0 /\ NewFact(i, t, h).trust = h
  <2> TAKE i \in 0 .. MaxId, t \in Text, h \in Trust
  <2>1. 0 \in 0 .. MaxId
    BY DEF Sized
  <2> QED
    BY <2>1 DEF NewFact, Line
<1>2. \A l \in Line, n \in 0 .. MaxId :
       /\ Successor(l, n) \in Line /\ Successor(l, n).id = n /\ Successor(l, n).text = l.text
       /\ Successor(l, n).sup = l.id /\ Successor(l, n).sby = 0
  <2> TAKE l \in Line, n \in 0 .. MaxId
  <2>1. 0 \in 0 .. MaxId /\ l.id \in 0 .. MaxId /\ l.text \in Text /\ "hand" \in Trust
    BY DEF Line, Trust, Sized
  <2> QED
    BY <2>1 DEF Successor, Line
<1> QED
  BY <1>1, <1>2

\* The lines a job holds, one place at a time.
LEMMA HandsAre ==
  ASSUME NEW j, NEW l
  PROVE  l \in Hands(j) <=> \/ l \in j.new
                            \/ \E q \in Path : l \in j.view[q]
                            \/ \E op \in Ops(j) : op.kind # "save" /\ l = op.line
                            \/ \E op \in Ops(j) : op.kind = "save" /\ l \in op.lines
<1>1. l \in Lines(j) <=> \E op \in Ops(j) : op.kind # "save" /\ l = op.line
  BY Zenon DEF Lines
<1>2. l \in Saved(j) <=> \E op \in Ops(j) : op.kind = "save" /\ l \in op.lines
  <2> DEFINE B == {o \in Ops(j) : o.kind = "save"}
  <2>1. l \in UNION {op.lines : op \in B} <=> \E op \in B : l \in op.lines
    BY Zenon
  <2> QED
    BY <2>1, Zenon DEF Saved
<1>3. l \in Viewed(j) <=> \E q \in Path : l \in j.view[q]
  BY Zenon DEF Viewed
<1> QED
  BY <1>1, <1>2, <1>3 DEF Hands

\* The operations of a job, and those left when the first is begun.
LEMMA OpsAre ==
  /\ \A j : j.ops = << >> => Ops(j) = {}
  /\ \A j, o : j.ops = <<o>> /\ o \in Op => Ops(j) = {o}
  /\ \A j, o, u : j.ops = <<o, u>> /\ o \in Op /\ u \in Op => Ops(j) = {o, u}
<1>1. \A j : j.ops = << >> => Ops(j) = {}
  BY NoOps DEF Ops
<1>2. \A j, o : j.ops = <<o>> /\ o \in Op => Ops(j) = {o}
  BY OneOp DEF Ops
<1>3. \A j, o, u : j.ops = <<o, u>> /\ o \in Op /\ u \in Op => Ops(j) = {o, u}
  BY TwoOps DEF Ops
<1> QED
  BY <1>1, <1>2, <1>3

LEMMA OpsLeft ==
  ASSUME NEW j, NEW k, j.ops \in Seq(Op), j.ops # << >>, k.ops = Tail(j.ops)
  PROVE  /\ Ops(k) \subseteq Ops(j) /\ Ops(j) \subseteq Ops(k) \union {j.ops[1]}
         /\ j.ops[1] \in Ops(j) /\ j.ops[1] \in Op
         /\ \A op \in Ops(k) : \E n \in DOMAIN j.ops : n # 1 /\ op = j.ops[n]
<1>1. /\ DOMAIN Tail(j.ops) = 1 .. Len(j.ops) - 1 /\ DOMAIN j.ops = 1 .. Len(j.ops)
      /\ \A n \in DOMAIN Tail(j.ops) :
           n \in Nat /\ Tail(j.ops)[n] = j.ops[n + 1] /\ n + 1 \in DOMAIN j.ops
      /\ 1 \in DOMAIN j.ops /\ j.ops[1] \in Op /\ Len(j.ops) \in Nat \ {0}
  BY TailOps
<1>2. ASSUME NEW op \in Ops(k) PROVE \E n \in DOMAIN j.ops : n # 1 /\ op = j.ops[n]
  <2>1. PICK m \in DOMAIN Tail(j.ops) : op = Tail(j.ops)[m]
    BY DEF Ops
  <2>2. m + 1 \in DOMAIN j.ops /\ m + 1 # 1 /\ op = j.ops[m + 1]
    BY <1>1, <2>1
  <2> QED
    BY <2>2
<1>3. ASSUME NEW op \in Ops(j) PROVE op \in Ops(k) \union {j.ops[1]}
  <2>1. PICK n \in DOMAIN j.ops : op = j.ops[n]
    BY DEF Ops
  <2>2. CASE n = 1
    BY <2>1, <2>2
  <2>3. CASE n # 1
    <3>1. n - 1 \in DOMAIN Tail(j.ops) /\ n - 1 + 1 = n
      BY <1>1, <2>3
    <3>2. Tail(j.ops)[n - 1] = j.ops[n]
      BY <1>1, <3>1
    <3> QED
      BY <2>1, <3>1, <3>2 DEF Ops
  <2> QED
    BY <2>2, <2>3
<1> QED
  BY <1>1, <1>2, <1>3 DEF Ops

\* What a job holds is typed.
LEMMA JobsAreTyped ==
  ASSUME NEW j \in Job
  PROVE  /\ \A op \in Ops(j) : op \in Op /\ op.line \in Line /\ op.lines \subseteq Line /\ op.q \in Path
         /\ j.new \subseteq Line /\ \A q \in Path : j.view[q] \subseteq Line
         /\ Hands(j) \subseteq Line /\ j.ops \in Seq(Op) /\ j.q \in Path /\ j.drop \subseteq Pair
         /\ j.norm \in BOOLEAN /\ j.view \in Store
         /\ j.done \subseteq Id /\ j.call \in {"other", "merge", "dream"}
<1>1. /\ j.ops \in Seq(Op) /\ j.new \subseteq Line /\ j.q \in Path /\ j.drop \subseteq Pair
      /\ j.norm \in BOOLEAN /\ j.view \in Store /\ \A q \in Path : j.view[q] \subseteq Line
      /\ j.done \subseteq Id /\ j.call \in {"other", "merge", "dream"}
  BY DEF Job, Store
<1>2. \A n \in DOMAIN j.ops : j.ops[n] \in Op
  BY <1>1
<1>3. \A op \in Ops(j) : op \in Op /\ op.line \in Line /\ op.lines \subseteq Line /\ op.q \in Path
  BY <1>2 DEF Ops, Op
<1>4. Hands(j) \subseteq Line
  BY <1>1, <1>3, HandsAre
<1> QED
  BY <1>1, <1>3, <1>4

-----------------------------------------------------------------------------
(* What calls hold in memory.                                               *)

\* What the other processes hold does not change.
Alone(p) ==
  \A r \in Proc \ {p} : job'[r] = job[r] /\ pc'[r] = pc[r]

\* A step does not undo a breach.
LEMMA BreachesStay ==
  ASSUME Next, Lossless'
  PROVE  Lossless
<1>1. breach \subseteq breach'
  <2>1. \A bad, kind : Blame(bad, kind) => breach \subseteq breach'
    BY DEF Blame
  <2>2. CASE Humans
    BY <2>1, <2>2 DEF Humans, HumanEdit, HumanAdd, HumanDelete
  <2>3. ASSUME NEW p \in Proc, Calls(p) PROVE breach \subseteq breach'
    BY <2>1, <2>3 DEF Calls, AddFact, AppendRaw, Forget, AddAgain, EditFact, Move, MergeAll, DreamLoad
  <2>4. ASSUME NEW p \in Proc, Steps(p) PROVE breach \subseteq breach'
    <3>1. CASE \E q \in Path : Load(p, q)
      BY <3>1 DEF Load
    <3>2. CASE Fetch(p) \/ FetchNothing(p)
      BY <2>1, <3>2 DEF Fetch, FetchNothing
    <3>3. CASE WriteMd(p) \/ WriteCache(p) \/ Mark(p)
      BY SMTT(30), <2>1, <3>3 DEF WriteMd, WriteCache, Mark
    <3>4. CASE MergePair(p) \/ MergeDone(p)
      BY ZenonT(60), <2>1, <3>4 DEF MergePair, MergeDone
    <3>5. ASSUME NEW t, NEW weak, DreamSave(p, t, weak) PROVE breach \subseteq breach'
      BY Zenon, <2>1, <3>5 DEF DreamSave
    <3>6. CASE Crash(p)
      BY <3>6 DEF Crash
    <3> QED
      BY <2>4, <3>1, <3>2, <3>3, <3>4, <3>5, <3>6 DEF Steps
  <2> QED
    BY <2>2, <2>3, <2>4 DEF Next
<1> QED
  BY <1>1 DEF Lossless

\* What a command is going to do.
Planned(s, d) ==
  /\ s \in Seq(Op) /\ d \in SUBSET Pair
  /\ \/ Len(s) = 1 /\ s[1].kind \in {"add", "replace", "cut"}
     \/ Len(s) = 2 /\ s[1].kind \in {"replace", "cut"} /\ s[2].kind = "add"
  /\ \A n \in DOMAIN s : s[n].kind = "replace" =>
       \E l \in s[n].lines : l.id = s[n].line.id /\ l.text = s[n].line.text
  /\ s[1].kind = "cut" =>
       \/ Len(s) = 2 /\ s[2].line = s[1].line
       \/ Len(s) = 1 /\ <<s[1].line.id, s[1].line.text>> \in d
  /\ \A n \in DOMAIN s : s[n].line.id # 0 /\ s[n].kind # "save"

LEMMA CallHolds ==
  ASSUME Sized, TypeOK, NEW p \in Proc, NEW s, NEW d, Planned(s, d), Call(p, s, d)
  PROVE  /\ pc[p] = "idle" /\ pc' = [pc EXCEPT ![p] = "fetch"] /\ job' \in [Proc -> Job]
         /\ stale' \in [Proc -> SUBSET Path] /\ stale'[p] = {} /\ s # << >>
         /\ \A r \in Proc \ {p} : stale'[r] = stale[r]
         /\ job'[p] = [NoJob EXCEPT !.ops = s, !.drop = d] /\ job'[p].ops = s /\ job'[p].drop = d
         /\ Alone(p) /\ Local(pc[p], job[p])'
<1>1. /\ job' = [job EXCEPT ![p] = [NoJob EXCEPT !.ops = s, !.drop = d]]
      /\ pc' = [pc EXCEPT ![p] = "fetch"] /\ stale' = [stale EXCEPT ![p] = {}]
      /\ pc[p] = "idle"
  BY DEF Call, Goto
<1>2. pc'[p] = "fetch" /\ stale'[p] = {} /\ stale' \in [Proc -> SUBSET Path]
  BY <1>1 DEF TypeOK
<1> DEFINE j == job'[p]
<1>3. /\ job' \in [Proc -> Job] /\ j = [NoJob EXCEPT !.ops = s, !.drop = d] /\ j.ops = s
      /\ j.drop = d /\ j.new = {} /\ j.norm = FALSE /\ j.view = NoLines /\ j.done = {} /\ j.call = "other"
  BY <1>1, NothingIsTyped DEF TypeOK, Planned, Job
<1>4. Alone(p)
  BY <1>1 DEF TypeOK, Alone
<1>5. \A q \in Path : j.view[q] = {}
  BY <1>3 DEF NoLines
<1>6. s # << >> /\ 1 \in DOMAIN s
  BY NoOps DEF Planned
<1> HIDE DEF j
<1>7. Shape(j)
  BY <1>3, <1>6 DEF Shape, Planned
<1>8. Stage(pc'[p], j)
  BY <1>2, <1>3, <1>6 DEF Stage
<1>9. Held(pc'[p], j)
  <2>1. \A op \in Ops(j) : op.line.id # 0 /\ op.kind # "save"
    BY <1>3 DEF Ops, Planned
  <2>2. \A l \in Hands(j) : l.id # 0
    <3>1. ASSUME NEW l \in Hands(j) PROVE \E op \in Ops(j) : l = op.line
      <4>1. \/ l \in j.new
            \/ \E q \in Path : l \in j.view[q]
            \/ \E op \in Ops(j) : op.kind # "save" /\ l = op.line
            \/ \E op \in Ops(j) : op.kind = "save" /\ l \in op.lines
        BY HandsAre, Zenon
      <4> QED
        BY <1>3, <1>5, <2>1, <4>1
    <3> QED
      BY <2>1, <3>1
  <2> QED
    BY <1>2, <1>3, <1>5, <2>1, <2>2 DEF Held, NoDup
<1> QED
  BY <1>1, <1>2, <1>3, <1>4, <1>6, <1>7, <1>8, <1>9 DEF Local, j

-----------------------------------------------------------------------------
(* Steps that change what one process holds.                                *)

\* Facts in files and hands have been numbered.
LEMMA NumberedBefore ==
  ASSUME Sized, Good
  PROVE  /\ \A i \in Id : OnFile(i) => i < next
         /\ \A i \in Id, p \in Proc : Owns(p, i) => i < next
         /\ \A q \in Path : \A l \in file[q] : l.id # 0 => l.id < next /\ l.id \in Id
         /\ \A q \in Path : \A l \in file[q] : l.id # 0 =>
              IF cache[q][l.id] = NoText THEN Claim(l.id, l.text) ELSE Claim(l.id, cache[q][l.id])
         /\ \A p \in Proc : \A l \in Hands(job[p]) :
              l.id \in Id /\ l.id < next /\ Claim(l.id, l.text)
         /\ \A t \in tombs : t[1] \in Id /\ t[1] < next
<1> USE DEF Good
<1>1. \A q \in Path : file[q] \subseteq Line /\ \A i \in Id : cache[q][i] \in Text \union {NoText}
  BY DEF TypeOK, Store, Texts
<1>2. ASSUME NEW q \in Path, NEW l \in file[q], l.id # 0
      PROVE  /\ l.id < next /\ l.id \in Id
             /\ IF cache[q][l.id] = NoText THEN Claim(l.id, l.text) ELSE Claim(l.id, cache[q][l.id])
  <2>1. l.id \in Id /\ l.text \in Text
    BY <1>1, <1>2 DEF Line, Id, Sized
  <2>2. CASE cache[q][l.id] = NoText
    BY <2>1, <2>2 DEF Claim, DiskSays, Used
  <2>3. CASE cache[q][l.id] # NoText
    BY <1>1, <2>1, <2>3 DEF Claim, DiskSays, Used
  <2> QED
    BY <2>1, <2>2, <2>3
<1>3. ASSUME NEW p \in Proc, NEW l \in Hands(job[p])
      PROVE  l.id \in Id /\ l.id < next /\ Claim(l.id, l.text)
  <2>1. l.id \in Id /\ l.text \in Text
    BY <1>3, JobsAreTyped DEF TypeOK, Line, Id, Local, Held, Sized
  <2>2. Claim(l.id, l.text)
    BY DEF Claim, HandSays
  <2> QED
    BY <2>1, <2>2 DEF Used
<1>4. ASSUME NEW p \in Proc, NEW i \in Id, Owns(p, i) PROVE i < next
  <2>1. job[p] \in Job
    BY DEF TypeOK
  <2>2. \A op \in Ops(job[p]) : op.line \in Line /\ op.lines \subseteq Line
    BY <2>1, JobsAreTyped
  <2>4. CASE Ready(p, i)
    BY <1>3, <2>2, <2>4, HandsAre DEF Ready, HasAdd
  <2>5. CASE Adding(p, i)
    BY <1>3, <2>5, HandsAre DEF Adding, Ids
  <2>6. CASE Saving(p, i)
    BY <1>3, <2>2, <2>6, HandsAre DEF Saving, Ids
  <2> QED
    BY <1>4, <2>4, <2>5, <2>6 DEF Owns
<1>5. \A t \in tombs : t[1] \in Id /\ t[1] < next
  BY DEF TypeOK, Pair, Id, Claim, Used, Sized
<1>6. ASSUME NEW i \in Id, OnFile(i) PROVE i < next
  BY <1>2, <1>6 DEF OnFile, Has, Id
<1> QED
  BY <1>2, <1>3, <1>4, <1>5, <1>6

\* A step of p that leaves the files alone keeps what p keeps.
LEMMA QuietStep ==
  ASSUME Sized, Good, NEW p \in Proc, NEW f,
         file' = file, cache' = cache, kept' = kept, Alone(p),
         \A r \in Proc \ {p} : stale'[r] = stale[r],
         TypeOK', Local(pc'[p], job'[p]), Current(p)', next' >= next,
         \A t \in tombs' : t[1] # 0,
         \A i \in Id, t \in Text : HandSays(job'[p], i, t) \/ <<i, t>> \in tombs' =>
           Claim(i, t) \/ (i >= next /\ i < next' /\ t = f[i]),
         \A t \in tombs' \ tombs : OnFile(t[1]),
         \A i \in Id :
           /\ Owns(p, i)' => Owns(p, i) \/ i >= next
           /\ Saving(p, i)' => Saving(p, i) \/ i >= next,
         \A i \in Id :
           /\ Ready(p, i)' /\ OnFile(i) => pc'[p] = "md" /\ Has(job'[p].q, i)
           /\ Ready(p, i)' /\ pc'[p] = "md" => i \notin Ids(job'[p].new)
           /\ Adding(p, i)' \/ Saving(p, i)' => ~OnFile(i),
         \A k \in kept : Carries(pc[p], job[p], k) => Stored(k) \/ Carries(pc'[p], job'[p], k),
         \A t \in tombs' : \/ Dropping(p, t[1])'
                           \/ t \in tombs /\ ~Dropping(p, t[1])
                           \/ t \in tombs /\ ~OnFile(t[1]) /\ \A r \in Proc : ~Owns(r, t[1])
  PROVE  Good'
<1> USE DEF Good
<1>1. \A i : OnFile(i)' <=> OnFile(i)
  BY DEF OnFile, Has
<1>2. ASSUME NEW r \in Proc \ {p}, NEW i
      PROVE  /\ Ready(r, i)' <=> Ready(r, i)
             /\ Adding(r, i)' <=> Adding(r, i)
             /\ Saving(r, i)' <=> Saving(r, i)
             /\ Dropping(r, i)' <=> Dropping(r, i)
  <2>1. job'[r] = job[r] /\ pc'[r] = pc[r] /\ stale'[r] = stale[r] /\ \A q : Has(q, i)' <=> Has(q, i)
    BY Zenon DEF Alone, Has
  <2>2. Ready(r, i)' <=> Ready(r, i)
    BY <2>1 DEF Ready, Doomed
  <2>3. Adding(r, i)' <=> Adding(r, i)
    BY <2>1 DEF Adding
  <2>4. Saving(r, i)' <=> Saving(r, i)
    BY <2>1 DEF Saving
  <2>5. Dropping(r, i)' <=> Dropping(r, i)
    BY <2>1 DEF Dropping
  <2> QED
    BY <2>2, <2>3, <2>4, <2>5
<1>3. \A r \in Proc \ {p} : \A i : Owns(r, i)' <=> Owns(r, i)
  BY <1>1, <1>2, Zenon DEF Owns
<1>4. \A r \in Proc : Local(pc'[r], job'[r]) /\ Current(r)'
  <2>1. \A r \in Proc \ {p} : Local(pc'[r], job'[r])
    BY Zenon DEF Alone
  <2>2. \A r \in Proc \ {p} : Current(r)'
    BY DEF Alone, Current
  <2> QED
    BY <2>1, <2>2
<1>5. \A i \in Id, t \in Text : Claim(i, t)' => Claim(i, t) \/ (i >= next /\ i < next' /\ t = f[i])
  <2> SUFFICES ASSUME NEW i \in Id, NEW t \in Text, Claim(i, t)'
               PROVE  Claim(i, t) \/ (i >= next /\ i < next' /\ t = f[i])
    OBVIOUS
  <2>1. CASE DiskSays(i, t)' \/ <<i, t>> \in kept'
    BY <2>1 DEF Claim, DiskSays
  <2>2. CASE <<i, t>> \in tombs'
    BY <2>2
  <2>3. CASE \E r \in Proc : HandSays(job'[r], i, t)
    BY <2>3 DEF Claim, Alone
  <2> QED
    BY <2>1, <2>2, <2>3, Zenon DEF Claim
<1>6. next \in Nat /\ next' \in Nat /\ \A i \in Id : i \in Nat
  BY DEF TypeOK, Id, Sized
<1>7. Used'
  BY <1>5, <1>6 DEF Used
<1>8. Agree'
  <2> SUFFICES ASSUME NEW i \in Id, NEW t \in Text, NEW u \in Text, Claim(i, t)', Claim(i, u)'
               PROVE  t = u
    BY DEF Agree
  <2>1. CASE i < next
    BY <1>5, <1>6, <2>1 DEF Agree
  <2>2. CASE ~(i < next)
    BY <1>5, <1>6, <2>2 DEF Used
  <2> QED
    BY <2>1, <2>2
<1>9. OneLine'
  BY DEF OneLine
<1>10. OneOwner'
  <2> SUFFICES ASSUME NEW a \in Proc, NEW b \in Proc, NEW i \in Id, Owns(a, i)', Owns(b, i)', a # b
               PROVE  FALSE
    BY DEF OneOwner
  <2>1. \A r \in Proc : Owns(r, i)' => Owns(r, i) \/ (r = p /\ i >= next)
    BY <1>3
  <2>2. \A r \in Proc : Owns(r, i) => i < next
    BY NumberedBefore
  <2>3. Owns(a, i) \/ Owns(b, i)
    BY <2>1
  <2>4. i < next
    BY <2>2, <2>3
  <2>5. Owns(a, i) /\ Owns(b, i)
    BY <1>6, <2>1, <2>4
  <2> QED
    BY <2>5 DEF OneOwner
<1>11. OwnsNew'
  <2>1. \A i \in Id : Has(job[p].q, i)' <=> Has(job'[p].q, i)
    BY DEF Has
  <2> SUFFICES ASSUME NEW r \in Proc, NEW i \in Id
               PROVE  /\ Ready(r, i)' /\ OnFile(i)' => pc'[r] = "md" /\ Has(job[r].q, i)'
                      /\ Ready(r, i)' /\ pc'[r] = "md" => i \notin Ids(job'[r].new)
                      /\ Adding(r, i)' \/ Saving(r, i)' => ~OnFile(i)'
    BY DEF OwnsNew
  <2>2. CASE r = p
    BY <1>1, <2>1, <2>2
  <2>3. CASE r # p
    <3>1. pc'[r] = pc[r] /\ job'[r] = job[r] /\ (Has(job[r].q, i)' <=> Has(job[r].q, i))
      BY <2>3 DEF Alone, Has
    <3> QED
      BY <1>1, <1>2, <2>3, <3>1 DEF OwnsNew
  <2> QED
    BY <2>2, <2>3
<1>12. Promised'
  <2> SUFFICES ASSUME NEW k \in kept
               PROVE  Stored(k)' \/ \E r \in Proc : Carries(pc'[r], job'[r], k)
    BY DEF Promised
  <2>1. Stored(k)' <=> Stored(k)
    BY DEF Stored
  <2>2. \A r \in Proc \ {p} : Carries(pc'[r], job'[r], k) <=> Carries(pc[r], job[r], k)
    BY DEF Alone
  <2> QED
    BY <2>1, <2>2 DEF Promised
<1>13. Gone'
  <2> SUFFICES ASSUME NEW t \in tombs', OnFile(t[1])' \/ \E r \in Proc : Owns(r, t[1])'
               PROVE  \E r \in Proc : Dropping(r, t[1])'
    BY DEF Gone
  <2>1. CASE Dropping(p, t[1])'
    BY <2>1
  <2>2. CASE t \in tombs /\ ~Dropping(p, t[1])
    <3>1. t[1] \in Id /\ t[1] < next
      BY <2>2, NumberedBefore
    <3>2. OnFile(t[1]) \/ \E r \in Proc : Owns(r, t[1])
      <4>1. \A r \in Proc : Owns(r, t[1])' => Owns(r, t[1])
        BY <1>3, <1>6, <3>1
      <4> QED
        BY <1>1, <4>1
    <3>3. PICK r \in Proc : Dropping(r, t[1])
      BY <2>2, <3>2 DEF Gone
    <3> QED
      BY <1>2, <2>2, <3>3
  <2>3. CASE t \in tombs /\ ~OnFile(t[1]) /\ \A r \in Proc : ~Owns(r, t[1])
    <3>1. PICK r \in Proc : Owns(r, t[1])'
      BY <1>1, <2>3
    <3>2. t[1] \in Id /\ t[1] < next
      BY <2>3, NumberedBefore
    <3> QED
      BY <1>3, <1>6, <2>3, <3>1, <3>2
  <2> QED
    BY <2>1, <2>2, <2>3
<1>14. Unsaved'
  <2> SUFFICES ASSUME NEW t \in tombs', NEW r \in Proc, Saving(r, t[1])' PROVE FALSE
    BY DEF Unsaved
  <2>1. t[1] \in Id
    BY DEF TypeOK, Pair, Id, Sized
  <2>2. CASE t \in tombs
    <3>1. t[1] < next /\ ~Saving(r, t[1])
      BY <2>2, NumberedBefore DEF Unsaved
    <3> QED
      BY <1>2, <1>6, <2>1, <3>1
  <2>3. CASE t \notin tombs
    <3>1. OnFile(t[1])
      BY <2>3
    <3> QED
      BY <1>11, <1>1, <2>1, <3>1 DEF OwnsNew
  <2> QED
    BY <2>2, <2>3
<1> QED
  BY <1>4, <1>7, <1>8, <1>9, <1>10, <1>11, <1>12, <1>13, <1>14

\* A process between calls holds nothing.
LEMMA IdleHoldsNothing ==
  ASSUME Sized, Good, NEW p \in Proc, pc[p] = "idle"
  PROVE  /\ job[p] = NoJob /\ Ops(job[p]) = {}
         /\ \A k : ~Carries(pc[p], job[p], k)
         /\ \A i : ~Dropping(p, i)
         /\ \A i : ~Owns(p, i)
<1>1. job[p] = NoJob
  BY DEF Good, Local, Stage
<1>2. Ops(job[p]) = {}
  BY <1>1, NothingIsTyped, OpsAre
<1> QED
  BY <1>1, <1>2 DEF Carries, Dropping, Owns, Ready, HasAdd, Adding, Saving

\* A command begins: it knows of no text that is not there, and owns what it has made.
LEMMA CallKeeps ==
  ASSUME Sized, Good, NEW p \in Proc, NEW s, NEW d, Planned(s, d), Call(p, s, d), NEW f,
         file' = file, cache' = cache, kept' = kept, acts' \in 0 .. MaxActs,
         breach' \subseteq Breaches, next' \in 1 .. MaxId + 1, next' >= next,
         tombs' \subseteq Pair, \A t \in tombs' : t[1] # 0,
         \A n \in DOMAIN s : LET l == s[n].line IN
           Claim(l.id, l.text) \/ (l.id >= next /\ l.id < next' /\ l.text = f[l.id]),
         \A x \in d : Claim(x[1], x[2]),
         \A t \in tombs' \ tombs :
           Claim(t[1], t[2]) /\ OnFile(t[1]) /\ Len(s) = 1 /\ s[1].kind = "cut" /\ s[1].line.id = t[1],
         \A n \in DOMAIN s : s[n].kind = "add" => s[1].kind = "cut" \/ s[n].line.id >= next
  PROVE  Good'
<1>1. TypeOK
  BY DEF Good
<1>2. /\ pc[p] = "idle" /\ pc' = [pc EXCEPT ![p] = "fetch"] /\ job' \in [Proc -> Job]
      /\ stale' \in [Proc -> SUBSET Path] /\ stale'[p] = {} /\ s # << >>
      /\ \A r \in Proc \ {p} : stale'[r] = stale[r]
      /\ job'[p] = [NoJob EXCEPT !.ops = s, !.drop = d] /\ job'[p].ops = s /\ job'[p].drop = d
      /\ Alone(p) /\ Local(pc[p], job[p])'
  BY <1>1, CallHolds
<1> DEFINE j == job'[p]
<1>3. pc'[p] = "fetch" /\ pc' \in [Proc -> Step]
  BY <1>1, <1>2 DEF TypeOK, Step
<1>4. j.ops = s /\ j.drop = d /\ j.new = {} /\ j.view = NoLines /\ j \in Job
  BY <1>2, NothingIsTyped
<1>5. TypeOK'
  <2>1. \A r \in Proc : pc'[r] = "fetch" => job'[r].ops # << >>
    BY ZenonT(60), <1>1, <1>2 DEF TypeOK, Alone
  <2> QED
    BY <1>1, <1>2, <1>3, <2>1 DEF TypeOK
<1> HIDE DEF j
<1>6. \A op \in Ops(j) : \E n \in DOMAIN s : op = s[n] /\ op.kind # "save"
  BY <1>4 DEF Ops, Planned
<1>7. Current(p)'
  BY <1>3, <1>6 DEF Current, j
<1>8. \A i \in Id, t \in Text : HandSays(j, i, t) \/ <<i, t>> \in tombs' =>
           Claim(i, t) \/ (i >= next /\ i < next' /\ t = f[i])
  <2> TAKE i \in Id, t \in Text
  <2>1. CASE \E l \in Hands(j) : l.id = i /\ l.text = t
    <3>1. PICK l \in Hands(j) : l.id = i /\ l.text = t
      BY <2>1
    <3>2. \A q \in Path : j.view[q] = {}
      BY <1>4 DEF NoLines
    <3>3. \E op \in Ops(j) : l = op.line
      BY <1>4, <1>6, <3>1, <3>2, HandsAre
    <3> QED
      BY <1>6, <3>1, <3>3
  <2>2. CASE <<i, t>> \in d
    BY <2>2
  <2>3. CASE <<i, t>> \in tombs'
    BY <2>3 DEF Claim
  <2> QED
    BY <1>4, <2>1, <2>2, <2>3 DEF HandSays
<1>9. \A i \in Id : ~Adding(p, i)' /\ ~Saving(p, i)'
  BY <1>3, <1>6 DEF Adding, Saving, j
<1>10. \A i \in Id : Ready(p, i)' => i >= next
  BY <1>4, <1>6 DEF Ready, HasAdd, j
<1>11. \A i \in Id : Owns(p, i)' => Owns(p, i) \/ i >= next
  BY <1>9, <1>10 DEF Owns
<1>12. \A i \in Id : ~(Ready(p, i)' /\ OnFile(i))
  <2>1. \A i \in Id : OnFile(i) => i < next
    BY NumberedBefore
  <2> QED
    BY <1>1, <1>10, <2>1 DEF TypeOK, Id, Sized
<1>13. \A t \in tombs' \ tombs : Dropping(p, t[1])'
  <2> TAKE t \in tombs' \ tombs
  <2>1. s[1] \in Ops(j) /\ s[1].kind = "cut" /\ s[1].line.id = t[1]
    BY <1>4 DEF Ops, Planned
  <2>2. \A op \in Ops(j) : op = s[1]
    BY <1>6 DEF Planned
  <2> QED
    BY <2>1, <2>2 DEF Dropping, HasAdd, j
<1>14. \A t \in tombs' \ tombs : OnFile(t[1])
  OBVIOUS
<1>15. /\ \A k \in kept : Carries(pc[p], job[p], k) => Stored(k)
       /\ \A t \in tombs : ~Dropping(p, t[1])
  BY <1>2, IdleHoldsNothing
<1>16. \A t \in tombs' : Dropping(p, t[1])' \/ (t \in tombs /\ ~Dropping(p, t[1]))
  BY <1>13, <1>15
<1> QED
  BY <1>2, <1>3, <1>5, <1>7, <1>8, <1>9, <1>11, <1>12, <1>14, <1>15, <1>16, QuietStep DEF j

\* When every file has been read, a line says what is known of its fact.
LEMMA SettledLines ==
  ASSUME Sized, Good, Settled, NEW q \in Path, NEW l \in file[q]
  PROVE  l \in Line /\ l.id # 0 /\ l.id \in Id /\ Claim(l.id, l.text) /\ OnFile(l.id) /\ l.id < next
<1>1. l \in Line /\ cache[q] \in Texts
  BY DEF Good, TypeOK, Store
<1>2. l \notin Fresh(q)
  BY DEF Settled
<1>3. l.id # 0 /\ ~Edited(q, l)
  BY <1>2 DEF Fresh
<1>4. l.id \in Id /\ OnFile(l.id) /\ l.id < next
  BY <1>3, NumberedBefore DEF OnFile, Has
<1>5. cache[q][l.id] = NoText => Claim(l.id, l.text)
  BY <1>3, NumberedBefore
<1>6. cache[q][l.id] # NoText => Claim(l.id, l.text)
  BY <1>3, NumberedBefore DEF Edited
<1> QED
  BY <1>1, <1>3, <1>4, <1>5, <1>6

\* Two lines of a fact merge into one of that fact.
LEMMA MergedLine ==
  ASSUME NEW l \in Line, NEW m \in Line, l.id = m.id, l.text = m.text
  PROVE  Merge(l, m) \in Line /\ Merge(l, m).id = l.id /\ Merge(l, m).text = l.text
<1> DEFINE a == IF Score(m) > Score(l) THEN m ELSE l
           b == IF Score(m) > Score(l) THEN l ELSE m
           x == IF a.sup = 0 THEN b.sup ELSE a.sup
           y == IF a.sby = 0 THEN b.sby ELSE a.sby
<1>1. a \in Line /\ b \in Line /\ a.id = l.id /\ a.text = l.text
  OBVIOUS
<1> HIDE DEF a, b
<1>2. x \in 0 .. MaxId /\ y \in 0 .. MaxId
  BY <1>1 DEF Line
<1>3. Merge(l, m) = [a EXCEPT !.sup = x, !.sby = y]
  BY Zenon DEF Merge, a, b
<1> HIDE DEF x, y
<1>4. [a EXCEPT !.sup = x, !.sby = y] \in Line
  BY <1>1, <1>2 DEF Line
<1>5. [a EXCEPT !.sup = x, !.sby = y].id = a.id /\ [a EXCEPT !.sup = x, !.sby = y].text = a.text
  BY <1>1 DEF Line
<1> QED
  BY <1>1, <1>3, <1>4, <1>5

LEMMA AddFactKeeps ==
  ASSUME Sized, Good, Lossless', NEW p \in Proc, NEW q \in Path, NEW t \in Text, AddFact(p, q, t)
  PROVE  Good'
<1> DEFINE l == NewFact(next, t, IF t \in Code THEN "code" ELSE "tool")
           s == <<Do("add", q, l)>>
           f == [i \in Id |-> t]
<1>1. /\ TypeOK /\ next <= MaxId /\ Call(p, s, {}) /\ next' = next + 1 /\ acts < MaxActs
      /\ acts' = acts + 1 /\ file' = file /\ cache' = cache /\ tombs' = tombs /\ kept' = kept
      /\ breach' = breach
  BY DEF AddFact, Act, disk, Good
<1>2. /\ next \in Id /\ next' \in 1 .. MaxId + 1 /\ next' >= next /\ next < next'
      /\ acts' \in 0 .. MaxActs /\ breach' \subseteq Breaches /\ tombs' \subseteq Pair
  BY <1>1 DEF TypeOK, Id, Sized
<1>3. l \in Line /\ l.id = next /\ l.text = t
  BY <1>2, NewLines DEF Trust, Id
<1> HIDE DEF l
<1>4. Do("add", q, l) \in Op /\ Do("add", q, l).kind = "add" /\ Do("add", q, l).line = l
  BY <1>3, OpsAreTyped
<1>5. Len(s) = 1 /\ DOMAIN s = {1} /\ s[1].kind = "add" /\ s[1].line = l /\ s \in Seq(Op)
  BY <1>4, OneOp
<1> HIDE DEF s
<1>6. Planned(s, {})
  BY <1>2, <1>3, <1>5 DEF Planned, Id
<1>7. \A t0 \in tombs' : t0[1] # 0
  BY <1>1 DEF Good
<1>8. f[next] = t
  BY <1>2
<1> HIDE DEF f
<1>9. next >= next
  BY <1>2 DEF Id
<1> QED
  BY <1>1, <1>2, <1>3, <1>5, <1>6, <1>7, <1>8, <1>9, CallKeeps

LEMMA AddAgainKeeps ==
  ASSUME Sized, Good, Lossless', NEW p \in Proc, NEW q \in Path, NEW l \in file[q],
         AddAgain(p, q, l, "hand")
  PROVE  Good'
<1> DEFINE m == Merge(l, NewFact(l.id, l.text, "hand"))
           s == <<Change(q, l, m)>>
<1>1. /\ TypeOK /\ Call(p, s, {}) /\ next' = next /\ acts < MaxActs
      /\ acts' = acts + 1 /\ file' = file /\ cache' = cache /\ tombs' = tombs /\ kept' = kept
      /\ breach' = breach
  BY DEF AddAgain, Act, disk, Good
<1>2. /\ next' \in 1 .. MaxId + 1 /\ next' >= next
      /\ acts' \in 0 .. MaxActs /\ breach' \subseteq Breaches /\ tombs' \subseteq Pair
  BY <1>1 DEF TypeOK, Sized
<1>3. Settled
  BY <1>1 DEF Call
<1>4. l \in Line /\ l.id # 0 /\ l.id \in Id /\ Claim(l.id, l.text)
  BY <1>3, SettledLines
<1>5. LET n == NewFact(l.id, l.text, "hand") IN n \in Line /\ n.id = l.id /\ n.text = l.text
  BY <1>4, NewLines DEF Trust, Id, Line, Sized
<1>6. m \in Line /\ m.id = l.id /\ m.text = l.text
  BY <1>4, <1>5, MergedLine
<1> HIDE DEF m
<1>7. Change(q, l, m) \in Op /\ Change(q, l, m).kind = "replace" /\ Change(q, l, m).line = m
      /\ Change(q, l, m).lines = {l}
  BY <1>4, <1>6, OpsAreTyped
<1>8. /\ Len(s) = 1 /\ DOMAIN s = {1} /\ s[1].kind = "replace" /\ s[1].line = m
      /\ s[1].lines = {l} /\ s \in Seq(Op)
  BY <1>7, OneOp
<1> HIDE DEF s
<1>9. Planned(s, {})
  BY <1>4, <1>6, <1>8 DEF Planned
<1>10. \A t0 \in tombs' : t0[1] # 0
  BY <1>1 DEF Good
<1> QED
  BY <1>1, <1>2, <1>4, <1>6, <1>8, <1>9, <1>10, CallKeeps

LEMMA EditFactKeeps ==
  ASSUME Sized, Good, Lossless', NEW p \in Proc, NEW q \in Path, NEW l \in file[q], NEW t \in Text,
         EditFact(p, q, l, t)
  PROVE  Good'
<1> DEFINE m == [l EXCEPT !.sby = next]
           n == [Successor(l, next) EXCEPT !.text = t]
           s == <<Change(q, l, m), Do("add", q, n)>>
           f == [i \in Id |-> t]
<1>1. /\ TypeOK /\ next <= MaxId /\ Call(p, s, {}) /\ next' = next + 1 /\ acts < MaxActs
      /\ acts' = acts + 1 /\ file' = file /\ cache' = cache /\ tombs' = tombs /\ kept' = kept
      /\ breach' = breach
  BY DEF EditFact, Act, disk, Good
<1>2. /\ next \in Id /\ next' \in 1 .. MaxId + 1 /\ next' >= next /\ next < next'
      /\ acts' \in 0 .. MaxActs /\ breach' \subseteq Breaches /\ tombs' \subseteq Pair
      /\ next >= next /\ next \in 0 .. MaxId /\ next # 0
  BY <1>1 DEF TypeOK, Id, Sized
<1>3. Settled
  BY <1>1 DEF Call
<1>4. l \in Line /\ l.id # 0 /\ l.id \in Id /\ Claim(l.id, l.text)
  BY <1>3, SettledLines
<1>5. m \in Line /\ m.id = l.id /\ m.text = l.text
  BY <1>2, <1>4 DEF Line
<1>6. n \in Line /\ n.id = next /\ n.text = t
  BY <1>2, <1>4 DEF Line, Successor, Trust, Sized
<1> HIDE DEF m, n
<1>7. /\ Change(q, l, m) \in Op /\ Change(q, l, m).kind = "replace" /\ Change(q, l, m).line = m
      /\ Change(q, l, m).lines = {l}
      /\ Do("add", q, n) \in Op /\ Do("add", q, n).kind = "add" /\ Do("add", q, n).line = n
  BY <1>4, <1>5, <1>6, OpsAreTyped
<1>8. /\ Len(s) = 2 /\ DOMAIN s = {1, 2} /\ s[1].kind = "replace" /\ s[1].line = m
      /\ s[1].lines = {l} /\ s \in Seq(Op) /\ s[2].kind = "add" /\ s[2].line = n
  BY <1>7, TwoOps
<1> HIDE DEF s
<1>9. Planned(s, {})
  BY <1>2, <1>4, <1>5, <1>6, <1>8 DEF Planned
<1>10. \A t0 \in tombs' : t0[1] # 0
  BY <1>1 DEF Good
<1>11. f[next] = t
  BY <1>2
<1> HIDE DEF f
<1>12. \A k \in DOMAIN s :
         LET h == s[k].line IN Claim(h.id, h.text) \/ (h.id >= next /\ h.id < next' /\ h.text = f[h.id])
  BY <1>2, <1>4, <1>5, <1>6, <1>8, <1>11
<1>13. \A k \in DOMAIN s : s[k].kind = "add" => s[1].kind = "cut" \/ s[k].line.id >= next
  BY <1>2, <1>6, <1>8
<1>14. tombs' \ tombs = {}
  BY <1>1
<1> QED
  BY <1>1, <1>2, <1>9, <1>10, <1>12, <1>13, <1>14, CallKeeps

LEMMA ForgetKeeps ==
  ASSUME Sized, Good, Lossless', NEW p \in Proc, NEW q \in Path, NEW l \in file[q], Forget(p, q, l)
  PROVE  Good'
<1> DEFINE s == <<Do("cut", q, l)>>
           d == {<<l.id, l.text>>}
<1>1. /\ TypeOK /\ Call(p, s, d) /\ next' = next /\ acts < MaxActs
      /\ acts' = acts + 1 /\ file' = file /\ cache' = cache /\ kept' = kept
      /\ tombs' = tombs \union {<<l.id, l.text>>} /\ breach' = breach
  BY DEF Forget, Act, Good
<1>2. Settled
  BY <1>1 DEF Call
<1>3. l \in Line /\ l.id # 0 /\ l.id \in Id /\ Claim(l.id, l.text) /\ OnFile(l.id)
  BY <1>2, SettledLines
<1>4. <<l.id, l.text>> \in Pair
  BY <1>3 DEF Line, Pair
<1>5. /\ next' \in 1 .. MaxId + 1 /\ next' >= next
      /\ acts' \in 0 .. MaxActs /\ breach' \subseteq Breaches /\ tombs' \subseteq Pair
  BY <1>1, <1>4 DEF TypeOK, Sized
<1>6. Do("cut", q, l) \in Op /\ Do("cut", q, l).kind = "cut" /\ Do("cut", q, l).line = l
  BY <1>3, OpsAreTyped
<1>7. Len(s) = 1 /\ DOMAIN s = {1} /\ s[1].kind = "cut" /\ s[1].line = l /\ s \in Seq(Op)
  BY <1>6, OneOp
<1> HIDE DEF s
<1>8. Planned(s, d)
  BY <1>3, <1>4, <1>7 DEF Planned
<1>9. \A t0 \in tombs' : t0[1] # 0
  BY <1>1, <1>3 DEF Good
<1>10. /\ \A x \in d : Claim(x[1], x[2])
       /\ \A x \in tombs' \ tombs : x[1] = l.id /\ Claim(x[1], x[2])
  BY <1>1, <1>3
<1> HIDE DEF d
<1> QED
  BY <1>1, <1>3, <1>5, <1>7, <1>8, <1>9, <1>10, CallKeeps

LEMMA MoveKeeps ==
  ASSUME Sized, Good, Lossless', NEW p \in Proc, NEW q \in Path, NEW l \in file[q], NEW r \in Path,
         Move(p, q, l, r)
  PROVE  Good'
<1> DEFINE s == <<Do("cut", q, l), Do("add", r, l)>>
<1>1. /\ TypeOK /\ Call(p, s, {}) /\ next' = next /\ acts < MaxActs
      /\ acts' = acts + 1 /\ file' = file /\ cache' = cache /\ tombs' = tombs /\ kept' = kept
      /\ breach' = breach
  BY DEF Move, Act, disk, Good
<1>2. Settled
  BY <1>1 DEF Call
<1>3. l \in Line /\ l.id # 0 /\ l.id \in Id /\ Claim(l.id, l.text)
  BY <1>2, SettledLines
<1>4. /\ next' \in 1 .. MaxId + 1 /\ next' >= next
      /\ acts' \in 0 .. MaxActs /\ breach' \subseteq Breaches /\ tombs' \subseteq Pair
  BY <1>1 DEF TypeOK, Sized
<1>5. /\ Do("cut", q, l) \in Op /\ Do("cut", q, l).kind = "cut" /\ Do("cut", q, l).line = l
      /\ Do("add", r, l) \in Op /\ Do("add", r, l).kind = "add" /\ Do("add", r, l).line = l
  BY <1>3, OpsAreTyped
<1>6. /\ Len(s) = 2 /\ DOMAIN s = {1, 2} /\ s[1].kind = "cut" /\ s[1].line = l
      /\ s \in Seq(Op) /\ s[2].kind = "add" /\ s[2].line = l
  BY <1>5, TwoOps
<1> HIDE DEF s
<1>7. Planned(s, {})
  BY <1>3, <1>6 DEF Planned
<1>8. \A t0 \in tombs' : t0[1] # 0
  BY <1>1 DEF Good
<1>9. \A k \in DOMAIN s : Claim(s[k].line.id, s[k].line.text)
  BY <1>3, <1>6
<1>10. tombs' \ tombs = {}
  BY <1>1
<1> QED
  BY <1>1, <1>4, <1>6, <1>7, <1>8, <1>9, <1>10, CallKeeps

-----------------------------------------------------------------------------
(* Merges and dreams.                                                       *)

\* A call that loads all files.
LEMMA LoadAllKeeps ==
  ASSUME Sized, Good, Lossless', NEW p \in Proc, NEW c \in {"merge", "dream"}, Act,
         pc[p] = "idle", Settled, job' = [job EXCEPT ![p] = [NoJob EXCEPT !.view = file, !.call = c]],
         Goto(p, c), stale' = [stale EXCEPT ![p] = {}], UNCHANGED <<disk, next, kept, breach>>
  PROVE  Good'
<1> DEFINE j == job'[p]
<1>1. /\ TypeOK /\ file \in Store /\ OneLine /\ pc' = [pc EXCEPT ![p] = c] /\ file' = file
      /\ cache' = cache /\ tombs' = tombs /\ next' = next /\ kept' = kept /\ breach' = breach
      /\ acts' \in 0 .. MaxActs
  BY DEF Good, TypeOK, Act, disk, Goto, Sized
<1>2. /\ j = [NoJob EXCEPT !.view = file, !.call = c] /\ j \in Job /\ j.view = file /\ j.call = c
      /\ j.ops = << >> /\ j.new = {} /\ j.norm = FALSE
  BY <1>1, NothingIsTyped DEF TypeOK, Job
<1>3. /\ pc' \in [Proc -> Step] /\ pc'[p] = c /\ stale' \in [Proc -> SUBSET Path] /\ stale'[p] = {}
      /\ \A r \in Proc \ {p} : stale'[r] = stale[r]
  BY <1>1 DEF TypeOK, Step
<1>4. Alone(p) /\ job' \in [Proc -> Job]
  BY <1>1, <1>2 DEF TypeOK, Alone
<1>5. TypeOK'
  BY <1>1, <1>3, <1>4 DEF TypeOK, Alone
<1>6. Ops(j) = {}
  BY <1>2, OpsAre
<1>7. \A l \in Hands(j) : \E q \in Path : l \in file[q]
  BY <1>2, <1>6, HandsAre
<1> HIDE DEF j
<1>8. Local(pc'[p], j)
  <2>1. Shape(j) /\ Stage(pc'[p], j)
    BY <1>2, <1>3, NoOps DEF Shape, Stage
  <2>2. \A l \in Hands(j) : l.id # 0
    BY <1>7, SettledLines
  <2>3. \A q, r \in Path : \A l \in j.view[q], m \in j.view[r] : l.id = m.id => q = r /\ l = m
    BY <1>1, <1>2, SettledLines DEF OneLine
  <2>4. Held(pc'[p], j)
    BY <1>2, <1>3, <1>6, <2>2, <2>3, NoOps DEF Held, NoDup
  <2> QED
    BY <2>1, <2>4 DEF Local
<1>9. Current(p)'
  BY <1>1, <1>2, <1>3, <1>6 DEF Current, j
<1>10. \A i \in Id, t \in Text : HandSays(j, i, t) \/ <<i, t>> \in tombs' => Claim(i, t)
  <2> TAKE i \in Id, t \in Text
  <2>1. CASE \E l \in Hands(j) : l.id = i /\ l.text = t
    BY <1>7, <2>1, SettledLines
  <2>2. j.drop = {}
    BY <1>2, NothingIsTyped
  <2>3. CASE <<i, t>> \in tombs'
    BY <1>1, <2>3 DEF Claim
  <2> QED
    BY <2>1, <2>2, <2>3 DEF HandSays
<1>11. \A i : ~Ready(p, i)' /\ ~Adding(p, i)' /\ ~Saving(p, i)'
  BY <1>2, <1>6 DEF Ready, HasAdd, Adding, Saving, Ids, j
<1>12. \A i : ~Owns(p, i)'
  BY <1>11 DEF Owns
<1>13. \A t \in tombs' : t[1] # 0
  BY <1>1 DEF Good
<1>14. next' >= next
  BY <1>1 DEF TypeOK, Sized
<1> QED
  BY <1>1, <1>3, <1>4, <1>5, <1>8, <1>9, <1>10, <1>11, <1>12, <1>13, <1>14, IdleHoldsNothing,
     QuietStep DEF j

LEMMA MergeAllKeeps ==
  ASSUME Sized, Good, Lossless', NEW p \in Proc, MergeAll(p) \/ DreamLoad(p)
  PROVE  Good'
  BY LoadAllKeeps DEF MergeAll, DreamLoad

\* A call ends without having done anything more.
LEMMA EndKeeps ==
  ASSUME Sized, Good, NEW p \in Proc, pc' = [pc EXCEPT ![p] = "idle"],
         job' = [job EXCEPT ![p] = NoJob], UNCHANGED <<disk, next, kept>>,
         acts' \in 0 .. MaxActs, breach' \subseteq Breaches, stale' \in [Proc -> SUBSET Path],
         \A r \in Proc \ {p} : stale'[r] = stale[r],
         \A k \in kept : Carries(pc[p], job[p], k) => Stored(k),
         \A t \in tombs : Dropping(p, t[1]) => ~OnFile(t[1]) /\ \A r \in Proc : ~Owns(r, t[1])
  PROVE  Good'
<1>1. /\ TypeOK /\ file' = file /\ cache' = cache /\ tombs' = tombs
      /\ next' = next /\ kept' = kept
  BY DEF Good, disk
<1>2. job'[p] = NoJob /\ pc'[p] = "idle" /\ pc' \in [Proc -> Step] /\ job' \in [Proc -> Job]
  BY <1>1, NothingIsTyped DEF TypeOK, Step
<1>3. Alone(p)
  BY <1>1 DEF TypeOK, Alone
<1>4. TypeOK'
  BY <1>1, <1>2, <1>3 DEF TypeOK, Alone
<1>5. Ops(job'[p]) = {} /\ job'[p].drop = {} /\ job'[p].view = NoLines /\ job'[p].new = {}
  BY <1>2, NothingIsTyped, OpsAre
<1>6. \A l : l \notin Hands(job'[p])
  BY <1>5, HandsAre DEF NoLines
<1>7. Local(pc'[p], job'[p])
  <2>1. Shape(job'[p]) /\ Stage(pc'[p], job'[p])
    BY <1>2, NothingIsTyped, NoOps DEF Shape, Stage
  <2>2. Held(pc'[p], job'[p])
    BY <1>2, <1>5, <1>6, NothingIsTyped, NoOps DEF Held, NoDup, NoLines
  <2> QED
    BY <2>1, <2>2 DEF Local
<1>8. Current(p)'
  BY <1>2, <1>5 DEF Current
<1>9. \A i \in Id, t \in Text : HandSays(job'[p], i, t) \/ <<i, t>> \in tombs' => Claim(i, t)
  BY <1>1, <1>5, <1>6 DEF HandSays, Claim
<1>10. \A i : ~Ready(p, i)' /\ ~Adding(p, i)' /\ ~Saving(p, i)'
  BY <1>2, <1>5 DEF Ready, HasAdd, Adding, Saving
<1>11. \A i : ~Owns(p, i)'
  BY <1>10 DEF Owns
<1>12. (\A t \in tombs' : t[1] # 0) /\ next' >= next
  BY <1>1 DEF Good, TypeOK, Sized
<1> QED
  BY <1>1, <1>3, <1>4, <1>7, <1>8, <1>9, <1>10, <1>11, <1>12, QuietStep

\* A merge is over: nothing is left to do.
LEMMA MergeDoneKeeps ==
  ASSUME Sized, Good, Lossless', NEW p \in Proc, MergeDone(p)
  PROVE  Good'
<1>1. /\ TypeOK /\ pc[p] = "merge" /\ pc' = [pc EXCEPT ![p] = "idle"]
      /\ job' = [job EXCEPT ![p] = NoJob] /\ UNCHANGED <<disk, next, kept>>
      /\ breach' = breach /\ breach \subseteq Breaches /\ stale' = stale /\ acts' = acts
      /\ stale \in [Proc -> SUBSET Path] /\ acts \in 0 .. MaxActs
  BY DEF Good, MergeDone, Goto, TypeOK
<1>2. Ops(job[p]) = {}
  BY <1>1, OpsAre DEF Good, Local, Stage
<1>3. (\A k : ~Carries(pc[p], job[p], k)) /\ \A i : ~Dropping(p, i)
  BY <1>1, <1>2 DEF Carries, Dropping
<1> QED
  BY <1>1, <1>3, EndKeeps

\* A fact to change is gone: nothing that was stored is in the hands of its process.
LEMMA FetchNothingKeeps ==
  ASSUME Sized, Good, Lossless', NEW p \in Proc, FetchNothing(p)
  PROVE  Good'
<1> DEFINE j == job[p]
<1>1. /\ TypeOK /\ pc[p] = "fetch" /\ file' = file /\ cache' = cache /\ tombs' = tombs
      /\ stale' = stale /\ next' = next /\ acts' = acts /\ kept' = kept
      /\ Local("fetch", j) /\ j \in Job
  BY DEF Good, FetchNothing, disk, TypeOK
<1>2. j.call = "merge"
  <2>1. SUFFICES ASSUME j.call # "merge" PROVE FALSE
    OBVIOUS
  <2>2. breach' = breach \union {"missed"}
    BY <2>1 DEF FetchNothing, Blame
  <2> QED
    BY <2>2 DEF Lossless
<1>3. /\ job' = [job EXCEPT ![p] = [j EXCEPT !.ops = Tail(j.ops)]]
      /\ pc' = [pc EXCEPT ![p] = IF Len(j.ops) = 1 THEN "merge" ELSE "fetch"]
      /\ breach' = breach \union {"contested"}
  BY <1>2 DEF FetchNothing, Goto, Blame
<1>4. /\ j.ops \in Seq(Op) /\ j.ops # << >> /\ j.new = {} /\ ~j.norm
      /\ \A n \in DOMAIN j.ops : j.ops[n].kind = "replace" /\
           \E l \in j.ops[n].lines : l.id = j.ops[n].line.id /\ l.text = j.ops[n].line.text
  BY <1>1, <1>2, JobsAreTyped DEF Local, Stage, Shape
<1> DEFINE k == job'[p]
<1>5. /\ k = [j EXCEPT !.ops = Tail(j.ops)] /\ pc'[p] = IF Len(j.ops) = 1 THEN "merge" ELSE "fetch"
  BY <1>1, <1>3 DEF TypeOK
<1>6. /\ Tail(j.ops) \in Seq(Op) /\ (Tail(j.ops) = << >> <=> Len(j.ops) = 1)
      /\ \A n \in DOMAIN Tail(j.ops) :
           n \in Nat /\ Tail(j.ops)[n] = j.ops[n + 1] /\ n + 1 \in DOMAIN j.ops
  BY <1>4, TailOps
<1>7. /\ k.ops = Tail(j.ops) /\ k.q = j.q /\ k.new = {} /\ ~k.norm /\ k.view = j.view
      /\ k.done = j.done /\ k.call = "merge" /\ k.drop = j.drop /\ k \in Job
  BY <1>1, <1>2, <1>4, <1>5, <1>6 DEF Job
<1>8. /\ job' \in [Proc -> Job] /\ pc' \in [Proc -> Step] /\ Alone(p)
      /\ (pc'[p] = "fetch" => k.ops # << >>)
  <2>1. job' \in [Proc -> Job] /\ Alone(p) /\ pc'[p] \in Step
    BY <1>1, <1>3, <1>5, <1>7 DEF TypeOK, Alone, Step
  <2> QED
    BY <1>1, <1>3, <1>5, <1>6, <1>7, <2>1 DEF TypeOK
<1>9. TypeOK'
  BY <1>1, <1>3, <1>8 DEF TypeOK, Alone, Breaches
<1> HIDE DEF k, j
<1>10. Ops(k) \subseteq Ops(j)
  BY <1>4, <1>7, OpsLeft
<1>11. \A op \in Ops(j) : op.kind = "replace"
  BY <1>4 DEF Ops
<1>12. \A l \in Hands(k) : l \in Hands(j)
  BY <1>7, <1>10, HandsAre
<1>13. Shape(k)
  <2>1. \A n \in DOMAIN k.ops : k.ops[n].kind = "replace" /\
           \E l \in k.ops[n].lines : l.id = k.ops[n].line.id /\ l.text = k.ops[n].line.text
    BY <1>4, <1>6, <1>7
  <2>2. k.ops # << >> => 1 \in DOMAIN k.ops
    BY <1>6, <1>7, TailOps
  <2> QED
    BY <1>7, <2>1, <2>2 DEF Shape
<1>14. Stage(pc'[p], k)
  BY <1>4, <1>5, <1>6, <1>7, <1>1, <1>2 DEF Stage, Local
<1>16. \A op \in Ops(k) : op.kind = "replace"
  BY <1>10, <1>11
<1>15. Held(pc'[p], k)
  <2>1. /\ \A l \in Hands(j) : l.id # 0
        /\ \A q, r \in Path : \A l \in j.view[q], m \in j.view[r] : l.id = m.id => q = r /\ l = m
    BY <1>1, Zenon DEF Held, Local, j
  <2>2. /\ \A l \in Hands(k) : l.id # 0
        /\ \A q, r \in Path : \A l \in k.view[q], m \in k.view[r] : l.id = m.id => q = r /\ l = m
    BY <1>7, <1>12, <2>1
  <2>3. pc'[p] # "md" /\ k.call # "dream"
    BY <1>5, <1>7
  <2> QED
    BY <1>7, <1>16, <2>2, <2>3 DEF Held, NoDup
<1>17. Current(p)'
  BY <1>5, <1>16 DEF Current, k
<1>18. \A i \in Id, t \in Text : HandSays(k, i, t) \/ <<i, t>> \in tombs' => Claim(i, t)
  BY <1>1, <1>7, <1>12 DEF HandSays, Claim, j
<1>19. \A i : ~Ready(p, i)' /\ ~Adding(p, i)' /\ ~Saving(p, i)' /\ ~Owns(p, i)'
  <2>1. \A i : ~Ready(p, i)' /\ ~Adding(p, i)' /\ ~Saving(p, i)'
    BY <1>5, <1>16 DEF Ready, HasAdd, Adding, Saving, k
  <2> QED
    BY <2>1 DEF Owns
<1>20. \A c : ~Carries(pc[p], job[p], c)
  BY <1>1, <1>11 DEF Carries, j
<1>21. \A i : ~Dropping(p, i)
  BY <1>1, <1>11 DEF Dropping, j
<1>22. (\A t \in tombs' : t[1] # 0) /\ next' >= next
  BY <1>1 DEF Good, TypeOK, Sized
<1>23. Local(pc'[p], job'[p])
  BY <1>13, <1>14, <1>15 DEF Local, k
<1> QED
  BY <1>1, <1>8, <1>9, <1>17, <1>18, <1>19, <1>20, <1>21, <1>22, <1>23, QuietStep DEF k
\* A process ends in the middle of a call: nothing was in its hands alone, and it was not
\* about to take out what was forgotten.
LEMMA CrashKeeps ==
  ASSUME Sized, Good, Lossless', NEW p \in Proc, Crash(p)
  PROVE  Good'
<1>1. /\ TypeOK /\ pc' = [pc EXCEPT ![p] = "idle"] /\ job' = [job EXCEPT ![p] = NoJob]
      /\ UNCHANGED <<disk, next, kept>> /\ stale' = [stale EXCEPT ![p] = {}]
      /\ acts' \in 0 .. MaxActs /\ breach' \subseteq Breaches /\ "crashed" \notin breach'
  <2>1. "crashed" \notin breach'
    BY DEF Lossless
  <2>2. breach' \subseteq Breaches
    BY DEF Crash, Good, TypeOK, Breaches
  <2> QED
    BY <2>1, <2>2 DEF Crash, Goto, Act, Good, TypeOK, Sized
<1>2. stale' \in [Proc -> SUBSET Path] /\ \A r \in Proc \ {p} : stale'[r] = stale[r]
  BY <1>1 DEF TypeOK
<1>3. /\ \A k \in kept : OnDisk(k)
      /\ \A t \in tombs : ~(Lives(t[1]) /\ Cutting(p, t[1]))
  BY <1>1 DEF Crash
<1>4. ASSUME NEW k, OnDisk(k) PROVE Stored(k)
  <2>1. PICK q \in Path : Says(file[q], k) \/ (k[1] # 0 /\ Says(Remembered(q), k))
    BY <1>4 DEF OnDisk
  <2>2. CASE Says(file[q], k)
    <3>1. PICK l \in file[q] : l.text = k[2] /\ k[1] \in {0, l.id}
      BY <2>2 DEF Says
    <3>2. IsOf(l, k)
      BY <3>1 DEF IsOf
    <3> QED
      BY <3>2 DEF Stored
  <2>3. CASE k[1] # 0 /\ Says(Remembered(q), k)
    <3>1. PICK m \in Remembered(q) : m.text = k[2] /\ k[1] \in {0, m.id}
      BY <2>3 DEF Says
    <3>2. PICK l \in file[q] : m = [l EXCEPT !.text = cache[q][l.id]]
      BY DEF Remembered
    <3>3. l \in Line
      BY <1>1 DEF TypeOK, Store
    <3>4. l.id = m.id
      BY <3>2, <3>3 DEF Line
    <3>5. IsOf(l, k)
      BY <2>3, <3>1, <3>4 DEF IsOf
    <3> QED
      BY <3>5 DEF Stored
  <2> QED
    BY <2>1, <2>2, <2>3
<1>5. ASSUME NEW i, Dropping(p, i) PROVE Cutting(p, i)
  BY <1>5 DEF Dropping, Cutting, Ops, Ids
<1>6. ASSUME NEW t \in tombs, NEW r \in Proc, Owns(r, t[1]) PROVE Lives(t[1])
  <2>1. Ready(r, t[1]) \/ Adding(r, t[1])
    BY <1>6 DEF Owns, Good, Unsaved
  <2>2. CASE Ready(r, t[1])
    BY <2>2 DEF Lives, Ready, HasAdd, Ops
  <2>3. CASE Adding(r, t[1])
    BY <2>3 DEF Lives, Adding, Ids
  <2> QED
    BY <2>1, <2>2, <2>3
<1>7. \A i : OnFile(i) => Lives(i)
  BY DEF OnFile, Lives
<1>8. \A t \in tombs : Dropping(p, t[1]) => ~OnFile(t[1]) /\ \A r \in Proc : ~Owns(r, t[1])
  BY <1>3, <1>5, <1>6, <1>7
<1>9. \A k \in kept : Stored(k)
  BY <1>3, <1>4
<1> QED
  BY <1>1, <1>2, <1>8, <1>9, EndKeeps

\* A process has written back what it read: no other had changed it.
LEMMA MarkKeeps ==
  ASSUME Sized, Good, Lossless', NEW p \in Proc, Mark(p)
  PROVE  Good'
<1> DEFINE j == job[p]
           k == job'[p]
<1>1. /\ TypeOK /\ pc[p] = "mark" /\ file' = file /\ cache' = cache /\ tombs' = tombs
      /\ next' = next /\ acts' = acts /\ kept' = kept /\ Local("mark", j) /\ j \in Job
      /\ pc' = [pc EXCEPT ![p] = IF j.ops # << >> THEN "fetch" ELSE "idle"]
      /\ job' = [job EXCEPT ![p] = [j EXCEPT !.q = 1, !.norm = FALSE]]
      /\ stale' = [stale EXCEPT ![p] = IF j.ops # << >> THEN stale[p] ELSE {}]
      /\ breach' \subseteq Breaches
  BY DEF Good, Mark, Goto, disk, TypeOK, Blame, Breaches
<1>2. 1 \in Path
  BY DEF Path, Sized
<1>3. /\ k.ops = j.ops /\ k.q = 1 /\ k.new = j.new /\ ~k.norm /\ k.view = j.view
      /\ k.done = j.done /\ k.call = j.call /\ k.drop = j.drop /\ k \in Job
      /\ pc'[p] = IF j.ops # << >> THEN "fetch" ELSE "idle"
  BY <1>1, <1>2 DEF TypeOK, Job
<1>4. /\ j.new = {} /\ j.norm /\ j.call # "dream"
      /\ j.ops = << >> => j.view = NoLines /\ j.done = {} /\ j.call = "other" /\ j.drop = {}
  BY <1>1 DEF Local, Stage, Shape
<1>5. j.ops = << >> => k = NoJob
  BY <1>1, <1>2, <1>3, <1>4, NothingIsTyped DEF Job, NoJob
<1>6. /\ job' \in [Proc -> Job] /\ pc' \in [Proc -> Step] /\ Alone(p)
      /\ \A r \in Proc \ {p} : stale'[r] = stale[r]
      /\ stale' \in [Proc -> SUBSET Path]
      /\ stale'[p] = IF j.ops # << >> THEN stale[p] ELSE {}
  BY <1>1, <1>3 DEF TypeOK, Alone, Step
<1>7. TypeOK'
  BY <1>1, <1>3, <1>6 DEF TypeOK, Alone
<1> HIDE DEF j, k
<1>8. Ops(k) = Ops(j) /\ (j.ops = << >> => Ops(j) = {})
  BY <1>3, OpsAre DEF Ops
<1>9. \A l \in Hands(k) : l \in Hands(j)
  BY <1>3, <1>8, HandsAre
<1>10. Shape(k)
  BY <1>1, <1>3 DEF Shape, Local
<1>11. Stage(pc'[p], k)
  BY <1>3, <1>4, <1>5 DEF Stage
<1>12. Held(pc'[p], k)
  <2>1. pc'[p] # "md"
    BY <1>3
  <2>2. /\ \A l \in Hands(k) : l.id # 0
        /\ NoDup(k.new)
        /\ \A q, r \in Path : \A l \in k.view[q], m \in k.view[r] : l.id = m.id => q = r /\ l = m
        /\ \A op \in Ops(k) : op.kind = "save" => NoDup(op.lines)
    <3>1. /\ \A l \in Hands(j) : l.id # 0
          /\ NoDup(j.new)
          /\ \A q, r \in Path : \A l \in j.view[q], m \in j.view[r] : l.id = m.id => q = r /\ l = m
          /\ \A op \in Ops(j) : op.kind = "save" => NoDup(op.lines)
      BY <1>1, Zenon DEF Held, Local
    <3> QED
      BY <1>3, <1>8, <1>9, <3>1
  <2>3. k.call # "dream"
    BY <1>3, <1>4
  <2> QED
    BY <2>1, <2>2, <2>3 DEF Held
<1>13. Current(p)'
  <2>1. Current(p)
    BY DEF Good
  <2> QED
    BY <1>1, <1>3, <1>6, <1>8, <2>1 DEF Current, j, k
<1>14. \A i \in Id, t \in Text : HandSays(k, i, t) \/ <<i, t>> \in tombs' => Claim(i, t)
  BY <1>1, <1>3, <1>9 DEF HandSays, Claim, j
<1>15. \A i : (Ready(p, i)' => Ready(p, i)) /\ ~Adding(p, i)' /\ (Saving(p, i)' => Saving(p, i))
  <2> TAKE i
  <2>1. Ready(p, i)' => Ready(p, i)
    BY <1>1, <1>3, <1>8 DEF Ready, HasAdd, Doomed, j, k
  <2>2. ~Adding(p, i)'
    BY <1>3 DEF Adding
  <2>3. Saving(p, i)' => Saving(p, i)
    BY <1>1, <1>6, <1>8 DEF Saving, Has, j, k
  <2> QED
    BY <2>1, <2>2, <2>3
<1>16. \A i : Owns(p, i)' => Owns(p, i)
  BY <1>1, <1>15 DEF Owns, OnFile, Has
<1>17. \A i \in Id : (Ready(p, i) => ~OnFile(i)) /\ (Saving(p, i) => ~OnFile(i))
  BY <1>1 DEF Good, OwnsNew
<1>18. \A c : Carries(pc[p], job[p], c) => Carries(pc'[p], job'[p], c)
  BY <1>1, <1>8 DEF Carries, j, k
<1>19. \A i : Dropping(p, i) => Dropping(p, i)'
  BY <1>1, <1>8 DEF Dropping, HasAdd, j, k
<1>20. (\A t \in tombs' : t[1] # 0) /\ next' >= next
  BY <1>1 DEF Good, TypeOK, Sized
<1>21. Local(pc'[p], job'[p])
  BY <1>10, <1>11, <1>12 DEF Local, k
<1>22. \A t \in tombs' : Dropping(p, t[1])' \/ (t \in tombs /\ ~Dropping(p, t[1]))
  BY <1>1, <1>19
<1>23. pc'[p] # "md"
  BY <1>3
<1> QED
  BY <1>1, <1>6, <1>7, <1>13, <1>14, <1>15, <1>16, <1>17, <1>18, <1>20, <1>21, <1>22, <1>23,
     QuietStep DEF k
-----------------------------------------------------------------------------
(* Reading.                                                                 *)

\* A line of a file as it was read: under its own id, or under one made for it.
LEMMA ReadLines ==
  ASSUME Sized, Good, NEW q \in Path, NEW f, NumberedBy(f, q),
         next + Cardinality(Fresh(q)) <= MaxId + 1, Cardinality(Fresh(q)) \in Nat
  PROVE
    \A l \in file[q] : \A m : ReadAs(f, q, l, m) =>
         /\ m \in Line /\ m.id \in Id /\ m.id # 0 /\ m.id \in Nat
         /\ \/ m.id = l.id /\ l.id < next /\ Claim(m.id, m.text)
               /\ m = IF Edited(q, l) THEN [l EXCEPT !.text = cache[q][l.id], !.sby = f[l]] ELSE l
            \/ /\ l \in Fresh(q) /\ m.id = f[l] /\ m.id >= next /\ m.text = l.text
               /\ m = IF l.id = 0 THEN [l EXCEPT !.id = f[l]] ELSE Successor(l, f[l])
<1> SUFFICES ASSUME NEW l \in file[q], NEW m, ReadAs(f, q, l, m)
    PROVE  /\ m \in Line /\ m.id \in Id
           /\ \/ m.id = l.id /\ l.id < next /\ Claim(m.id, m.text)
                 /\ m = IF Edited(q, l) THEN [l EXCEPT !.text = cache[q][l.id], !.sby = f[l]] ELSE l
              \/ /\ l \in Fresh(q) /\ m.id = f[l] /\ m.id >= next /\ m.text = l.text
                 /\ m = IF l.id = 0 THEN [l EXCEPT !.id = f[l]] ELSE Successor(l, f[l])
  BY IdsAreNumbers
<1>1. l \in Line /\ cache[q] \in Texts
  BY DEF Good, TypeOK, Store
<1>2. l \in Fresh(q) => f[l] \in Id /\ f[l] >= next /\ f[l] \in 0 .. MaxId
  BY DEF NumberedBy, Id
<1>3. l.id # 0 => /\ l.id < next /\ l.id \in Id
                  /\ IF cache[q][l.id] = NoText THEN Claim(l.id, l.text) ELSE Claim(l.id, cache[q][l.id])
  BY NumberedBefore
<1>4. CASE l.id = 0 /\ m = [l EXCEPT !.id = f[l]]
  <2>1. l \in Fresh(q)
    BY <1>4 DEF Fresh
  <2> QED
    BY <1>1, <1>2, <1>4, <2>1 DEF Line
<1>5. CASE Edited(q, l) /\ m = [l EXCEPT !.text = cache[q][l.id], !.sby = f[l]]
  <2>1. l \in Fresh(q) /\ l.id # 0 /\ cache[q][l.id] # NoText
    BY <1>5 DEF Fresh, Edited
  <2>2. cache[q][l.id] \in Text
    BY <1>1, <1>3, <2>1 DEF Texts
  <2>3. m \in Line /\ m.id = l.id /\ m.text = cache[q][l.id]
    BY <1>1, <1>2, <1>5, <2>1, <2>2 DEF Line
  <2> QED
    BY <1>3, <1>5, <2>1, <2>3
<1>6. CASE Edited(q, l) /\ m = Successor(l, f[l])
  <2>1. l \in Fresh(q) /\ l.id # 0
    BY <1>6 DEF Fresh, Edited
  <2>2. m \in Line /\ m.id = f[l] /\ m.text = l.text
    BY <1>1, <1>2, <1>6, <2>1, NewLines
  <2> QED
    BY <1>2, <1>6, <2>1, <2>2
<1>7. CASE l \notin Fresh(q) /\ m = l
  <2>1. l.id # 0 /\ ~Edited(q, l)
    BY <1>7 DEF Fresh
  <2>2. cache[q][l.id] # NoText => cache[q][l.id] = l.text
    BY <2>1 DEF Edited
  <2> QED
    BY <1>1, <1>3, <1>7, <2>1, <2>2
<1> QED
  BY <1>4, <1>5, <1>6, <1>7 DEF ReadAs

\* A file is read that is going to be written back.
LEMMA LoadKeeps ==
  ASSUME Sized, Good, Lossless', NEW p \in Proc, NEW q \in Path, Load(p, q)
  PROVE  Good'
<1> DEFINE j == job[p]
           k == job'[p]
           n == Cardinality(Fresh(q))
<1>1. /\ TypeOK /\ pc[p] \in {"idle", "fetch"} /\ file' = file /\ cache' = cache /\ tombs' = tombs
      /\ acts' = acts /\ kept' = kept /\ breach' = breach /\ Local(pc[p], j) /\ j \in Job
      /\ pc' = [pc EXCEPT ![p] = "md"] /\ next + n <= MaxId + 1 /\ next' = next + n
      /\ job' = [job EXCEPT ![p] = [j EXCEPT !.q = q, !.new = Normalized(q), !.norm = TRUE]]
      /\ stale' = [stale EXCEPT ![p] = stale[p] \ {q}]
      /\ pc[p] = "fetch" => Head(j.ops).kind # "save"
  BY DEF Good, Load, Goto, disk, TypeOK
<1>2. IsFiniteSet(file[q])
  BY DEF Good
<1>3. /\ n \in Nat
      /\ \E f : /\ NumberedBy(f, q)
                /\ \A m : m \in Normalized(q) <=> \E l \in file[q] : ReadAs(f, q, l, m)
  BY <1>1, <1>2, NormalLines
<1>4. PICK f : /\ NumberedBy(f, q)
               /\ \A m : m \in Normalized(q) <=> \E l \in file[q] : ReadAs(f, q, l, m)
  BY <1>3
<1>5. \A l \in file[q] : \A m : ReadAs(f, q, l, m) =>
        /\ m \in Line /\ m.id \in Id /\ m.id # 0 /\ m.id \in Nat
        /\ \/ m.id = l.id /\ l.id < next /\ Claim(m.id, m.text)
              /\ m = IF Edited(q, l) THEN [l EXCEPT !.text = cache[q][l.id], !.sby = f[l]] ELSE l
           \/ /\ l \in Fresh(q) /\ m.id = f[l] /\ m.id >= next /\ m.text = l.text
              /\ m = IF l.id = 0 THEN [l EXCEPT !.id = f[l]] ELSE Successor(l, f[l])
  <2>1. NumberedBy(f, q) /\ n \in Nat /\ next + n <= MaxId + 1
    BY <1>1, <1>3, <1>4
  <2> QED
    BY <2>1, ReadLines
<1>6. Normalized(q) \subseteq Line
  BY <1>4, <1>5
<1>7. /\ k.ops = j.ops /\ k.q = q /\ k.new = Normalized(q) /\ k.norm /\ k.view = j.view
      /\ k.done = j.done /\ k.call = j.call /\ k.drop = j.drop /\ k \in Job /\ pc'[p] = "md"
  BY <1>1, <1>6 DEF TypeOK, Job
<1>8. /\ job' \in [Proc -> Job] /\ pc' \in [Proc -> Step] /\ Alone(p)
      /\ \A r \in Proc \ {p} : stale'[r] = stale[r]
      /\ stale' \in [Proc -> SUBSET Path] /\ stale'[p] = stale[p] \ {q}
  BY <1>1, <1>7 DEF TypeOK, Alone, Step
<1>9. next' \in 1 .. MaxId + 1 /\ next' >= next /\ next \in Nat /\ next' \in Nat
  <2>1. next \in 1 .. MaxId + 1
    BY <1>1 DEF TypeOK
  <2> QED
    BY <1>1, <1>3, <2>1 DEF Sized
<1>10. TypeOK'
  BY <1>1, <1>7, <1>8, <1>9 DEF TypeOK, Alone
<1>11. j.call # "dream" /\ (j.ops = << >> => j = NoJob)
  <2>1. pc[p] = "idle" => j = NoJob
    BY <1>1 DEF Local, Stage
  <2>2. pc[p] = "fetch" => j.ops # << >> /\ j.call # "dream"
    BY <1>1, TailOps, JobsAreTyped DEF Local, Stage, Shape
  <2> QED
    BY <1>1, <2>1, <2>2, NothingIsTyped
<1> HIDE DEF j, k, n
<1>12. Ops(k) = Ops(j)
  BY <1>7 DEF Ops
<1>13. \A op \in Ops(j) : op.kind # "save"
  <2>1. /\ j.call = "other" =>
             \/ j.ops = << >>
             \/ Len(j.ops) = 1 /\ j.ops[1].kind \in {"add", "replace", "cut"}
             \/ Len(j.ops) = 2 /\ j.ops[1].kind \in {"replace", "cut"} /\ j.ops[2].kind = "add"
        /\ j.call = "merge" => \A x \in DOMAIN j.ops : j.ops[x].kind = "replace"
    BY <1>1 DEF Local, Shape
  <2>2. j.ops \in Seq(Op) /\ j.call \in {"other", "merge", "dream"}
    BY <1>1, JobsAreTyped
  <2>3. ASSUME NEW x \in DOMAIN j.ops PROVE j.ops[x].kind # "save"
    <3>1. j.ops = << >> => FALSE
      BY <2>3, NoOps
    <3>2. Len(j.ops) = 1 => x = 1
      BY <2>2
    <3>3. Len(j.ops) = 2 => x = 1 \/ x = 2
      BY <2>2
    <3> QED
      BY <1>11, <2>1, <2>2, <3>1, <3>2, <3>3
  <2> QED
    BY <2>3 DEF Ops
<1>14. \A l \in Hands(k) : l \in Hands(j) \/ l \in Normalized(q)
  BY <1>7, <1>12, HandsAre
<1>15. Shape(k)
  BY <1>1, <1>7, <1>11 DEF Shape, Local
<1>16. Stage(pc'[p], k)
  BY <1>7, <1>11, NothingIsTyped DEF Stage
<1>17. NoDup(k.new)
  <2> SUFFICES ASSUME NEW a \in Normalized(q), NEW b \in Normalized(q), a.id = b.id PROVE a = b
    BY <1>7 DEF NoDup
  <2>1. PICK l \in file[q] : ReadAs(f, q, l, a)
    BY <1>4
  <2>2. PICK m \in file[q] : ReadAs(f, q, m, b)
    BY <1>4
  <2>3. CASE a.id = l.id /\ l.id < next /\ b.id = m.id /\ m.id < next
             /\ a = (IF Edited(q, l) THEN [l EXCEPT !.text = cache[q][l.id], !.sby = f[l]] ELSE l)
             /\ b = (IF Edited(q, m) THEN [m EXCEPT !.text = cache[q][m.id], !.sby = f[m]] ELSE m)
    <3>1. l.id # 0
      BY <1>5, <2>1, <2>3
    <3>2. l = m
      BY <2>3, <3>1 DEF Good, OneLine
    <3> QED
      BY <2>3, <3>2
  <2>4. CASE /\ l \in Fresh(q) /\ a.id = f[l] /\ m \in Fresh(q) /\ b.id = f[m]
             /\ a = IF l.id = 0 THEN [l EXCEPT !.id = f[l]] ELSE Successor(l, f[l])
             /\ b = IF m.id = 0 THEN [m EXCEPT !.id = f[m]] ELSE Successor(m, f[m])
    <3>1. l = m
      BY <1>4, <2>4 DEF NumberedBy
    <3> QED
      BY <2>4, <3>1
  <2>5. CASE (a.id < next /\ b.id >= next) \/ (a.id >= next /\ b.id < next)
    <3>1. a.id \in Nat /\ a.id = b.id
      BY <1>5, <2>1
    <3> QED
      BY <1>9, <2>5, <3>1
  <2> QED
    BY <1>5, <2>1, <2>2, <2>3, <2>4, <2>5
<1>18. Held(pc'[p], k)
  <2>1. /\ \A l \in Hands(j) : l.id # 0
        /\ \A x, y \in Path : \A l \in j.view[x], m \in j.view[y] : l.id = m.id => x = y /\ l = m
    BY <1>1, Zenon DEF Held, Local
  <2>2. \A l \in Normalized(q) : l.id # 0
    BY <1>4, <1>5
  <2>3. /\ \A l \in Hands(k) : l.id # 0
        /\ \A x, y \in Path : \A l \in k.view[x], m \in k.view[y] : l.id = m.id => x = y /\ l = m
    BY <1>7, <1>14, <2>1, <2>2
  <2>4. k.call # "dream"
    BY <1>7, <1>11
  <2> QED
    BY <1>12, <1>13, <1>17, <2>3, <2>4 DEF Held
<1>19. Local(pc'[p], job'[p])
  BY <1>15, <1>16, <1>18 DEF Local, k
<1>20. \A l \in file[q] : /\ l.id = 0 \/ l.id \in Ids(k.new)
                          /\ \E m \in k.new : m.text = l.text
  <2> SUFFICES ASSUME NEW l \in file[q]
               PROVE  (l.id = 0 \/ l.id \in Ids(k.new)) /\ \E m \in k.new : m.text = l.text
    OBVIOUS
  <2>1. l \in Line
    BY <1>1 DEF TypeOK, Store
  <2>2. CASE l.id = 0
    <3> DEFINE m == [l EXCEPT !.id = f[l]]
    <3>1. ReadAs(f, q, l, m)
      BY <2>2 DEF ReadAs
    <3>2. m \in k.new /\ m.text = l.text
      BY <1>4, <1>7, <2>1, <3>1 DEF Line
    <3> QED
      BY <2>2, <3>2
  <2>3. CASE Edited(q, l)
    <3> DEFINE m == [l EXCEPT !.text = cache[q][l.id], !.sby = f[l]]
    <3>1. ReadAs(f, q, l, m) /\ ReadAs(f, q, l, Successor(l, f[l]))
      BY <2>3 DEF ReadAs
    <3>2. m \in k.new /\ m.id = l.id /\ Successor(l, f[l]) \in k.new
      BY <1>4, <1>7, <2>1, <3>1 DEF Line
    <3>3. Successor(l, f[l]).text = l.text
      BY DEF Successor
    <3> HIDE DEF m
    <3> QED
      BY <3>2, <3>3 DEF Ids
  <2>4. CASE l \notin Fresh(q)
    <3>1. ReadAs(f, q, l, l)
      BY <2>4 DEF ReadAs
    <3> QED
      BY <1>4, <1>7, <3>1 DEF Ids
  <2> QED
    BY <2>2, <2>3, <2>4 DEF Fresh
<1>21. Current(p)'
  <2>1. pc'[p] = "md" /\ k.q = q /\ file' = file /\ \A op \in Ops(k) : op.kind # "save"
    BY <1>1, <1>7, <1>12, <1>13
  <2> QED
    BY <1>20, <2>1 DEF Current, k
<1> DEFINE g == [i \in Id |-> (CHOOSE l \in Fresh(q) : f[l] = i).text]
<1>22. \A i \in Id, t \in Text : HandSays(k, i, t) \/ <<i, t>> \in tombs' =>
           Claim(i, t) \/ (i >= next /\ i < next' /\ t = g[i])
  <2> SUFFICES ASSUME NEW i \in Id, NEW t \in Text, HandSays(k, i, t) \/ <<i, t>> \in tombs'
               PROVE  Claim(i, t) \/ (i >= next /\ i < next' /\ t = g[i])
    OBVIOUS
  <2>1. CASE <<i, t>> \in j.drop \/ (\E l \in Hands(j) : l.id = i /\ l.text = t) \/ <<i, t>> \in tombs'
    BY <1>1, <2>1 DEF HandSays, Claim, j
  <2>2. CASE \E m \in Normalized(q) : m.id = i /\ m.text = t
    <3>1. PICK m \in Normalized(q) : m.id = i /\ m.text = t
      BY <2>2
    <3>2. PICK l \in file[q] : ReadAs(f, q, l, m)
      BY <1>4
    <3>3. CASE Claim(m.id, m.text)
      BY <3>1, <3>3
    <3>4. CASE l \in Fresh(q) /\ m.id = f[l] /\ m.id >= next /\ m.text = l.text
      <4>1. \A a \in Fresh(q) : f[a] = i => a = l
        BY <1>4, <3>1, <3>4 DEF NumberedBy
      <4>2. (CHOOSE a \in Fresh(q) : f[a] = i) = l
        BY <3>1, <3>4, <4>1
      <4>3. g[i] = l.text
        BY <4>2
      <4>4. i < next'
        BY <1>1, <1>4, <3>1, <3>4 DEF NumberedBy, n
      <4> QED
        BY <3>1, <3>4, <4>3, <4>4
    <3> QED
      BY <1>5, <3>2, <3>3, <3>4
  <2> QED
    BY <1>7, <1>14, <2>1, <2>2 DEF HandSays
<1> HIDE DEF g
<1>23. \A i \in Id : Ready(p, i)' => Ready(p, i)
  <2>1. pc[p] # "md"
    BY <1>1
  <2> QED
    BY <1>7, <1>12, <2>1 DEF Ready, HasAdd, Doomed, j, k
<1>24. \A i \in Id : Ready(p, i) => ~OnFile(i) /\ i < next
  <2>1. \A i \in Id : Ready(p, i) => ~OnFile(i)
    BY <1>1 DEF Good, OwnsNew
  <2>2. \A i \in Id : Ready(p, i) => Owns(p, i)
    BY <2>1 DEF Owns
  <2> QED
    BY <2>1, <2>2, NumberedBefore
<1>25. \A i \in Id : i \in Ids(Normalized(q)) => Has(q, i) \/ i >= next
  <2> SUFFICES ASSUME NEW m \in Normalized(q) PROVE Has(q, m.id) \/ m.id >= next
    BY DEF Ids
  <2>1. PICK l \in file[q] : ReadAs(f, q, l, m)
    BY <1>4
  <2>2. m.id = l.id \/ m.id >= next
    BY <1>5, <2>1
  <2> QED
    BY <2>2 DEF Has
<1>26. \A i \in Id : Adding(p, i)' => i >= next
  BY <1>1, <1>7, <1>25 DEF Adding, Has, k
<1>27. \A i : ~Saving(p, i)'
  BY <1>12, <1>13 DEF Saving, k
<1>28. \A i \in Id : (OnFile(i) => i < next) /\ i \in Nat
  BY NumberedBefore DEF Id
<1>29. \A i \in Id : Owns(p, i)' => Owns(p, i) \/ i >= next
  BY <1>1, <1>23, <1>24, <1>26, <1>27 DEF Owns, OnFile, Has
<1>30. \A i \in Id :
         /\ ~(Ready(p, i)' /\ OnFile(i))
         /\ Ready(p, i)' => i \notin Ids(k.new)
         /\ Adding(p, i)' \/ Saving(p, i)' => ~OnFile(i)
  <2> TAKE i \in Id
  <2>1. Has(q, i) => OnFile(i)
    BY DEF OnFile
  <2> QED
    BY <1>7, <1>9, <1>23, <1>24, <1>25, <1>26, <1>27, <1>28, <2>1
<1>31. \A c : Carries(pc[p], job[p], c) => Carries(pc'[p], job'[p], c)
  BY <1>1, <1>12 DEF Carries, j, k
<1>32. \A i : Dropping(p, i) => Dropping(p, i)'
  BY <1>1, <1>12 DEF Dropping, HasAdd, j, k
<1>33. \A t \in tombs' : t[1] # 0
  BY <1>1 DEF Good
<1>34. \A t \in tombs' : Dropping(p, t[1])' \/ (t \in tombs /\ ~Dropping(p, t[1]))
  BY <1>1, <1>32
<1> QED
  BY <1>1, <1>8, <1>9, <1>10, <1>19, <1>21, <1>22, <1>27, <1>29, <1>30, <1>31, <1>33, <1>34,
     QuietStep DEF k
\* A resolved contradiction has the same two facts, which say the same.
LEMMA ResolvedLines ==
  ASSUME NEW l \in Line, NEW r \in Line, NEW x, NEW y, x = Resolved(l, r)[1], y = Resolved(l, r)[2]
  PROVE  /\ x \in Line /\ y \in Line
         /\ \/ x.id = l.id /\ x.text = l.text /\ y.id = r.id /\ y.text = r.text
            \/ x.id = r.id /\ x.text = r.text /\ y.id = l.id /\ y.text = l.text
<1> DEFINE w == IF LeftWins(l, r) THEN l ELSE r
           z == IF LeftWins(l, r) THEN r ELSE l
           s == IF w.sup = 0 THEN z.id ELSE w.sup
<1>1. x = [w EXCEPT !.sup = s] /\ y = [z EXCEPT !.sby = w.id]
  BY DEF Resolved
<1>2. w \in Line /\ z \in Line /\ ((w = l /\ z = r) \/ (w = r /\ z = l))
  OBVIOUS
<1> HIDE DEF w, z
<1>3. s \in 0 .. MaxId /\ w.id \in 0 .. MaxId
  BY <1>2 DEF Line
<1> HIDE DEF s
<1>4. x \in Line /\ y \in Line /\ x.id = w.id /\ x.text = w.text /\ y.id = z.id /\ y.text = z.text
  BY <1>1, <1>2, <1>3 DEF Line
<1> QED
  BY <1>2, <1>4

\* The lines of files with their files.
LEMMA AtIs ==
  ASSUME NEW view, NEW a
  PROVE  a \in At(view) <=> \E q \in Path : \E l \in view[q] : a = <<q, l>>
<1> DEFINE T == {{q} \X view[q] : q \in Path}
<1>1. a \in UNION T <=> \E q \in Path : a \in {q} \X view[q]
  BY Zenon
<1>2. \A q : a \in {q} \X view[q] <=> \E l \in view[q] : a = <<q, l>>
  OBVIOUS
<1> QED
  BY <1>1, <1>2, Zenon DEF At

\* A merge finds two facts of what it has loaded that contradict each other.
LEMMA PairFound ==
  ASSUME Sized, NEW p \in Proc, job[p].view \in Store, ToMerge(p) # {},
         \A q, r \in Path : \A l \in job[p].view[q], m \in job[p].view[r] : l.id = m.id => q = r /\ l = m
  PROVE  LET a == First({c[1] : c \in ToMerge(p)})
             b == First({c[2] : c \in {d \in ToMerge(p) : d[1] = a}})
         IN  /\ \E q \in Path : a[2] \in job[p].view[q]
             /\ \E q \in Path : b[2] \in job[p].view[q]
             /\ a[2].id # b[2].id
<1> DEFINE A == {c[1] : c \in ToMerge(p)}
           a == First(A)
           B == {c[2] : c \in {d \in ToMerge(p) : d[1] = a}}
           b == First(B)
<1>1. \A x \in At(job[p].view) :
        x \in Path \X Line /\ x[1] \in Path /\ x[2] \in job[p].view[x[1]]
  BY AtIs DEF Store
<1>2. \A x, y \in At(job[p].view) : x[1] = y[1] /\ x[2].id = y[2].id => x = y
  BY <1>1
<1>3. /\ ToMerge(p) \subseteq At(job[p].view) \X At(job[p].view)
      /\ \A c \in ToMerge(p) : c[1][2].id # c[2][2].id
  BY DEF ToMerge, Conflict
<1>4. A \subseteq At(job[p].view) /\ A # {}
  BY <1>3
<1>5. a \in A
  <2>1. A \in SUBSET (Path \X Line)
    BY <1>1, <1>4
  <2>2. \A x, y \in A : x[1] = y[1] /\ x[2].id = y[2].id => x = y
    BY <1>2, <1>4
  <2> HIDE DEF A
  <2> QED
    BY <1>4, <2>1, <2>2, FirstIsOne
<1> HIDE DEF a
<1>6. B \subseteq At(job[p].view) /\ B # {} /\ \A x \in B : a[2].id # x[2].id
  BY <1>3, <1>5
<1>7. b \in B
  <2>1. B \in SUBSET (Path \X Line)
    BY <1>1, <1>6
  <2>2. \A x, y \in B : x[1] = y[1] /\ x[2].id = y[2].id => x = y
    BY <1>2, <1>6
  <2> HIDE DEF B
  <2> QED
    BY <1>6, <2>1, <2>2, FirstIsOne
<1> HIDE DEF A, B
<1>8. a \in At(job[p].view) /\ b \in At(job[p].view)
  BY <1>4, <1>5, <1>6, <1>7
<1>9. /\ \E q \in Path : a[2] \in job[p].view[q]
      /\ \E q \in Path : b[2] \in job[p].view[q]
      /\ a[2].id # b[2].id
  BY <1>1, <1>6, <1>7, <1>8
<1> QED
  BY <1>9, Zenon DEF a, A, B

\* A merge resolves one contradiction.
LEMMA MergePairKeeps ==
  ASSUME Sized, Good, Lossless', NEW p \in Proc, MergePair(p)
  PROVE  Good'
<1> DEFINE j == job[p]
           k == job'[p]
           a == First({c[1] : c \in ToMerge(p)})
           b == First({c[2] : c \in {d \in ToMerge(p) : d[1] = a}})
           l == a[2]
           r == b[2]
           x == Resolved(l, r)[1]
           y == Resolved(l, r)[2]
           won == CHOOSE m \in {l, r} : m.id = x.id
           lost == CHOOSE m \in {l, r} : m.id = y.id
           new(m) == IF m.id = x.id THEN x ELSE IF m.id = y.id THEN y ELSE m
           s == <<Change(1, won, x), Change(1, lost, y)>>
           v == [q \in Path |-> {new(m) : m \in j.view[q]}]
<1>1. /\ TypeOK /\ pc[p] = "merge" /\ file' = file /\ cache' = cache /\ tombs' = tombs
      /\ next' = next /\ acts' = acts /\ kept' = kept /\ stale' = stale
      /\ Local("merge", j) /\ j \in Job /\ ToMerge(p) # {}
      /\ pc' = [pc EXCEPT ![p] = "fetch"] /\ breach' \subseteq Breaches
  BY Zenon DEF Good, MergePair, Goto, disk, TypeOK, Blame, Breaches
<1>2. job' = [job EXCEPT ![p].ops = s, ![p].done = @ \union {y.id},
                ![p].view = [q \in Path |-> {new(m) : m \in @[q]}]]
  BY Zenon DEF MergePair
<1>3. /\ j.ops = << >> /\ j.new = {} /\ j.call = "merge" /\ ~j.norm
      /\ \A q, t \in Path : \A m \in j.view[q], n \in j.view[t] : m.id = n.id => q = t /\ m = n
      /\ \A m \in Hands(j) : m.id # 0
  BY <1>1, Zenon DEF Local, Stage, Held
<1>4. j.view \in Store /\ j.done \subseteq Id /\ j.drop \subseteq Pair /\ j.q \in Path
      /\ \A q \in Path : j.view[q] \subseteq Line
  BY <1>1, JobsAreTyped
<1>5. /\ \E q \in Path : l \in j.view[q]
      /\ \E q \in Path : r \in j.view[q]
      /\ l.id # r.id
  <2>1. job[p].view \in Store /\ ToMerge(p) # {} /\
        \A q, t \in Path : \A m \in job[p].view[q], n \in job[p].view[t] : m.id = n.id => q = t /\ m = n
    BY <1>1, <1>3, <1>4
  <2> QED
    BY <2>1, PairFound
<1> HIDE DEF a, b
<1>6. l \in Line /\ r \in Line /\ l \in Hands(j) /\ r \in Hands(j) /\ l.id # 0 /\ r.id # 0
  BY <1>3, <1>4, <1>5, HandsAre
<1> HIDE DEF l, r
<1>7. /\ x \in Line /\ y \in Line
      /\ \/ x.id = l.id /\ x.text = l.text /\ y.id = r.id /\ y.text = r.text
         \/ x.id = r.id /\ x.text = r.text /\ y.id = l.id /\ y.text = l.text
  BY <1>6, ResolvedLines
<1> HIDE DEF x, y
<1>8. /\ won \in {l, r} /\ won.id = x.id /\ won.text = x.text
      /\ lost \in {l, r} /\ lost.id = y.id /\ lost.text = y.text
  BY <1>5, <1>7
<1> HIDE DEF won, lost
<1>9. /\ x.id # 0 /\ y.id # 0 /\ y.id \in Id /\ won \in Line /\ lost \in Line
  BY <1>6, <1>7, <1>8 DEF Line, Id, Sized
<1>10. \A m \in Line : new(m) \in Line /\ new(m).id = m.id
  BY <1>7
<1>11. \A q \in Path : v[q] = {new(m) : m \in j.view[q]}
  OBVIOUS
<1> HIDE DEF new
<1>12. v \in Store
  <2>1. \A q \in Path : {new(m) : m \in j.view[q]} \subseteq Line
    BY <1>4, <1>10
  <2> QED
    BY <2>1 DEF Store
<1> HIDE DEF v
<1>13. 1 \in Path
  BY DEF Path, Sized
<1>14. /\ Change(1, won, x) \in Op /\ Change(1, won, x).kind = "replace" /\ Change(1, won, x).line = x
       /\ Change(1, won, x).lines = {won}
       /\ Change(1, lost, y) \in Op /\ Change(1, lost, y).kind = "replace" /\ Change(1, lost, y).line = y
       /\ Change(1, lost, y).lines = {lost}
  BY <1>7, <1>9, <1>13, OpsAreTyped
<1>15. /\ s \in Seq(Op) /\ s # << >> /\ DOMAIN s = {1, 2}
       /\ s[1].kind = "replace" /\ s[1].line = x /\ s[1].lines = {won}
       /\ s[2].kind = "replace" /\ s[2].line = y /\ s[2].lines = {lost}
  BY <1>14, TwoOps
<1> HIDE DEF s
<1>16. k = [j EXCEPT !.ops = s, !.done = @ \union {y.id}, !.view = v]
  <2>1. job' = [job EXCEPT ![p] = [[[job[p] EXCEPT !.ops = s] EXCEPT !.done = @ \union {y.id}]
                                   EXCEPT !.view = [q \in Path |-> {new(m) : m \in @[q]}]]]
    BY <1>1, <1>2 DEF TypeOK
  <2>2. k = [[[j EXCEPT !.ops = s] EXCEPT !.done = @ \union {y.id}]
               EXCEPT !.view = [q \in Path |-> {new(m) : m \in @[q]}]]
    BY <1>1, <2>1 DEF TypeOK
  <2> QED
    BY <1>1, <2>2 DEF Job, v
<1>17. /\ k.ops = s /\ k.q = j.q /\ k.new = {} /\ ~k.norm /\ k.view = v
       /\ k.done = j.done \union {y.id} /\ k.call = "merge" /\ k.drop = j.drop /\ k \in Job
  <2> DEFINE d == j.done \union {y.id}
  <2>1. d \subseteq Id
    BY <1>4, <1>9
  <2>2. k = [j EXCEPT !.ops = s, !.done = d, !.view = v]
    BY <1>16
  <2>3. k.done = d
    BY <1>1, <2>2 DEF Job
  <2> HIDE DEF d, j, k
  <2>4. /\ k.ops = s /\ k.q = j.q /\ k.new = j.new /\ k.norm = j.norm /\ k.view = v
        /\ k.done = d /\ k.call = j.call /\ k.drop = j.drop /\ k \in Job
    BY <1>1, <1>12, <1>15, <2>1, <2>2 DEF Job
  <2> QED
    BY <1>3, <2>3, <2>4 DEF d
<1>18. /\ job' \in [Proc -> Job] /\ pc' \in [Proc -> Step] /\ Alone(p) /\ pc'[p] = "fetch"
  BY <1>1, <1>2, <1>17 DEF TypeOK, Alone, Step
<1>19. TypeOK'
  BY <1>1, <1>15, <1>17, <1>18 DEF TypeOK, Alone
<1> HIDE DEF j, k
<1>20. \A op \in Ops(k) : op = s[1] \/ op = s[2]
  BY <1>15, <1>17 DEF Ops
<1>21. \A m \in Hands(k) : \E n \in Hands(j) : m.id = n.id /\ m.text = n.text
  <2> SUFFICES ASSUME NEW m \in Hands(k) PROVE \E n \in Hands(j) : m.id = n.id /\ m.text = n.text
    OBVIOUS
  <2>1. (\E q \in Path : m \in v[q]) \/ \E op \in Ops(k) : m = op.line
    BY <1>17, <1>15, <1>20, HandsAre
  <2>2. CASE m = x \/ m = y
    BY <1>6, <1>7, <2>2
  <2>3. CASE \E op \in Ops(k) : m = op.line
    BY <1>15, <1>20, <2>2, <2>3
  <2>4. CASE \E q \in Path : m \in v[q]
    <3>1. PICK q \in Path : m \in {new(n) : n \in j.view[q]}
      BY <1>11, <2>4
    <3>2. PICK n \in j.view[q] : m = new(n)
      BY <3>1
    <3>3. n \in Hands(j)
      BY HandsAre
    <3>4. m = x \/ m = y \/ m = n
      BY <3>2 DEF new
    <3> QED
      BY <2>2, <3>3, <3>4
  <2> QED
    BY <2>1, <2>3, <2>4
<1>22. Local(pc'[p], k)
  <2>1. Shape(k)
    BY <1>8, <1>15, <1>17 DEF Shape
  <2>2. Stage(pc'[p], k)
    BY <1>15, <1>17, <1>18 DEF Stage
  <2>3. \A q, t \in Path : \A m \in k.view[q], n \in k.view[t] : m.id = n.id => q = t /\ m = n
    <3> SUFFICES ASSUME NEW q \in Path, NEW t \in Path, NEW m \in v[q], NEW n \in v[t], m.id = n.id
                 PROVE  q = t /\ m = n
      BY <1>17
    <3>1. PICK m0 \in j.view[q] : m = new(m0)
      BY <1>11
    <3>2. PICK n0 \in j.view[t] : n = new(n0)
      BY <1>11
    <3>3. m0.id = n0.id
      BY <1>4, <1>10, <3>1, <3>2
    <3> QED
      BY <1>3, <3>1, <3>2, <3>3
  <2>4. \A m \in Hands(k) : m.id # 0
    BY <1>3, <1>21
  <2>5. \A op \in Ops(k) : op.kind # "save"
    BY <1>15, <1>20
  <2> QED
    BY <1>17, <1>18, <2>1, <2>2, <2>3, <2>4, <2>5 DEF Local, Held, NoDup
<1>23. Current(p)'
  BY <1>15, <1>18, <1>20 DEF Current, k
<1>24. \A i \in Id, t \in Text : HandSays(k, i, t) \/ <<i, t>> \in tombs' => Claim(i, t)
  BY <1>1, <1>17, <1>21 DEF HandSays, Claim, j
<1>25. \A i : ~Ready(p, i)' /\ ~Adding(p, i)' /\ ~Saving(p, i)'
  BY <1>15, <1>18, <1>20 DEF Ready, HasAdd, Adding, Saving, k
<1>26. \A i : ~Owns(p, i)'
  BY <1>25 DEF Owns
<1>27. Ops(j) = {}
  BY <1>3, OpsAre
<1>28. (\A c : ~Carries(pc[p], job[p], c)) /\ \A i : ~Dropping(p, i)
  BY <1>1, <1>27 DEF Carries, Dropping, j
<1>29. (\A t \in tombs' : t[1] # 0) /\ next' >= next
  BY <1>1 DEF Good, TypeOK, Sized
<1> QED
  BY SMTT(30), <1>1, <1>18, <1>19, <1>22, <1>23, <1>24, <1>25, <1>26, <1>28, <1>29, QuietStep DEF k
\* Facts once each, in their files.
Single(v) == \A q, r \in Path : \A l \in v[q], m \in v[r] : l.id = m.id => q = r /\ l = m
Same(l, m) == l.id = m.id /\ l.text = m.text

\* w has the facts of v where they were, and perhaps c.
Extends(v, w, c) ==
  /\ w \in Store /\ Single(w)
  /\ \A q \in Path : \A m \in w[q] : (\E n \in v[q] : Same(m, n)) \/ Same(m, c)
  /\ \A q \in Path : \A n \in v[q] : \E m \in w[q] : Same(m, n)

\* A line of a file is replaced by one of the same fact.
LEMMA LineReplaced ==
  ASSUME NEW v \in Store, Single(v), NEW q \in Path, NEW l \in v[q], NEW m \in Line, Same(m, l),
         NEW c
  PROVE  Extends(v, [v EXCEPT ![q] = (@ \ {l}) \union {m}], c)
<1> DEFINE w == [v EXCEPT ![q] = (@ \ {l}) \union {m}]
<1>1. /\ w \in [Path -> SUBSET Line] /\ w[q] = (v[q] \ {l}) \union {m}
      /\ \A r \in Path : r # q => w[r] = v[r]
  BY DEF Store
<1> HIDE DEF w
<1>2. \A r \in Path : \A a \in w[r] : \E n \in v[r] : Same(a, n) /\ (a = n \/ (r = q /\ n = l /\ a = m))
  BY <1>1 DEF Same
<1>3. \A r \in Path : \A n \in v[r] : \E a \in w[r] : Same(a, n)
  BY <1>1 DEF Same
<1>4. Single(w)
  <2> SUFFICES ASSUME NEW r \in Path, NEW t \in Path, NEW a \in w[r], NEW b \in w[t], a.id = b.id
               PROVE  r = t /\ a = b
    BY DEF Single
  <2>1. PICK n \in v[r] : Same(a, n) /\ (a = n \/ (r = q /\ n = l /\ a = m))
    BY <1>2
  <2>2. PICK k \in v[t] : Same(b, k) /\ (b = k \/ (t = q /\ k = l /\ b = m))
    BY <1>2
  <2>3. r = t /\ n = k
    BY <2>1, <2>2 DEF Same, Single
  <2>4. l \notin w[q] \/ m = l
    BY <1>1
  <2> QED
    BY <2>1, <2>2, <2>3, <2>4
<1> QED
  BY <1>1, <1>2, <1>3, <1>4, Zenon DEF Extends, Store, w

\* A new fact is added to the first file.
LEMMA LineAdded ==
  ASSUME Sized, NEW v \in Store, NEW w \in Store, NEW c, Extends(v, w, c), NEW m \in Line, Same(m, c),
         \A q \in Path : \A l \in w[q] : l.id # c.id,
         NEW x, x = [w EXCEPT ![1] = w[1] \union {m}]
  PROVE  Extends(v, x, c)
<1>1. 1 \in Path
  BY DEF Path, Sized
<1>2. /\ x \in [Path -> SUBSET Line] /\ x[1] = w[1] \union {m}
      /\ \A r \in Path : r # 1 => x[r] = w[r]
  BY <1>1 DEF Store
<1>3. \A r \in Path : \A a \in x[r] : a \in w[r] \/ (r = 1 /\ a = m)
  BY <1>2
<1>4. \A r \in Path : w[r] \subseteq x[r]
  BY <1>2
<1>5. Single(x)
  <2> SUFFICES ASSUME NEW r \in Path, NEW t \in Path, NEW a \in x[r], NEW b \in x[t], a.id = b.id
               PROVE  r = t /\ a = b
    BY DEF Single
  <2>1. (a \in w[r] /\ b \in w[t]) \/ (r = 1 /\ a = m /\ t = 1 /\ b = m)
    BY <1>3 DEF Same
  <2> QED
    BY <2>1 DEF Extends, Single
<1>6. \A q \in Path : \A a \in x[q] : (\E n \in v[q] : Same(a, n)) \/ Same(a, c)
  BY <1>3 DEF Extends
<1>7. \A q \in Path : \A n \in v[q] : \E a \in x[q] : Same(a, n)
  BY <1>4 DEF Extends
<1> QED
  BY <1>2, <1>5, <1>6, <1>7, Zenon DEF Extends, Store

\* A candidate is added, or not, or added with the fact it contradicts.
LEMMA ConsolidatedView ==
  ASSUME Sized, NEW v \in Store, Single(v), NEW c \in Line,
         \A q \in Path : \A l \in v[q] : l.id # c.id
  PROVE  Extends(v, Consolidated(v, c), c)
<1> DEFINE hits == {a \in At(v) : a[2].sby = 0 /\ (a[2].text = c.text \/ Conflict(a[2], c))}
           a == First(hits)
           x == Resolved(a[2], c)[1]
           y == Resolved(a[2], c)[2]
           old == CHOOSE l \in {x, y} : l.id = a[2].id
           new == CHOOSE l \in {x, y} : l.id = c.id
           w == [v EXCEPT ![a[1]] = (@ \ {a[2]}) \union {old}]
<1>1. Extends(v, v, c)
  BY DEF Extends, Same
<1>2. CASE hits = {}
  <2>1. Consolidated(v, c) = [v EXCEPT ![1] = v[1] \union {c}]
    BY Zenon, <1>2 DEF Consolidated
  <2> QED
    BY Zenon, <1>1, <2>1, LineAdded DEF Same
<1>3. CASE hits # {}
  <2>1. \A b \in At(v) : b \in Path \X Line /\ b[1] \in Path /\ b[2] \in v[b[1]]
    BY AtIs DEF Store
  <2>2. hits \in SUBSET (Path \X Line)
    BY <2>1
  <2>3. \A b, d \in hits : b[1] = d[1] /\ b[2].id = d[2].id => b = d
    BY <2>1 DEF Single
  <2>4. a \in hits
    <3> HIDE DEF hits
    <3> QED
      BY <1>3, <2>2, <2>3, FirstIsOne
  <2>5. a[1] \in Path /\ a[2] \in v[a[1]] /\ a[2] \in Line
    BY <2>1, <2>2, <2>4
  <2>6. CASE a[2].text = c.text
    <3>1. Consolidated(v, c) = v
      BY <1>3, <2>6, Zenon DEF Consolidated
    <3> QED
      BY <1>1, <3>1
  <2>7. CASE a[2].text # c.text
    <3>1. Consolidated(v, c) = [w EXCEPT ![1] = w[1] \union {new}]
      <4>1. Consolidated(v, c) = [w EXCEPT ![1] = @ \union {new}]
        BY <1>3, <2>7, Zenon DEF Consolidated
      <4> HIDE DEF w, new
      <4> QED
        BY <4>1
    <3> HIDE DEF a
    <3>2. /\ x \in Line /\ y \in Line
          /\ \/ Same(x, a[2]) /\ Same(y, c)
             \/ Same(x, c) /\ Same(y, a[2])
      BY <2>5, ResolvedLines DEF Same
    <3> HIDE DEF x, y
    <3>3. a[2].id # c.id
      BY <2>5
    <3>4. old \in Line /\ Same(old, a[2]) /\ new \in Line /\ Same(new, c)
      BY <3>2, <3>3 DEF Same
    <3> HIDE DEF old, new
    <3>5. Extends(v, w, c)
      BY <2>5, <3>4, LineReplaced
    <3>6. /\ w \in Store
          /\ \A q \in Path : \A l \in w[q] : l.id # c.id
      <4>1. /\ w \in Store /\ w[a[1]] = (v[a[1]] \ {a[2]}) \union {old}
            /\ \A r \in Path : r # a[1] => w[r] = v[r]
        BY <2>5, <3>4 DEF Store
      <4> HIDE DEF w
      <4> QED
        BY <2>5, <3>3, <3>4, <4>1 DEF Same
    <3> HIDE DEF w
    <3> QED
      BY <3>1, <3>4, <3>5, <3>6, LineAdded
  <2> QED
    BY <2>6, <2>7
<1> QED
  BY <1>2, <1>3
\* A dream has made what it is going to save.
LEMMA DreamSaveKeeps ==
  ASSUME Sized, Good, Lossless', NEW p \in Proc, NEW t \in Text, NEW weak, DreamSave(p, t, weak)
  PROVE  Good'
<1> DEFINE j == job[p]
           k == job'[p]
           c == NewFact(next, t, IF t \in Code THEN "code" ELSE "tool")
           all == IF Suppressed(c) THEN j.view ELSE Consolidated(j.view, c)
           left == [q \in Path |-> {l \in all[q] : ~Suppressed(l) /\ <<q, l>> \notin weak}]
           gone == {q \in Path : left[q] = {} /\ file[q] # {}}
           order == CHOOSE f \in [1 .. NPaths -> Path] :
                 /\ \A i, n \in 1 .. NPaths : i # n => f[i] # f[n]
                 /\ \A i, n \in 1 .. NPaths : i < n /\ f[n] \in gone => f[i] \in gone
           s == [i \in 1 .. NPaths |-> Put(order[i], left[order[i]])]
           d == UNION {Pairs(all[q] \ left[q]) : q \in Path}
           f == [i \in Id |-> t]
<1>1. /\ TypeOK /\ pc[p] = "dream" /\ file' = file /\ cache' = cache /\ tombs' = tombs
      /\ acts' = acts /\ kept' = kept /\ stale' = stale
      /\ Local("dream", j) /\ j \in Job /\ next <= MaxId /\ next' = next + 1
      /\ pc' = [pc EXCEPT ![p] = "fetch"] /\ breach' \subseteq Breaches /\ Current(p)
  BY Zenon DEF Good, DreamSave, Goto, disk, TypeOK, Blame, Breaches
<1>2. job' = [job EXCEPT ![p] = [NoJob EXCEPT !.ops = s, !.drop = d, !.call = "dream"]]
  BY Zenon DEF DreamSave
<1>3. /\ j.ops = << >> /\ j.new = {} /\ j.call = "dream" /\ ~j.norm
      /\ \A q, r \in Path : \A m \in j.view[q], n \in j.view[r] : m.id = n.id => q = r /\ m = n
      /\ \A m \in Hands(j) : m.id # 0
  BY <1>1, Zenon DEF Local, Stage, Held
<1>4. j.view \in Store /\ \A q \in Path : j.view[q] \subseteq Line
  BY <1>1, JobsAreTyped
<1>5. /\ next \in Id /\ next' \in 1 .. MaxId + 1 /\ next' >= next /\ next < next' /\ next # 0
      /\ next \in 0 .. MaxId /\ next >= next
  BY <1>1 DEF TypeOK, Id, Sized
<1>6. c \in Line /\ c.id = next /\ c.text = t
  BY <1>5, NewLines DEF Trust
<1> HIDE DEF c
<1>7. \A q \in Path : \A l \in j.view[q] :
        l \in Hands(j) /\ l.id \in Id /\ l.id < next /\ l.id # 0 /\ l.id # c.id /\ Claim(l.id, l.text)
  <2> SUFFICES ASSUME NEW q \in Path, NEW l \in j.view[q]
      PROVE  l \in Hands(j) /\ l.id \in Id /\ l.id < next /\ l.id # 0 /\ l.id # c.id /\ Claim(l.id, l.text)
    OBVIOUS
  <2>1. l \in Hands(j)
    BY HandsAre
  <2>2. l.id \in Id /\ l.id < next /\ Claim(l.id, l.text)
    BY <2>1, NumberedBefore
  <2> QED
    BY <1>5, <1>6, <2>1, <2>2, IdsAreNumbers
<1>8. Extends(j.view, all, c)
  <2>1. Single(j.view)
    BY <1>3 DEF Single
  <2>2. Extends(j.view, j.view, c)
    BY <1>4, <2>1 DEF Extends, Same
  <2>3. Extends(j.view, Consolidated(j.view, c), c)
    BY <1>4, <1>6, <1>7, <2>1, ConsolidatedView
  <2> QED
    BY <2>2, <2>3
<1> HIDE DEF all
<1>9. /\ all \in Store /\ Single(all)
      /\ \A q \in Path : \A m \in all[q] :
           m \in Line /\ m.id \in Id /\ m.id # 0
           /\ ((\E n \in j.view[q] : Same(m, n)) \/ (m.id = next /\ m.text = t))
      /\ \A q \in Path : \A n \in j.view[q] : \E m \in all[q] : Same(m, n)
  <2>1. all \in Store /\ Single(all)
    BY <1>8 DEF Extends
  <2>2. \A q \in Path : \A m \in all[q] : (\E n \in j.view[q] : Same(m, n)) \/ (m.id = next /\ m.text = t)
    BY <1>6, <1>8 DEF Extends, Same
  <2>3. \A q \in Path : \A m \in all[q] : m \in Line /\ m.id \in Id /\ m.id # 0
    BY <1>5, <1>7, <2>1, <2>2 DEF Store, Same
  <2> QED
    BY <1>8, <2>1, <2>2, <2>3 DEF Extends
<1>10. \A q \in Path : left[q] \subseteq all[q]
  OBVIOUS
<1> HIDE DEF left
<1>11. \A q \in Path : left[q] \subseteq Line
  BY <1>9, <1>10
<1>12. /\ order \in [1 .. NPaths -> Path]
       /\ \A i, n \in 1 .. NPaths : i # n => order[i] # order[n]
  <2>1. gone \in SUBSET Path
    OBVIOUS
  <2> HIDE DEF gone
  <2>2. \E g \in [1 .. NPaths -> Path] :
           /\ \A i, n \in 1 .. NPaths : i # n => g[i] # g[n]
           /\ \A i, n \in 1 .. NPaths : i < n /\ g[n] \in gone => g[i] \in gone
    BY <2>1, FilesInOrder
  <2> QED
    BY <2>2
<1> HIDE DEF order
<1>13. \A i \in 1 .. NPaths :
         LET o == Put(order[i], left[order[i]]) IN
         o \in Op /\ o.kind = "save" /\ o.q = order[i] /\ o.lines = left[order[i]]
  BY <1>11, <1>12, SaveIsTyped
<1>14. /\ s \in Seq(Op) /\ DOMAIN s = 1 .. NPaths /\ s # << >> /\ 1 \in DOMAIN s
       /\ \A i \in 1 .. NPaths : s[i].kind = "save" /\ s[i].q = order[i] /\ s[i].lines = left[order[i]]
  <2>1. \A i \in 1 .. NPaths :
          /\ s[i] \in Op /\ s[i].kind = "save" /\ s[i].q = order[i] /\ s[i].lines = left[order[i]]
    BY <1>13
  <2>2. s \in [1 .. NPaths -> Op]
    BY <1>13
  <2>3. DOMAIN s = 1 .. NPaths /\ NPaths \in Nat /\ 1 \in 1 .. NPaths
    BY DEF Sized
  <2> HIDE DEF s
  <2>4. s \in Seq(Op)
    BY <2>2, <2>3
  <2>5. s # << >>
    BY <2>3, NoOps
  <2> QED
    BY <2>1, <2>3, <2>4, <2>5
<1> HIDE DEF s
<1>15. \A x : x \in d <=> \E q \in Path : \E m \in all[q] : m \notin left[q] /\ x = <<m.id, m.text>>
  <2>1. \A x : x \in d <=> \E q \in Path : x \in Pairs(all[q] \ left[q])
    BY Zenon
  <2>2. \A q \in Path : \A x : x \in Pairs(all[q] \ left[q]) <=>
          \E m \in all[q] : m \notin left[q] /\ x = <<m.id, m.text>>
    BY <1>9 DEF Pairs
  <2> HIDE DEF d
  <2>3. ASSUME NEW x, x \in d PROVE \E q \in Path : \E m \in all[q] : m \notin left[q] /\ x = <<m.id, m.text>>
    <3>1. PICK q \in Path : x \in Pairs(all[q] \ left[q])
      BY <2>1, <2>3
    <3> QED
      BY <2>2, <3>1
  <2>4. ASSUME NEW x, NEW q \in Path, NEW m \in all[q], m \notin left[q], x = <<m.id, m.text>> PROVE x \in d
    <3>1. x \in Pairs(all[q] \ left[q])
      BY <2>2, <2>4
    <3> QED
      BY <2>1, <3>1
  <2> QED
    BY <2>3, <2>4, Zenon
<1> HIDE DEF d
<1>16. d \subseteq Pair
  BY <1>9, <1>15 DEF Pair, Line
<1>17. /\ k.ops = s /\ k.drop = d /\ k.call = "dream" /\ k.new = {} /\ ~k.norm /\ k.view = NoLines
       /\ k \in Job
  <2>1. k = [NoJob EXCEPT !.ops = s, !.drop = d, !.call = "dream"]
    BY <1>1, <1>2 DEF TypeOK
  <2> QED
    BY ZenonT(60), <1>14, <1>16, <2>1, NothingIsTyped DEF Job
<1>18. /\ job' \in [Proc -> Job] /\ pc' \in [Proc -> Step] /\ Alone(p) /\ pc'[p] = "fetch"
  BY <1>1, <1>2, <1>17 DEF TypeOK, Alone, Step
<1>19. TypeOK'
  BY <1>1, <1>5, <1>14, <1>17, <1>18 DEF TypeOK, Alone
<1> HIDE DEF j, k
<1>20. \A op \in Ops(k) : op.kind = "save" /\ op.q \in Path /\ op.lines = left[op.q]
  BY <1>12, <1>14, <1>17 DEF Ops
<1>21. \A m \in Hands(k) : \E q \in Path : m \in all[q]
  BY <1>10, <1>17, <1>20, HandsAre DEF NoLines
<1>22. Shape(k) /\ Stage(pc'[p], k)
  BY <1>14, <1>17, <1>18 DEF Shape, Stage
<1>23. Held(pc'[p], k)
  <2>1. \A l \in Hands(k) : l.id # 0
    BY <1>9, <1>21
  <2>2. \A op \in Ops(k) : NoDup(op.lines)
    BY <1>9, <1>10, <1>20 DEF NoDup, Single
  <2>3. \A n, m \in DOMAIN k.ops : n # m =>
         /\ k.ops[n].q # k.ops[m].q
         /\ Ids(k.ops[n].lines) \intersect Ids(k.ops[m].lines) = {}
    <3> SUFFICES ASSUME NEW n \in 1 .. NPaths, NEW m \in 1 .. NPaths, n # m
        PROVE  s[n].q # s[m].q /\ \A a \in s[n].lines, b \in s[m].lines : a.id # b.id
      BY <1>14, <1>17 DEF Ids
    <3>1. order[n] # order[m] /\ order[n] \in Path /\ order[m] \in Path
      BY <1>12
    <3>2. s[n].q = order[n] /\ s[m].q = order[m] /\ s[n].lines \subseteq all[order[n]]
          /\ s[m].lines \subseteq all[order[m]]
      BY <1>10, <1>14, <3>1
    <3> QED
      BY <1>9, <3>1, <3>2 DEF Single
  <2> QED
    BY <1>17, <1>18, <2>1, <2>2, <2>3 DEF Held, NoDup, NoLines
<1>24. Local(pc'[p], k)
  BY <1>22, <1>23 DEF Local
<1>25. \A r \in Path \ stale[p] : j.view[r] = file[r]
  BY <1>1 DEF Current, j
<1>26. Current(p)'
  <2>1. ASSUME NEW op \in Ops(k), op.q \notin stale[p], NEW l \in file[op.q]
        PROVE  \/ \E m \in op.lines : m.id = l.id /\ m.text = l.text
               \/ <<l.id, l.text>> \in k.drop
    <3>1. op.q \in Path /\ op.lines = left[op.q] /\ l \in j.view[op.q]
      BY <1>20, <1>25, <2>1
    <3>2. PICK m \in all[op.q] : Same(m, l)
      BY <1>9, <3>1
    <3> QED
      BY <1>15, <1>17, <3>1, <3>2 DEF Same
  <2> QED
    BY <1>1, <1>18, <2>1 DEF Current, k
<1>27. \A q \in Path : \A m \in all[q] : Claim(m.id, m.text) \/ (m.id = next /\ m.text = t)
  BY <1>7, <1>9 DEF Same
<1>28. f[next] = t
  BY <1>5
<1> HIDE DEF f
<1>29. \A i \in Id, u \in Text : HandSays(k, i, u) \/ <<i, u>> \in tombs' =>
         Claim(i, u) \/ (i >= next /\ i < next' /\ u = f[i])
  <2> SUFFICES ASSUME NEW i \in Id, NEW u \in Text, HandSays(k, i, u) \/ <<i, u>> \in tombs'
               PROVE  Claim(i, u) \/ (i >= next /\ i < next' /\ u = f[i])
    OBVIOUS
  <2>1. CASE <<i, u>> \in tombs'
    BY <1>1, <2>1 DEF Claim
  <2>2. CASE \E q \in Path : \E m \in all[q] : m.id = i /\ m.text = u
    BY <1>5, <1>27, <1>28, <2>2
  <2>3. HandSays(k, i, u) => \E q \in Path : \E m \in all[q] : m.id = i /\ m.text = u
    BY <1>15, <1>17, <1>21 DEF HandSays
  <2> QED
    BY <2>1, <2>2, <2>3
<1>30. \A i \in Id : ~Ready(p, i)' /\ ~Adding(p, i)'
  BY <1>18, <1>20 DEF Ready, HasAdd, Adding, k
<1>31. \A i \in Id : Saving(p, i)' => i = next
  <2> SUFFICES ASSUME NEW i \in Id, NEW op \in Ops(k), op.q \notin stale[p], i \in Ids(op.lines),
                      ~Has(op.q, i)
               PROVE  i = next
    BY <1>1 DEF Saving, Has, k
  <2>1. PICK m \in all[op.q] : m.id = i
    BY <1>10, <1>20 DEF Ids
  <2>2. op.q \in Path /\ j.view[op.q] = file[op.q]
    BY <1>20, <1>25
  <2> QED
    BY <1>9, <2>1, <2>2 DEF Same, Has
<1>32. \A i \in Id : Owns(p, i)' => i >= next
  BY <1>5, <1>30, <1>31 DEF Owns
<1>33. ~OnFile(next)
  BY <1>5, NumberedBefore, IdsAreNumbers
<1>34. Ops(j) = {}
  BY <1>3, OpsAre
<1>35. (\A x : ~Carries(pc[p], job[p], x)) /\ \A i : ~Dropping(p, i)
  BY <1>1, <1>34 DEF Carries, Dropping, j
<1>36. \A x \in tombs' : x[1] # 0
  BY <1>1 DEF Good
<1>37. \A i \in Id : (Saving(p, i)' => i >= next) /\ (Adding(p, i)' \/ Saving(p, i)' => ~OnFile(i))
  BY <1>5, <1>30, <1>31, <1>33
<1> QED
  BY SMTT(30), <1>1, <1>5, <1>18, <1>19, <1>24, <1>26, <1>29, <1>30, <1>32, <1>35, <1>36, <1>37, QuietStep DEF k
-----------------------------------------------------------------------------
(* The next operation of a call.                                            *)

\* What is left of a call when its first operation is begun.
LEMMA TailShape ==
  ASSUME NEW j \in Job, NEW k, Shape(j), j.ops # << >>, k.ops = Tail(j.ops), k.call = j.call,
         k.drop = j.drop, ~k.norm
  PROVE  /\ Shape(k)
         /\ \/ j.ops[1].kind = "save" /\ j.call = "dream" /\ \A op \in Ops(j) : op.kind = "save"
            \/ j.ops[1].kind = "add" /\ j.call = "other" /\ Ops(k) = {} /\ Ops(j) = {j.ops[1]}
            \/ /\ j.ops[1].kind = "replace" /\ j.call # "dream"
               /\ \A op \in Ops(j) : op.kind \in {"add", "replace"}
               /\ k.ops # << >> => k.ops[1].kind # "cut"
               /\ \E l \in j.ops[1].lines : l.id = j.ops[1].line.id /\ l.text = j.ops[1].line.text
            \/ /\ j.ops[1].kind = "cut" /\ j.call = "other"
               /\ \/ Ops(k) = {} /\ <<j.ops[1].line.id, j.ops[1].line.text>> \in j.drop
                  \/ \E op \in Op : Ops(k) = {op} /\ op.kind = "add" /\ op.line = j.ops[1].line
                                    /\ k.ops[1] = op
<1> DEFINE s == j.ops
           t == k.ops
<1>1. /\ s \in Seq(Op) /\ j.call \in {"other", "merge", "dream"}
      /\ t \in Seq(Op) /\ s[1] \in Op /\ 1 \in DOMAIN s
      /\ Len(t) = Len(s) - 1 /\ Len(s) \in Nat \ {0}
      /\ \A n \in DOMAIN t : n \in Nat /\ t[n] = s[n + 1] /\ n + 1 \in DOMAIN s
      /\ t = << >> <=> Len(s) = 1
  BY JobsAreTyped, TailOps
<1>2. /\ Ops(k) \subseteq Ops(j) /\ Ops(j) \subseteq Ops(k) \union {s[1]} /\ s[1] \in Ops(j)
  BY <1>1, OpsLeft
<1>3. \A n \in DOMAIN t : t[n].kind = "replace" =>
        \E l \in t[n].lines : l.id = t[n].line.id /\ l.text = t[n].line.text
  BY <1>1 DEF Shape
<1>4. CASE j.call = "dream"
  <2>1. \A n \in DOMAIN s : s[n].kind = "save"
    BY <1>4 DEF Shape
  <2>2. \A n \in DOMAIN t : t[n].kind = "save"
    BY <1>1, <2>1
  <2>3. t # << >> => 1 \in DOMAIN t
    BY <1>1
  <2>4. Shape(k)
    BY <1>4, <2>2, <2>3 DEF Shape
  <2>5. \A op \in Ops(j) : op.kind = "save"
    BY <2>1 DEF Ops
  <2> QED
    BY <1>1, <1>4, <2>1, <2>4, <2>5
<1>5. CASE j.call = "merge"
  <2>1. \A n \in DOMAIN s : s[n].kind = "replace"
    BY <1>5 DEF Shape
  <2>2. \A n \in DOMAIN t : t[n].kind = "replace"
    BY <1>1, <2>1
  <2>3. t # << >> => 1 \in DOMAIN t
    BY <1>1
  <2>4. Shape(k)
    BY <1>3, <1>5, <2>2, <2>3 DEF Shape
  <2>5. \A op \in Ops(j) : op.kind = "replace"
    BY <2>1 DEF Ops
  <2>6. \E l \in s[1].lines : l.id = s[1].line.id /\ l.text = s[1].line.text
    BY <1>1, <2>1 DEF Shape
  <2>7. t # << >> => t[1].kind # "cut"
    BY <2>2, <2>3
  <2> QED
    BY <1>1, <1>5, <2>1, <2>4, <2>5, <2>6, <2>7
<1>6. CASE j.call = "other" /\ Len(s) = 1
  <2>1. t = << >>
    BY <1>1, <1>6
  <2>2. Ops(k) = {} /\ Ops(j) = {s[1]}
    BY <1>2, <2>1, OpsAre
  <2>3. s[1].kind \in {"add", "replace", "cut"}
    BY <1>6, <1>1 DEF Shape
  <2>4. Shape(k)
    BY <1>3, <1>6, <2>1 DEF Shape
  <2>5. s[1].kind = "replace" => \E l \in s[1].lines : l.id = s[1].line.id /\ l.text = s[1].line.text
    BY <1>1 DEF Shape
  <2>6. s[1].kind = "cut" => <<s[1].line.id, s[1].line.text>> \in j.drop
    BY <1>6 DEF Shape
  <2> QED
    BY <1>6, <2>1, <2>2, <2>3, <2>4, <2>5, <2>6
<1>7. CASE j.call = "other" /\ Len(s) # 1
  <2>1. Len(s) = 2 /\ s[1].kind \in {"replace", "cut"} /\ s[2].kind = "add"
    BY <1>1, <1>7 DEF Shape
  <2>2. Len(t) = 1 /\ DOMAIN t = {1} /\ t[1] = s[2] /\ t[1] \in Op
    BY <1>1, <2>1
  <2>3. Ops(k) = {t[1]}
    BY <2>2 DEF Ops
  <2>4. Shape(k)
    BY <1>3, <1>7, <2>1, <2>2 DEF Shape
  <2>5. s[1].kind = "replace" => \E l \in s[1].lines : l.id = s[1].line.id /\ l.text = s[1].line.text
    BY <1>1 DEF Shape
  <2>6. s[1].kind = "cut" => s[2].line = s[1].line
    BY <1>1, <2>1 DEF Shape
  <2> QED
    BY <1>2, <1>7, <2>1, <2>2, <2>3, <2>4, <2>5, <2>6
<1> QED
  BY <1>1, <1>4, <1>5, <1>6, <1>7
\* When every file has been read, a fact is in one line.
LEMMA SettledOnce ==
  ASSUME Sized, Good, Settled, NEW q \in Path, NEW r \in Path, NEW l \in file[q], NEW m \in file[r],
         l.id = m.id
  PROVE  q = r /\ l = m
  BY SettledLines DEF Good, OneLine

\* What an operation on a line writes.
LEMMA FetchedLines ==
  ASSUME Sized, Good, Settled, NEW p \in Proc, pc[p] = "fetch", NEW op, op = job[p].ops[1],
         op \in Ops(job[p]), op.kind # "save", NEW q \in Target(p, op), NEW new, new = Result(p, op, q),
         op.kind = "replace" =>
           op.lines \subseteq file[q] /\ \E l \in op.lines : l.id = op.line.id /\ l.text = op.line.text,
         op.kind = "cut" => op.line \in file[q]
  PROVE  /\ q \in Path /\ new \subseteq Line /\ NoDup(new) /\ op.line.id \in Id
         /\ \A m \in new : m.id \in Id /\ m.id # 0 /\ Claim(m.id, m.text)
         /\ op.kind = "add" => /\ ~OnFile(op.line.id) /\ op.line \in new /\ file[q] \subseteq new
                               /\ \A m \in new : m \in file[q] \/ m = op.line
         /\ op.kind = "replace" =>
              /\ \A l \in file[q] : l.id \in Ids(new) /\ \E m \in new : m.text = l.text
              /\ \A m \in new : Has(q, m.id)
         /\ op.kind = "cut" =>
              /\ \A m \in new : Has(q, m.id) /\ m.id # op.line.id
              /\ \A l \in file[q] : l \in new \/ l = op.line
<1>1. job[p] \in Job /\ op \in Op /\ op.line \in Line /\ op.q \in Path
  BY JobsAreTyped DEF Good, TypeOK
<1>2. op.line \in Hands(job[p])
  BY HandsAre
<1>3. op.line.id \in Id /\ op.line.id # 0 /\ Claim(op.line.id, op.line.text)
  BY <1>2, NumberedBefore, IdsAreNumbers
<1>4. q \in Path
  BY <1>1 DEF Target
<1>5. \A l \in file[q] : l \in Line /\ l.id \in Id /\ l.id # 0 /\ Claim(l.id, l.text)
  BY <1>4, SettledLines
<1>6. \A l, m \in file[q] : l.id = m.id => l = m
  BY <1>4, SettledOnce
<1>7. op.kind \in {"add", "replace", "cut"}
  BY SMTT(30), <1>1 DEF Op
<1>8. CASE op.kind = "add"
  <2>1. new = file[q] \union {op.line}
    BY <1>8 DEF Result
  <2>2. ~OnFile(op.line.id)
    <3>1. Ready(p, op.line.id)
      BY <1>8 DEF Ready, HasAdd, Doomed
    <3> QED
      BY <1>3, <3>1 DEF Good, OwnsNew
  <2>3. \A l \in file[q] : l.id # op.line.id
    BY <1>4, <2>2 DEF OnFile, Has
  <2>4. NoDup(new)
    BY SMTT(30), <1>6, <2>1, <2>3 DEF NoDup
  <2> QED
    BY <1>1, <1>3, <1>4, <1>5, <1>8, <2>1, <2>2, <2>4
<1>9. CASE op.kind = "replace"
  <2>1. new = {l \in file[q] : l.id # op.line.id} \union {op.line}
    BY <1>9 DEF Result
  <2>2. PICK k \in op.lines : k.id = op.line.id /\ k.text = op.line.text
    BY <1>9
  <2>3. k \in file[q]
    BY <1>9, <2>2
  <2>4. NoDup(new)
    BY <1>6, <2>1 DEF NoDup
  <2>5. \A l \in file[q] : l.id \in Ids(new) /\ \E m \in new : m.text = l.text
    <3> SUFFICES ASSUME NEW l \in file[q] PROVE l.id \in Ids(new) /\ \E m \in new : m.text = l.text
      OBVIOUS
    <3>1. CASE l.id # op.line.id
      BY <2>1, <3>1 DEF Ids
    <3>2. CASE l.id = op.line.id
      <4>1. l = k
        BY <1>6, <2>2, <2>3, <3>2
      <4>2. op.line \in new
        BY <2>1
      <4> QED
        BY <2>2, <4>1, <4>2 DEF Ids
    <3> QED
      BY <3>1, <3>2
  <2>6. \A m \in new : Has(q, m.id)
    BY SMTT(30), <2>1, <2>2, <2>3 DEF Has
  <2> QED
    BY Zenon, <1>1, <1>3, <1>4, <1>5, <1>9, <2>1, <2>4, <2>5, <2>6
<1>10. CASE op.kind = "cut"
  <2>1. new = {l \in file[q] : l.id # op.line.id}
    BY <1>10 DEF Result
  <2>2. op.line \in file[q]
    BY <1>10
  <2>3. NoDup(new)
    BY <1>6, <2>1 DEF NoDup
  <2>4. /\ \A m \in new : Has(q, m.id) /\ m.id # op.line.id
        /\ \A l \in file[q] : l \in new \/ l = op.line
    BY <1>6, <2>1, <2>2 DEF Has
  <2> QED
    BY Zenon, <1>3, <1>4, <1>5, <1>10, <2>1, <2>3, <2>4
<1> QED
  BY <1>7, <1>8, <1>9, <1>10

\* A call begins its next operation.
LEMMA FetchKeeps ==
  ASSUME Sized, Good, Lossless', NEW p \in Proc, Fetch(p)
  PROVE  Good'
<1> DEFINE j == job[p]
           k == job'[p]
           op == Head(j.ops)
<1>1. /\ TypeOK /\ pc[p] = "fetch" /\ file' = file /\ cache' = cache /\ tombs' = tombs
      /\ next' = next /\ acts' = acts /\ kept' = kept /\ Local("fetch", j) /\ j \in Job
      /\ (Settled \/ op.kind = "save") /\ Current(p)
  BY DEF Good, Fetch, disk, TypeOK
<1>2. PICK q \in Target(p, op) :
        /\ job' = [job EXCEPT ![p].ops = Tail(@), ![p].q = q, ![p].norm = FALSE,
                              ![p].new = Result(p, op, q)]
        /\ Goto(p, "md")
        /\ stale' = IF op.kind = "save" THEN stale ELSE [stale EXCEPT ![p] = @ \ {q}]
        /\ Blame(\/ op.kind = "replace" /\ op.lines \ file[q] # {}
                 \/ op.kind = "cut" /\ op.line \notin file[q], "outdated")
  BY Zenon DEF Fetch
<1>3. /\ j.ops \in Seq(Op) /\ j.ops # << >> /\ j.new = {} /\ ~j.norm
      /\ \A l \in Hands(j) : l.id # 0
      /\ \A o \in Ops(j) : o.kind = "save" => NoDup(o.lines)
      /\ \A x, y \in Path : \A l \in j.view[x], m \in j.view[y] : l.id = m.id => x = y /\ l = m
      /\ \A n, m \in DOMAIN j.ops :
           n # m /\ j.call = "dream" =>
             /\ j.ops[n].q # j.ops[m].q
             /\ Ids(j.ops[n].lines) \intersect Ids(j.ops[m].lines) = {}
  BY <1>1, JobsAreTyped, Zenon DEF Local, Stage, Held
<1>4. /\ Tail(j.ops) \in Seq(Op) /\ op = j.ops[1] /\ op \in Op /\ 1 \in DOMAIN j.ops
      /\ \A n \in DOMAIN Tail(j.ops) :
           n \in Nat /\ Tail(j.ops)[n] = j.ops[n + 1] /\ n + 1 \in DOMAIN j.ops
  BY <1>3, TailOps
<1> HIDE DEF op
<1>5. op \in Ops(j) /\ op.line \in Line /\ op.lines \subseteq Line /\ op.q \in Path
  BY <1>1, <1>4, JobsAreTyped DEF Ops
<1>6. q \in Path
  BY <1>5 DEF Target
<1> DEFINE new == Result(p, op, q)
<1>7. new \subseteq Line
  <2>1. file[q] \subseteq Line
    BY <1>1, <1>6 DEF TypeOK, Store
  <2>2. op.kind \in {"add", "replace", "cut", "save"}
    BY <1>4 DEF Op
  <2>3. CASE op.kind = "save"
    BY <1>5, <2>3 DEF Result
  <2>4. CASE op.kind = "add"
    BY <1>5, <2>1, <2>4 DEF Result
  <2>5. CASE op.kind = "replace"
    BY <1>5, <2>1, <2>5 DEF Result
  <2>6. CASE op.kind = "cut"
    BY <1>5, <2>1, <2>6 DEF Result
  <2> QED
    BY <2>2, <2>3, <2>4, <2>5, <2>6
<1> HIDE DEF new
<1>8. job' = [job EXCEPT ![p] = [j EXCEPT !.ops = Tail(j.ops), !.q = q, !.norm = FALSE, !.new = new]]
  BY <1>1, <1>2 DEF TypeOK, new
<1>9. /\ k.ops = Tail(j.ops) /\ k.q = q /\ k.new = new /\ ~k.norm /\ k.view = j.view
      /\ k.done = j.done /\ k.call = j.call /\ k.drop = j.drop /\ k \in Job
  BY <1>1, <1>4, <1>6, <1>7, <1>8 DEF TypeOK, Job
<1>10. /\ job' \in [Proc -> Job] /\ pc' \in [Proc -> Step] /\ Alone(p) /\ pc'[p] = "md"
       /\ \A r \in Proc \ {p} : stale'[r] = stale[r]
       /\ stale' \in [Proc -> SUBSET Path]
       /\ stale'[p] = IF op.kind = "save" THEN stale[p] ELSE stale[p] \ {q}
  BY <1>1, <1>2, <1>8, <1>9 DEF TypeOK, Alone, Step, Goto
<1>11. "outdated" \notin breach' /\ breach' \subseteq Breaches
  <2>1. breach' \subseteq Breaches
    BY <1>1, <1>2 DEF TypeOK, Blame, Breaches
  <2> QED
    BY <2>1 DEF Lossless
<1>12. TypeOK'
  BY <1>1, <1>10, <1>11 DEF TypeOK, Alone
<1>13. /\ op.kind = "replace" => op.lines \subseteq file[q]
       /\ op.kind = "cut" => op.line \in file[q]
  BY <1>2, <1>11 DEF Blame
<1> HIDE DEF j, k
<1>14. /\ Ops(k) \subseteq Ops(j) /\ Ops(j) \subseteq Ops(k) \union {op}
       /\ \A o \in Ops(k) : \E n \in DOMAIN j.ops : n # 1 /\ o = j.ops[n]
  <2>1. /\ Ops(k) \subseteq Ops(j) /\ Ops(j) \subseteq Ops(k) \union {j.ops[1]}
        /\ \A o \in Ops(k) : \E n \in DOMAIN j.ops : n # 1 /\ o = j.ops[n]
    BY <1>3, <1>9, OpsLeft
  <2> QED
    BY <1>4, <2>1
<1>15. /\ Shape(k)
       /\ \/ op.kind = "save" /\ j.call = "dream" /\ \A o \in Ops(j) : o.kind = "save"
          \/ op.kind = "add" /\ j.call = "other" /\ Ops(k) = {} /\ Ops(j) = {op}
          \/ /\ op.kind = "replace" /\ j.call # "dream"
             /\ \A o \in Ops(j) : o.kind \in {"add", "replace"}
             /\ k.ops # << >> => k.ops[1].kind # "cut"
             /\ \E l \in op.lines : l.id = op.line.id /\ l.text = op.line.text
          \/ /\ op.kind = "cut" /\ j.call = "other"
             /\ \/ Ops(k) = {} /\ <<op.line.id, op.line.text>> \in j.drop
                \/ \E o \in Op : Ops(k) = {o} /\ o.kind = "add" /\ o.line = op.line /\ k.ops[1] = o
  <2>1. Shape(j) /\ ~k.norm
    BY <1>1, <1>9 DEF Local
  <2>2. /\ Shape(k)
        /\ \/ j.ops[1].kind = "save" /\ j.call = "dream" /\ \A o \in Ops(j) : o.kind = "save"
           \/ j.ops[1].kind = "add" /\ j.call = "other" /\ Ops(k) = {} /\ Ops(j) = {j.ops[1]}
           \/ /\ j.ops[1].kind = "replace" /\ j.call # "dream"
              /\ \A o \in Ops(j) : o.kind \in {"add", "replace"}
              /\ k.ops # << >> => k.ops[1].kind # "cut"
              /\ \E l \in j.ops[1].lines : l.id = j.ops[1].line.id /\ l.text = j.ops[1].line.text
           \/ /\ j.ops[1].kind = "cut" /\ j.call = "other"
              /\ \/ Ops(k) = {} /\ <<j.ops[1].line.id, j.ops[1].line.text>> \in j.drop
                 \/ \E o \in Op : Ops(k) = {o} /\ o.kind = "add" /\ o.line = j.ops[1].line
                                  /\ k.ops[1] = o
    BY <1>1, <1>3, <1>9, <2>1, TailShape
  <2>3. op = j.ops[1]
    BY <1>4
  <2> QED
    BY <2>2, <2>3, Zenon
<1>16. CASE op.kind = "save"
  <2>1. q = op.q /\ new = op.lines
    BY <1>16 DEF Target, Result, new
  <2>2. j.call = "dream" /\ \A o \in Ops(j) : o.kind = "save"
    BY <1>15, <1>16
  <2>3. \A o \in Ops(k) : o.kind = "save" /\ o \in Ops(j)
    BY <1>14, <2>2
  <2>4. \A l \in Hands(k) : l \in Hands(j)
    BY <1>5, <1>9, <1>14, <1>16, <2>1, HandsAre
  <2>5. Stage(pc'[p], k)
    BY <1>9, <1>10 DEF Stage
  <2>6. Held(pc'[p], k)
    <3>1. NoDup(k.new) /\ \A o \in Ops(k) : NoDup(o.lines)
      BY <1>3, <1>5, <1>9, <1>16, <2>1, <2>3
    <3>2. \A n, m \in DOMAIN k.ops :
           n # m =>
             /\ k.ops[n].q # k.ops[m].q
             /\ Ids(k.ops[n].lines) \intersect Ids(k.ops[m].lines) = {}
      <4> SUFFICES ASSUME NEW n \in DOMAIN k.ops, NEW m \in DOMAIN k.ops, n # m
                   PROVE  /\ k.ops[n].q # k.ops[m].q
                          /\ Ids(k.ops[n].lines) \intersect Ids(k.ops[m].lines) = {}
        OBVIOUS
      <4>1. /\ n \in Nat /\ m \in Nat /\ n + 1 # m + 1
            /\ k.ops[n] = j.ops[n + 1] /\ n + 1 \in DOMAIN j.ops
            /\ k.ops[m] = j.ops[m + 1] /\ m + 1 \in DOMAIN j.ops
        BY <1>4, <1>9
      <4> QED
        BY <1>3, <2>2, <4>1
    <3>3. \A o \in Ops(k) : o.q # k.q /\ Ids(o.lines) \intersect Ids(k.new) = {}
      <4> SUFFICES ASSUME NEW o \in Ops(k) PROVE o.q # op.q /\ Ids(o.lines) \intersect Ids(op.lines) = {}
        BY <1>9, <2>1
      <4>1. PICK n \in DOMAIN j.ops : n # 1 /\ o = j.ops[n]
        BY <1>14
      <4> QED
        BY <1>3, <1>4, <2>2, <4>1
    <3>4. \A l \in Hands(k) : l.id # 0
      BY <1>3, <2>4
    <3> QED
      <4>1. \A x, y \in Path : \A l \in k.view[x], m \in k.view[y] : l.id = m.id => x = y /\ l = m
        BY <1>3, <1>9
      <4> QED
        BY <3>1, <3>2, <3>3, <3>4, <4>1 DEF Held
  <2>7. Local(pc'[p], k)
    BY <1>15, <2>5, <2>6 DEF Local
  <2>8. \A o \in Ops(j) : o.q \notin stale[p] =>
          \A l \in file[o.q] : \/ \E m \in o.lines : m.id = l.id /\ m.text = l.text
                               \/ <<l.id, l.text>> \in j.drop
    BY <1>1, <2>2 DEF Current, j, Good
  <2>9. Current(p)'
    <3>1. \A o \in Ops(k) : o.q \notin stale[p] =>
            \A l \in file[o.q] : \/ \E m \in o.lines : m.id = l.id /\ m.text = l.text
                                 \/ <<l.id, l.text>> \in k.drop
      BY <1>9, <2>3, <2>8
    <3>2. q \notin stale[p] => \A l \in file[q] : \/ \E m \in k.new : m.id = l.id /\ m.text = l.text
                                                  \/ <<l.id, l.text>> \in k.drop
      BY <1>5, <1>9, <2>1, <2>8
    <3>3. \A l : <<l.id, l.text>> \in k.drop =>
                   (\E d \in k.drop : d[1] = l.id) /\ \E d \in k.drop : d[2] = l.text
      <4> TAKE l
      <4> HAVE <<l.id, l.text>> \in k.drop
      <4>1. <<l.id, l.text>>[1] = l.id /\ <<l.id, l.text>>[2] = l.text
        OBVIOUS
      <4> QED
        BY <4>1
    <3>4. q \notin stale[p] =>
            \A l \in file[q] :
              /\ l.id \in Ids(k.new) \/ \E d \in k.drop : d[1] = l.id
              /\ (\E m \in k.new : m.text = l.text) \/ \E d \in k.drop : d[2] = l.text
      BY <3>2, <3>3 DEF Ids
    <3> QED
      BY <1>1, <1>9, <1>10, <1>16, <3>1, <3>4 DEF Current, k
  <2>10. \A i \in Id, t \in Text : HandSays(k, i, t) \/ <<i, t>> \in tombs' => Claim(i, t)
    BY <1>1, <1>9, <2>4 DEF HandSays, Claim, j
  <2>11. \A i : ~Ready(p, i)'
    BY <2>3 DEF Ready, HasAdd, k
  <2>12. \A i : (Adding(p, i)' \/ Saving(p, i)') => Saving(p, i)
    <3> TAKE i
    <3>1. CASE Adding(p, i)'
      BY <1>1, <1>5, <1>9, <1>10, <1>16, <2>1, <3>1 DEF Adding, Saving, Has, j, k
    <3>2. CASE Saving(p, i)'
      BY <1>1, <1>10, <1>16, <2>3, <3>2 DEF Saving, Has, j, k
    <3> QED
      BY <3>1, <3>2
  <2>13. \A i : Owns(p, i)' => Owns(p, i)
    BY <1>1, <2>11, <2>12 DEF Owns, OnFile, Has
  <2>14. \A i \in Id : Adding(p, i)' \/ Saving(p, i)' => ~OnFile(i)
    BY <2>12 DEF Good, OwnsNew
  <2>15. \A c : ~Carries(pc[p], job[p], c)
    BY <1>1, <2>2 DEF Carries, j
  <2>16. \A i : ~Dropping(p, i)
    BY <1>1, <2>2 DEF Dropping, j
  <2>17. (\A t \in tombs' : t[1] # 0) /\ next' >= next
    BY <1>1 DEF Good, TypeOK, Sized
  <2> QED
    BY <1>1, <1>10, <1>12, <2>7, <2>9, <2>10, <2>11, <2>12, <2>13, <2>14, <2>15, <2>16, <2>17,
       QuietStep DEF k
<1>17. CASE op.kind # "save"
  <2>1. Settled
    BY <1>1, <1>17
  <2>2. /\ NoDup(new) /\ op.line.id \in Id
        /\ \A m \in new : m.id \in Id /\ m.id # 0 /\ Claim(m.id, m.text)
        /\ op.kind = "add" => /\ ~OnFile(op.line.id) /\ op.line \in new /\ file[q] \subseteq new
                              /\ \A m \in new : m \in file[q] \/ m = op.line
        /\ op.kind = "replace" =>
             /\ \A l \in file[q] : l.id \in Ids(new) /\ \E m \in new : m.text = l.text
             /\ \A m \in new : Has(q, m.id)
        /\ op.kind = "cut" =>
             /\ \A m \in new : Has(q, m.id) /\ m.id # op.line.id
             /\ \A l \in file[q] : l \in new \/ l = op.line
    <3>1. op = job[p].ops[1] /\ op \in Ops(job[p]) /\ new = Result(p, op, q)
      BY <1>4, <1>5 DEF j, new
    <3>2. op.kind = "replace" =>
           op.lines \subseteq file[q] /\ \E l \in op.lines : l.id = op.line.id /\ l.text = op.line.text
      BY <1>13, <1>15
    <3> QED
      <4>1. op.kind = "cut" => op.line \in file[q]
        BY <1>13
      <4>2. pc[p] = "fetch" /\ q \in Target(p, op)
        BY <1>1
      <4>3. op \in Ops(job[p]) /\ op = job[p].ops[1]
        BY <3>1
      <4>4. new = Result(p, op, q)
        BY <3>1
      <4> QED
        BY <1>17, <2>1, <3>2, <4>1, <4>2, <4>3, <4>4, FetchedLines, SMTT(60)
  <2>3. j.call # "dream" /\ \A o \in Ops(k) : o.kind # "save"
    BY <1>14, <1>15, <1>17
  <2>4. \A l \in Hands(k) : l \in Hands(j) \/ l \in new
    BY <1>9, <1>14, HandsAre
  <2>5. Local(pc'[p], k)
    <3>1. Stage(pc'[p], k)
      BY <1>9, <1>10 DEF Stage
    <3>2. \A l \in Hands(k) : l.id # 0
      BY <1>3, <2>2, <2>4
    <3>3. Held(pc'[p], k)
      BY <1>3, <1>9, <2>2, <2>3, <3>2 DEF Held
    <3> QED
      BY <1>15, <3>1, <3>3 DEF Local
  <2>6. Current(p)'
    <3>1. \A l \in file[q] :
         /\ \/ l.id = 0 \/ l.id \in Ids(new)
            \/ \E o \in Ops(k) : o.kind = "add" /\ o.line.id = l.id
            \/ \E d \in k.drop : d[1] = l.id
         /\ \/ \E m \in new : m.text = l.text
            \/ \E o \in Ops(k) : o.kind = "add" /\ o.line.text = l.text
            \/ \E d \in k.drop : d[2] = l.text
      <4>1. CASE op.kind = "add" \/ op.kind = "replace"
        BY <2>2, <4>1 DEF Ids
      <4>2. CASE op.kind = "cut"
        <5> SUFFICES ASSUME NEW l \in file[q]
            PROVE  /\ \/ l.id \in Ids(new)
                      \/ \E o \in Ops(k) : o.kind = "add" /\ o.line.id = l.id
                      \/ \E d \in k.drop : d[1] = l.id
                   /\ \/ \E m \in new : m.text = l.text
                      \/ \E o \in Ops(k) : o.kind = "add" /\ o.line.text = l.text
                      \/ \E d \in k.drop : d[2] = l.text
          OBVIOUS
        <5>1. CASE l \in new
          BY <5>1 DEF Ids
        <5>2. CASE l = op.line
          <6>1. CASE <<op.line.id, op.line.text>> \in j.drop
            <7>1. <<l.id, l.text>> \in k.drop /\ <<l.id, l.text>>[1] = l.id /\ <<l.id, l.text>>[2] = l.text
              BY <1>9, <5>2, <6>1
            <7> QED
              BY <7>1
          <6>2. CASE \E o \in Op : Ops(k) = {o} /\ o.kind = "add" /\ o.line = op.line
            BY <5>2, <6>2
          <6> QED
            BY <1>15, <4>2, <6>1, <6>2
        <5> QED
          BY <2>2, <4>2, <5>1, <5>2
      <4> QED
        BY <1>15, <1>17, <4>1, <4>2
    <3> QED
      BY <1>1, <1>9, <1>10, <2>3, <3>1 DEF Current, k
  <2>7. \A i \in Id, t \in Text : HandSays(k, i, t) \/ <<i, t>> \in tombs' => Claim(i, t)
    BY <1>1, <1>9, <2>2, <2>4 DEF HandSays, Claim, j
  <2>8. \A i : ~Saving(p, i)'
    BY <2>3 DEF Saving, k
  <2>9. \A i \in Id : Ready(p, i)' =>
          \/ Ready(p, i) /\ ~OnFile(i) /\ i \notin Ids(new)
          \/ op.kind = "cut" /\ i = op.line.id /\ Has(q, i) /\ i \notin Ids(new)
    <3> SUFFICES ASSUME NEW i \in Id, Ready(p, i)'
        PROVE  \/ Ready(p, i) /\ ~OnFile(i) /\ i \notin Ids(new)
               \/ op.kind = "cut" /\ i = op.line.id /\ Has(q, i) /\ i \notin Ids(new)
      OBVIOUS
    <3>1. HasAdd(k, i)
      BY DEF Ready, k
    <3>2. CASE op.kind = "replace"
      <4>1. HasAdd(j, i)
        BY <1>14, <3>1 DEF HasAdd
      <4>2. Ready(p, i)
        BY <1>1, <1>4, <3>2, <4>1 DEF Ready, Doomed, j
      <4>3. ~OnFile(i)
        BY <1>1, <4>2 DEF Good, OwnsNew
      <4>4. i \notin Ids(new)
        BY <1>6, <2>2, <3>2, <4>3 DEF Ids, OnFile
      <4> QED
        BY <4>2, <4>3, <4>4
    <3>3. CASE op.kind = "cut"
      <4>1. i = op.line.id
        BY <1>15, <3>1, <3>3 DEF HasAdd
      <4>2. Has(q, i)
        BY <1>13, <3>3, <4>1 DEF Has
      <4> QED
        BY <2>2, <3>3, <4>1, <4>2 DEF Ids
    <3>4. op.kind # "add"
      BY <1>15, <3>1 DEF HasAdd
    <3> QED
      BY <1>15, <1>17, <3>2, <3>3, <3>4
  <2>10. \A i \in Id : Adding(p, i)' => op.kind = "add" /\ i = op.line.id /\ Ready(p, i) /\ ~OnFile(i)
    <3> SUFFICES ASSUME NEW i \in Id, Adding(p, i)'
                 PROVE  op.kind = "add" /\ i = op.line.id /\ Ready(p, i) /\ ~OnFile(i)
      OBVIOUS
    <3>1. i \in Ids(new) /\ ~Has(q, i)
      BY <1>1, <1>9 DEF Adding, Has, k
    <3>2. PICK m \in new : m.id = i
      BY <3>1 DEF Ids
    <3>3. op.kind = "add"
      BY <1>15, <1>17, <2>2, <3>1, <3>2
    <3>4. i = op.line.id
      BY <2>2, <3>1, <3>2, <3>3 DEF Has
    <3>5. Ready(p, i)
      BY <1>1, <1>4, <1>5, <3>3, <3>4 DEF Ready, HasAdd, Doomed, j
    <3> QED
      BY <2>2, <3>3, <3>4, <3>5
  <2>11. \A i \in Id : Owns(p, i)' => Owns(p, i)
    <3>1. \A i : Has(q, i) => OnFile(i)
      BY <1>6 DEF OnFile
    <3>2. \A i : OnFile(i)' <=> OnFile(i)
      BY <1>1 DEF OnFile, Has
    <3> QED
      BY <2>8, <2>9, <2>10, <3>1, <3>2 DEF Owns
  <2>12. \A i \in Id :
           /\ Ready(p, i)' /\ OnFile(i) => pc'[p] = "md" /\ Has(job'[p].q, i)
           /\ Ready(p, i)' /\ pc'[p] = "md" => i \notin Ids(job'[p].new)
           /\ Adding(p, i)' \/ Saving(p, i)' => ~OnFile(i)
    BY <1>9, <1>10, <2>8, <2>9, <2>10 DEF k
  <2>13. \A c : Carries(pc[p], job[p], c) => Carries(pc'[p], job'[p], c)
    <3> SUFFICES ASSUME NEW c, Carries(pc[p], job[p], c) PROVE Carries(pc'[p], job'[p], c)
      OBVIOUS
    <3>1. PICK o \in Ops(j) : o.kind = "add" /\ IsOf(o.line, c)
      BY <1>1 DEF Carries, j
    <3>2. CASE o \in Ops(k)
      BY <3>1, <3>2 DEF Carries, k
    <3>3. CASE o = op
      BY <1>9, <1>10, <2>2, <3>1, <3>3 DEF Carries, k
    <3> QED
      BY <1>14, <3>2, <3>3
  <2>14. \A i : Dropping(p, i) => Dropping(p, i)'
    <3> SUFFICES ASSUME NEW i, Dropping(p, i) PROVE Dropping(p, i)'
      OBVIOUS
    <3>1. PICK o \in Ops(j) : o.kind = "cut" /\ o.line.id = i
      BY <1>1 DEF Dropping, j
    <3>2. ~HasAdd(k, i)
      BY <1>14 DEF Dropping, HasAdd, j
    <3>3. o = op
      BY <1>14, <1>15, <1>17, <3>1
    <3>4. Has(q, i) /\ i \notin Ids(new)
      BY <1>13, <2>2, <3>1, <3>3 DEF Has, Ids
    <3> QED
      BY <1>1, <1>9, <1>10, <3>2, <3>4 DEF Dropping, Has, k
  <2>15. (\A t \in tombs' : t[1] # 0) /\ next' >= next
    BY <1>1 DEF Good, TypeOK, Sized
  <2>16. \A t \in tombs' : Dropping(p, t[1])' \/ (t \in tombs /\ ~Dropping(p, t[1]))
    BY <1>1, <2>14
  <2> QED
    BY <1>1, <1>10, <1>12, <2>5, <2>6, <2>7, <2>8, <2>11, <2>12, <2>13, <2>15, <2>16, QuietStep DEF k
<1> QED
  BY <1>16, <1>17
-----------------------------------------------------------------------------
(* Steps that change a file.                                                *)

\* What another process holds of a file that changes is old, and it owns nothing new.
LEMMA OthersSee ==
  ASSUME Sized, Good, NEW q \in Path, NEW r \in Proc, pc'[r] = pc[r], job'[r] = job[r],
         pc[r] # "idle" => q \in stale'[r] /\ stale[r] \subseteq stale'[r],
         \A x \in Path \ {q} : file'[x] = file[x]
  PROVE  /\ Current(r)'
         /\ \A i : Ready(r, i)' => Ready(r, i) /\ ~(pc[r] = "md" /\ job[r].q = q)
         /\ \A i : Adding(r, i)' => Adding(r, i)
         /\ \A i : Saving(r, i)' => Saving(r, i)
         /\ \A i : Dropping(r, i) => Dropping(r, i)'
         /\ \A i \in Id : Owns(r, i)' => Owns(r, i)
<1>1. CASE pc[r] = "idle"
  <2>1. job[r] = NoJob /\ Ops(job[r]) = {} /\ Ops(job'[r]) = {} /\ \A i : ~Dropping(r, i)
    BY <1>1, IdleHoldsNothing
  <2>2. Current(r)'
    BY <1>1, <2>1 DEF Current
  <2>3. \A i : ~Ready(r, i)' /\ ~Adding(r, i)' /\ ~Saving(r, i)'
    BY <1>1, <2>1 DEF Ready, HasAdd, Adding, Saving
  <2>4. \A i : ~Owns(r, i)'
    BY <2>3 DEF Owns
  <2> QED
    BY <2>1, <2>2, <2>3, <2>4
<1>2. CASE pc[r] # "idle"
  <2>1. q \in stale'[r] /\ stale[r] \subseteq stale'[r]
    BY <1>2
  <2>2. job[r] \in Job /\ job[r].q \in Path /\ \A op \in Ops(job[r]) : op.q \in Path
    BY JobsAreTyped DEF Good, TypeOK
  <2>3. \A x \in Path \ {q} : \A i : Has(x, i)' <=> Has(x, i)
    BY DEF Has
  <2>4. Current(r)'
    <3>1. Current(r)
      BY DEF Good
    <3>2. \A x \in Path \ stale'[r] : file'[x] = file[x] /\ x \notin stale[r]
      BY <2>1
    <3>3. pc'[r] = "cache" /\ job[r].q \notin stale'[r] => file'[job[r].q] = job[r].new
      BY <2>2, <3>1, <3>2 DEF Current
    <3>4. pc'[r] = "dream" => \A x \in Path \ stale'[r] : job[r].view[x] = file'[x]
      BY <3>1, <3>2 DEF Current
    <3>5. \A op \in Ops(job[r]) : op.kind = "save" /\ op.q \notin stale'[r] =>
       \A l \in file'[op.q] : \/ \E m \in op.lines : m.id = l.id /\ m.text = l.text
                              \/ <<l.id, l.text>> \in job[r].drop
      BY <2>2, <3>1, <3>2 DEF Current
    <3>6. pc'[r] = "md" /\ job[r].q \notin stale'[r] =>
       \A l \in file'[job[r].q] :
         /\ \/ l.id = 0 \/ l.id \in Ids(job[r].new)
            \/ \E op \in Ops(job[r]) : op.kind = "add" /\ op.line.id = l.id
            \/ \E d \in job[r].drop : d[1] = l.id
         /\ \/ \E m \in job[r].new : m.text = l.text
            \/ \E op \in Ops(job[r]) : op.kind = "add" /\ op.line.text = l.text
            \/ \E d \in job[r].drop : d[2] = l.text
      BY <2>2, <3>1, <3>2 DEF Current
    <3> QED
      BY <3>3, <3>4, <3>5, <3>6 DEF Current
  <2>5. \A i : Ready(r, i)' => Ready(r, i) /\ ~(pc[r] = "md" /\ job[r].q = q)
    BY <2>1 DEF Ready, Doomed
  <2>6. \A i : Adding(r, i)' => Adding(r, i)
    BY <2>1, <2>2, <2>3 DEF Adding
  <2>7. \A i : Saving(r, i)' => Saving(r, i)
    BY <2>1, <2>2, <2>3 DEF Saving
  <2>8. \A i : Dropping(r, i) => Dropping(r, i)'
    <3> SUFFICES ASSUME NEW i, Dropping(r, i) PROVE Dropping(r, i)'
      OBVIOUS
    <3>1. CASE job[r].q = q
      BY <2>1, <3>1 DEF Dropping
    <3>2. CASE job[r].q # q
      <4>1. Has(job[r].q, i) => Has(job[r].q, i)'
        BY <2>2, <2>3, <3>2
      <4> QED
        BY <2>1, <4>1 DEF Dropping
    <3> QED
      BY <3>1, <3>2
  <2>9. ASSUME NEW i \in Id, Owns(r, i)' PROVE Owns(r, i)
    <3>1. ~OnFile(i)' /\ (Ready(r, i)' \/ Adding(r, i)' \/ Saving(r, i)')
      BY <2>9 DEF Owns
    <3>2. CASE Adding(r, i)' \/ Saving(r, i)'
      BY <2>6, <2>7, <3>2 DEF Good, OwnsNew, Owns
    <3>3. CASE Ready(r, i)'
      <4>1. Ready(r, i) /\ ~(pc[r] = "md" /\ job[r].q = q)
        BY <2>5, <3>3
      <4>2. OnFile(i) => Has(job[r].q, i) /\ job[r].q # q
        BY <4>1 DEF Good, OwnsNew
      <4>3. OnFile(i) => Has(job[r].q, i)'
        BY <2>2, <2>3, <4>2
      <4>4. ~OnFile(i)
        <5>1. Has(job[r].q, i)' => OnFile(i)'
          BY <2>2 DEF OnFile
        <5> QED
          BY <3>1, <4>3, <5>1
      <4> QED
        BY <4>1, <4>4 DEF Owns
    <3> QED
      BY <3>1, <3>2, <3>3
  <2> QED
    BY <2>4, <2>5, <2>6, <2>7, <2>8, <2>9
<1> QED
  BY <1>1, <1>2

\* A step that changes the file q, and by which all but one process, or all, see that q has
\* changed.
LEMMA DiskStep ==
  ASSUME Sized, Good, NEW q \in Path, NEW P \in SUBSET Proc, \A a, b \in Proc \ P : a = b, NEW f,
         \A r \in P : /\ pc'[r] = pc[r] /\ job'[r] = job[r]
                      /\ pc[r] # "idle" => q \in stale'[r] /\ stale[r] \subseteq stale'[r],
         \A x \in Path \ {q} : file'[x] = file[x],
         tombs' = tombs, TypeOK', IsFiniteSet(file'[q]), next' >= next,
         \A r \in Proc \ P : Local(pc'[r], job'[r]) /\ Current(r)',
         \A i \in Id, t \in Text : Claim(i, t)' => Claim(i, t) \/ (i >= next /\ i < next' /\ t = f[i]),
         OneLine', Promised',
         \A i \in Id : OnFile(i)' /\ ~OnFile(i) =>
           /\ \A r \in P : ~Owns(r, i)
           /\ i >= next \/ \E r \in Proc \ P : Owns(r, i),
         \A r \in Proc \ P, i \in Id :
           /\ Owns(r, i)' => Owns(r, i) \/ OnFile(i)
           /\ Saving(r, i)' => Saving(r, i)
           /\ Ready(r, i)' /\ OnFile(i)' => pc'[r] = "md" /\ Has(job[r].q, i)'
           /\ Ready(r, i)' /\ pc'[r] = "md" => i \notin Ids(job'[r].new)
           /\ Adding(r, i)' \/ Saving(r, i)' => ~OnFile(i)'
           /\ (\E t \in tombs : t[1] = i) /\ Dropping(r, i) =>
                Dropping(r, i)' \/ (OnFile(i) /\ ~OnFile(i)' /\ ~Owns(r, i)')
  PROVE  Good'
<1> USE DEF Good
<1>1. \A r \in P :
        /\ Current(r)'
        /\ \A i : Ready(r, i)' => Ready(r, i) /\ ~(pc[r] = "md" /\ job[r].q = q)
        /\ \A i : Adding(r, i)' => Adding(r, i)
        /\ \A i : Saving(r, i)' => Saving(r, i)
        /\ \A i : Dropping(r, i) => Dropping(r, i)'
        /\ \A i \in Id : Owns(r, i)' => Owns(r, i)
  BY OthersSee
<1>2. \A r \in Proc : r \in P \/ r \in Proc \ P
  OBVIOUS
<1>3. \A r \in Proc : Local(pc'[r], job'[r]) /\ Current(r)'
  BY <1>1, <1>2
<1>4. \A x \in Path : IsFiniteSet(file'[x])
  BY DEF Good
<1>5. next \in Nat /\ next' \in Nat /\ \A i \in Id : i \in Nat
  BY IdsAreNumbers DEF TypeOK, Sized
<1>6. Used'
  BY <1>5 DEF Used
<1>7. Agree'
  <2> SUFFICES ASSUME NEW i \in Id, NEW t \in Text, NEW u \in Text, Claim(i, t)', Claim(i, u)'
               PROVE  t = u
    BY DEF Agree
  <2>1. CASE i < next
    BY <1>5, <2>1 DEF Agree
  <2>2. CASE ~(i < next)
    BY <1>5, <2>2 DEF Used
  <2> QED
    BY <2>1, <2>2
<1>8. OneOwner'
  <2> SUFFICES ASSUME NEW a \in Proc, NEW b \in Proc, NEW i \in Id, Owns(a, i)', Owns(b, i)', a # b
               PROVE  FALSE
    BY DEF OneOwner
  <2>1. a \in P \/ b \in P
    OBVIOUS
  <2>2. Owns(a, i) \/ Owns(b, i)
    BY <1>1, <2>1
  <2>3. ~OnFile(i)
    BY <2>2 DEF Owns
  <2>4. Owns(a, i) /\ Owns(b, i)
    BY <1>1, <1>2, <2>3
  <2> QED
    BY <2>4 DEF OneOwner
<1>9. OwnsNew'
  <2> SUFFICES ASSUME NEW r \in Proc, NEW i \in Id
               PROVE  /\ Ready(r, i)' /\ OnFile(i)' => pc'[r] = "md" /\ Has(job[r].q, i)'
                      /\ Ready(r, i)' /\ pc'[r] = "md" => i \notin Ids(job'[r].new)
                      /\ Adding(r, i)' \/ Saving(r, i)' => ~OnFile(i)'
    BY DEF OwnsNew
  <2>1. CASE r \notin P
    BY <2>1
  <2>2. CASE r \in P
    <3>1. Ready(r, i)' => Ready(r, i) /\ ~(pc[r] = "md" /\ job[r].q = q)
      BY <1>1, <2>2
    <3>2. (Adding(r, i)' => Adding(r, i)) /\ (Saving(r, i)' => Saving(r, i))
      BY <1>1, <2>2
    <3>3. Owns(r, i) => ~OnFile(i)'
      BY <2>2 DEF Owns
    <3>4. Adding(r, i)' \/ Saving(r, i)' => ~OnFile(i)'
      <4>1. Adding(r, i) \/ Saving(r, i) => Owns(r, i)
        BY DEF OwnsNew, Owns
      <4> QED
        BY <3>2, <3>3, <4>1
    <3>5. ASSUME Ready(r, i)', OnFile(i)' PROVE pc'[r] = "md" /\ Has(job[r].q, i)'
      <4>1. Ready(r, i) /\ ~(pc[r] = "md" /\ job[r].q = q)
        BY <3>1, <3>5
      <4>2. OnFile(i)
        BY <3>3, <3>5, <4>1 DEF Owns
      <4>3. pc[r] = "md" /\ Has(job[r].q, i) /\ job[r].q # q
        BY <4>1, <4>2 DEF OwnsNew
      <4>4. job[r].q \in Path
        BY JobsAreTyped DEF TypeOK
      <4>5. file'[job[r].q] = file[job[r].q]
        BY <4>3, <4>4
      <4>6. Has(job[r].q, i)'
        BY <2>2, <4>3, <4>5 DEF Has
      <4> QED
        BY <2>2, <4>3, <4>6
    <3>6. Ready(r, i)' /\ pc'[r] = "md" => i \notin Ids(job'[r].new)
      BY <2>2, <3>1 DEF OwnsNew
    <3> QED
      BY <2>2, <3>4, <3>5, <3>6
  <2> QED
    BY <2>1, <2>2
<1>10. Gone'
  <2> SUFFICES ASSUME NEW t \in tombs, OnFile(t[1])' \/ \E r \in Proc : Owns(r, t[1])'
               PROVE  \E r \in Proc : Dropping(r, t[1])'
    BY DEF Gone
  <2>1. t[1] \in Id /\ t[1] < next
    BY NumberedBefore
  <2>2. OnFile(t[1])' => OnFile(t[1]) \/ \E r \in Proc : Owns(r, t[1])
    BY <1>5, <2>1
  <2>3. \A r \in Proc : Owns(r, t[1])' => OnFile(t[1]) \/ Owns(r, t[1])
    BY <1>1, <1>2, <2>1
  <2>4. PICK r \in Proc : Dropping(r, t[1])
    BY <2>2, <2>3 DEF Gone
  <2>5. CASE r \in P
    BY <1>1, <2>4, <2>5
  <2>6. CASE r \notin P
    <3>1. Dropping(r, t[1])' \/ (OnFile(t[1]) /\ ~OnFile(t[1])' /\ ~Owns(r, t[1])')
      BY <2>1, <2>4, <2>6
    <3>2. CASE OnFile(t[1]) /\ ~OnFile(t[1])' /\ ~Owns(r, t[1])'
      <4>1. PICK s \in Proc : Owns(s, t[1])'
        BY <3>2
      <4>2. s \in P
        BY <2>6, <3>2, <4>1
      <4>3. Owns(s, t[1])
        BY <1>1, <2>1, <4>1, <4>2
      <4> QED
        BY <3>2, <4>3 DEF Owns
    <3> QED
      BY <3>1, <3>2
  <2> QED
    BY <2>5, <2>6
<1>11. Unsaved'
  <2> SUFFICES ASSUME NEW t \in tombs, NEW r \in Proc, Saving(r, t[1])' PROVE FALSE
    BY DEF Unsaved
  <2>1. t[1] \in Id
    BY NumberedBefore
  <2>2. Saving(r, t[1])
    BY <1>1, <1>2, <2>1
  <2> QED
    BY <2>2 DEF Unsaved
<1>12. \A t \in tombs' : t[1] # 0
  BY DEF Good
<1> QED
  BY <1>3, <1>4, <1>6, <1>7, <1>8, <1>9, <1>10, <1>11, <1>12
\* The texts of a file's facts, as its cache takes them.
LEMMA CachedTexts ==
  ASSUME Sized, NEW lines \in SUBSET Line, NoDup(lines)
  PROVE  /\ TextsOf(lines) \in Texts
         /\ \A l \in lines : l.id # 0 => TextsOf(lines)[l.id] = l.text
         /\ \A i \in Id : TextsOf(lines)[i] # NoText => \E l \in lines : l.id = i /\ TextsOf(lines)[i] = l.text
<1> DEFINE T == TextsOf(lines)
           one(i) == CHOOSE l \in lines : l.id = i
<1>1. \A i \in Id : T[i] = IF \E l \in lines : l.id = i THEN one(i).text ELSE NoText
  BY DEF TextsOf
<1>2. \A i \in Id : (\E l \in lines : l.id = i) => one(i) \in lines /\ one(i).id = i
  OBVIOUS
<1>3. \A l \in lines : l.id # 0 => l.id \in Id
  BY DEF Line, Id, Sized
<1>4. ASSUME NEW l \in lines, l.id # 0 PROVE T[l.id] = l.text
  <2>1. one(l.id) \in lines /\ one(l.id).id = l.id
    BY <1>2, <1>3, <1>4
  <2>2. one(l.id) = l
    BY <1>4, <2>1 DEF NoDup
  <2> QED
    BY <1>1, <1>3, <1>4, <2>2
<1>5. T = [i \in Id |-> T[i]]
  BY DEF TextsOf
<1> HIDE DEF T, one
<1>6. \A i \in Id : T[i] \in Text \union {NoText}
  BY <1>1, <1>2 DEF Line
<1>7. T \in Texts
  BY <1>5, <1>6 DEF Texts
<1> QED
  BY <1>1, <1>2, <1>4, <1>7 DEF T

\* A human changes lines of a file, and no fact twice.
LEMMA HumanStep ==
  ASSUME Sized, Good, NEW q \in Path, NEW lines \in SUBSET Line, IsFiniteSet(lines), NoDup(lines),
         file' = [file EXCEPT ![q] = lines], UNCHANGED <<cache, tombs, pc, job, next>>, Act,
         stale' = [p \in Proc |-> IF pc[p] = "idle" THEN {} ELSE stale[p] \union {q}],
         kept' \subseteq Pair, breach' \subseteq Breaches,
         \A m \in lines : m.id # 0 =>
           \E l \in file[q] : l.id = m.id /\ (cache[q][m.id] = NoText => l.text = m.text),
         \A k \in kept' \ kept : k[1] = 0,
         \A k \in kept' : (k \in kept /\ \E p \in Proc : Carries(pc[p], job[p], k)) \/ Stored(k)'
  PROVE  Good'
<1>1. /\ TypeOK /\ cache' = cache /\ tombs' = tombs /\ pc' = pc /\ job' = job /\ next' = next
      /\ file'[q] = lines /\ \A x \in Path \ {q} : file'[x] = file[x]
      /\ file' \in Store /\ acts' \in 0 .. MaxActs /\ stale' \in [Proc -> SUBSET Path]
  BY DEF Good, TypeOK, Store, Act, Sized
<1>2. TypeOK'
  BY <1>1 DEF TypeOK
<1>3. \A r \in Proc : pc[r] # "idle" => q \in stale'[r] /\ stale[r] \subseteq stale'[r]
  OBVIOUS
<1>4. \A i \in Id, t \in Text : Claim(i, t)' => Claim(i, t)
  <2> SUFFICES ASSUME NEW i \in Id, NEW t \in Text, Claim(i, t)' PROVE Claim(i, t)
    OBVIOUS
  <2>1. CASE <<i, t>> \in tombs' \/ \E r \in Proc : HandSays(job'[r], i, t)
    BY <1>1, <2>1 DEF Claim
  <2>2. CASE <<i, t>> \in kept'
    BY <2>2, IdsAreNumbers DEF Claim
  <2>3. CASE DiskSays(i, t)'
    <3>1. PICK x \in Path : \/ cache[x][i] = t
                            \/ cache[x][i] = NoText /\ \E l \in file'[x] : l.id = i /\ l.text = t
      BY <1>1, <2>3 DEF DiskSays
    <3>2. DiskSays(i, t)
      <4>1. CASE cache[x][i] = t
        BY <4>1 DEF DiskSays
      <4>2. CASE cache[x][i] = NoText /\ \E l \in file'[x] : l.id = i /\ l.text = t
        <5>1. \E l \in file[x] : l.id = i /\ l.text = t
          BY <1>1, <4>2, IdsAreNumbers
        <5> QED
          BY <4>2, <5>1 DEF DiskSays
      <4> QED
        BY <3>1, <4>1, <4>2
    <3> QED
      BY <3>2 DEF Claim
  <2> QED
    BY <2>1, <2>2, <2>3, Zenon DEF Claim
<1>5. \A m \in lines : m.id # 0 => Has(q, m.id)
  BY DEF Has
<1>6. OneLine'
  <2> SUFFICES ASSUME NEW x \in Path, NEW y \in Path, NEW l \in file'[x], NEW m \in file'[y],
                      l.id = m.id, l.id # 0
               PROVE  x = y /\ l = m
    BY DEF OneLine
  <2>1. PICK l0 \in file[x] : l0.id = l.id /\ (x # q => l0 = l)
    BY <1>1, <1>5 DEF Has
  <2>2. PICK m0 \in file[y] : m0.id = m.id /\ (y # q => m0 = m)
    BY <1>1, <1>5 DEF Has
  <2>3. x = y /\ l0 = m0
    BY <2>1, <2>2 DEF Good, OneLine
  <2> QED
    BY <1>1, <2>1, <2>2, <2>3 DEF NoDup
<1>7. Promised'
  BY <1>1 DEF Promised
<1>8. \A i \in Id : OnFile(i)' => OnFile(i)
  BY <1>1, <1>5, IdsAreNumbers DEF OnFile, Has
<1>9. next' >= next
  BY <1>1 DEF TypeOK, Sized
<1>10. \A i : ~(\E r \in Proc \ Proc : Owns(r, i))
  OBVIOUS
<1> DEFINE P == Proc
<1>11. P \in SUBSET Proc /\ Proc \ P = {}
  OBVIOUS
<1>12. /\ \A a, b \in Proc \ P : a = b
       /\ \A r \in P : /\ pc'[r] = pc[r] /\ job'[r] = job[r]
                       /\ pc[r] # "idle" => q \in stale'[r] /\ stale[r] \subseteq stale'[r]
  BY <1>1, <1>3
<1> HIDE DEF P
<1> QED
  BY <1>1, <1>2, <1>4, <1>6, <1>7, <1>8, <1>9, <1>11, <1>12, DiskStep

\* A human changes the text of a line: that of a fact is in the cache.
LEMMA HumanEditKeeps ==
  ASSUME Sized, Good, Lossless', NEW q \in Path, NEW l \in file[q], NEW t \in Text, HumanEdit(q, l, t)
  PROVE  Good'
<1> DEFINE n == [l EXCEPT !.text = t]
           lines == (file[q] \ {l}) \union {n}
<1>1. /\ TypeOK /\ file[q] \subseteq Line /\ IsFiniteSet(file[q]) /\ kept \subseteq Pair
      /\ l.id # 0 /\ file' = [file EXCEPT ![q] = lines] /\ Act
      /\ kept' = (kept \ {<<0, l.text>>}) \union {<<0, t>>}
      /\ stale' = [p \in Proc |-> IF pc[p] = "idle" THEN {} ELSE stale[p] \union {q}]
      /\ UNCHANGED <<cache, tombs, pc, job, next>> /\ Blame(cache[q][l.id] = NoText, "uncached")
  BY DEF HumanEdit, Good, TypeOK, Store
<1>2. cache[q][l.id] # NoText /\ breach' \subseteq Breaches
  <2>1. breach' \subseteq Breaches
    BY <1>1 DEF Blame, TypeOK, Breaches
  <2>2. "uncached" \notin breach'
    BY DEF Lossless
  <2> QED
    BY <1>1, <2>1, <2>2 DEF Blame
<1>3. n \in Line /\ n.id = l.id /\ n.text = t
  BY <1>1 DEF Line
<1> HIDE DEF n
<1>4. lines \in SUBSET Line
  BY <1>1, <1>3
<1>5. IsFiniteSet(lines)
  BY <1>1, FS_AddElement, FS_RemoveElement
<1>6. NoDup(lines)
  BY <1>3 DEF NoDup, Good, OneLine
<1>7. \A m \in lines : m.id # 0 =>
           \E a \in file[q] : a.id = m.id /\ (cache[q][m.id] = NoText => a.text = m.text)
  BY <1>2, <1>3
<1>8. kept' \subseteq Pair /\ \A k \in kept' \ kept : k[1] = 0
  BY <1>1 DEF Pair, Sized
<1>9. /\ file'[q] = lines /\ \A x \in Path \ {q} : file'[x] = file[x]
  BY <1>1 DEF TypeOK, Store
<1>10. ASSUME NEW k \in kept'
       PROVE  (k \in kept /\ \E p \in Proc : Carries(pc[p], job[p], k)) \/ Stored(k)'
  <2>1. n \in file'[q]
    BY <1>9
  <2>2. CASE k = <<0, t>>
    BY <1>3, <2>1, <2>2 DEF Stored, IsOf
  <2>3. CASE k \in kept /\ k # <<0, l.text>>
    <3>1. k = <<k[1], k[2]>>
      BY <1>1, <2>3 DEF Pair
    <3>2. CASE Stored(k)
      <4>1. PICK x \in Path : \E m \in file[x] : IsOf(m, k)
        BY <3>2 DEF Stored
      <4>2. PICK m \in file[x] : IsOf(m, k)
        BY <4>1
      <4>3. CASE x = q /\ m = l
        <5>1. k[1] # 0
          BY <2>3, <3>1, <4>2, <4>3 DEF IsOf
        <5>2. IsOf(n, k)
          BY <1>3, <4>2, <4>3, <5>1 DEF IsOf
        <5> QED
          BY <2>1, <5>2 DEF Stored
      <4>4. CASE ~(x = q /\ m = l)
        BY <1>9, <4>2, <4>4 DEF Stored
      <4> QED
        BY <4>3, <4>4
    <3> QED
      BY <2>3, <3>2 DEF Good, Promised
  <2> QED
    BY <1>1, <2>2, <2>3
<1> HIDE DEF lines
<1> QED
  BY <1>1, <1>2, <1>4, <1>5, <1>6, <1>7, <1>8, <1>10, HumanStep

\* A human writes a line, without an id.
LEMMA HumanAddKeeps ==
  ASSUME Sized, Good, Lossless', NEW q \in Path, NEW t \in Text, HumanAdd(q, t)
  PROVE  Good'
<1> DEFINE n == NewFact(0, t, "hand")
           lines == file[q] \union {n}
<1>1. /\ TypeOK /\ file[q] \subseteq Line /\ IsFiniteSet(file[q]) /\ kept \subseteq Pair
      /\ file' = [file EXCEPT ![q] = lines] /\ Act /\ kept' = kept \union {<<0, t>>}
      /\ stale' = [p \in Proc |-> IF pc[p] = "idle" THEN {} ELSE stale[p] \union {q}]
      /\ UNCHANGED <<cache, tombs, pc, job, next>> /\ breach' \subseteq Breaches
  BY DEF HumanAdd, Good, TypeOK, Store
<1>2. n \in Line /\ n.id = 0 /\ n.text = t
  BY NewLines DEF Sized, Trust
<1> HIDE DEF n
<1>3. lines \in SUBSET Line /\ IsFiniteSet(lines)
  BY <1>1, <1>2, FS_AddElement
<1>4. NoDup(lines)
  BY <1>2 DEF NoDup, Good, OneLine
<1>5. \A m \in lines : m.id # 0 =>
           \E a \in file[q] : a.id = m.id /\ (cache[q][m.id] = NoText => a.text = m.text)
  BY <1>2
<1>6. kept' \subseteq Pair /\ \A k \in kept' \ kept : k[1] = 0
  BY <1>1 DEF Pair, Sized
<1>7. /\ file'[q] = lines /\ \A x \in Path \ {q} : file'[x] = file[x]
  BY <1>1 DEF TypeOK, Store
<1>8. ASSUME NEW k \in kept'
      PROVE  (k \in kept /\ \E p \in Proc : Carries(pc[p], job[p], k)) \/ Stored(k)'
  <2>1. n \in file'[q]
    BY <1>7
  <2>2. CASE k = <<0, t>>
    BY <1>2, <2>1, <2>2 DEF Stored, IsOf
  <2>3. CASE k \in kept
    <3>1. Stored(k) => Stored(k)'
      BY <1>7 DEF Stored
    <3> QED
      BY <2>3, <3>1 DEF Good, Promised
  <2> QED
    BY <1>1, <2>2, <2>3
<1> HIDE DEF lines
<1> QED
  BY <1>1, <1>3, <1>4, <1>5, <1>6, <1>8, HumanStep

\* A human removes a line.
LEMMA HumanDeleteKeeps ==
  ASSUME Sized, Good, Lossless', NEW q \in Path, NEW l \in file[q], HumanDelete(q, l)
  PROVE  Good'
<1> DEFINE lines == file[q] \ {l}
<1>1. /\ TypeOK /\ file[q] \subseteq Line /\ IsFiniteSet(file[q]) /\ kept \subseteq Pair
      /\ file' = [file EXCEPT ![q] = lines] /\ Act
      /\ kept' = {k \in kept : k[1] # l.id /\ k # <<0, l.text>>}
      /\ stale' = [p \in Proc |-> IF pc[p] = "idle" THEN {} ELSE stale[p] \union {q}]
      /\ UNCHANGED <<cache, tombs, pc, job, next>> /\ breach' \subseteq Breaches
  BY DEF HumanDelete, Good, TypeOK, Store
<1>2. lines \in SUBSET Line /\ IsFiniteSet(lines)
  BY <1>1, FS_RemoveElement
<1>3. NoDup(lines)
  BY DEF NoDup, Good, OneLine
<1>4. \A m \in lines : m.id # 0 =>
           \E a \in file[q] : a.id = m.id /\ (cache[q][m.id] = NoText => a.text = m.text)
  OBVIOUS
<1>5. kept' \subseteq Pair /\ \A k \in kept' \ kept : k[1] = 0
  BY <1>1
<1>6. /\ file'[q] = lines /\ \A x \in Path \ {q} : file'[x] = file[x]
  BY <1>1 DEF TypeOK, Store
<1>7. ASSUME NEW k \in kept'
      PROVE  (k \in kept /\ \E p \in Proc : Carries(pc[p], job[p], k)) \/ Stored(k)'
  <2>1. k \in kept /\ k[1] # l.id /\ k # <<0, l.text>> /\ k = <<k[1], k[2]>>
    BY <1>1 DEF Pair
  <2>2. CASE Stored(k)
    <3>1. PICK x \in Path : \E m \in file[x] : IsOf(m, k)
      BY <2>2 DEF Stored
    <3>2. PICK m \in file[x] : IsOf(m, k)
      BY <3>1
    <3>3. m # l
      BY <2>1, <3>2 DEF IsOf
    <3>4. m \in file'[x]
      BY <1>6, <3>3
    <3> QED
      BY <3>2, <3>4 DEF Stored
  <2> QED
    BY <2>1, <2>2 DEF Good, Promised
<1> HIDE DEF lines
<1> QED
  BY <1>1, <1>2, <1>3, <1>4, <1>5, <1>7, HumanStep

\* A line is added, and the cache taken from the file.
LEMMA AppendRawKeeps ==
  ASSUME Sized, Good, Lossless', NEW p \in Proc, NEW q \in Path, NEW t \in Text, AppendRaw(p, q, t)
  PROVE  Good'
<1> DEFINE n == NewFact(next, t, "tool")
           lines == file[q] \union {n}
           f == [i \in Id |-> t]
<1>0. /\ TypeOK /\ \A x \in Path : IsFiniteSet(file[x])
      /\ next \in 1 .. MaxId + 1 /\ acts \in 0 .. MaxActs /\ kept \subseteq Pair
      /\ file[q] \in SUBSET Line /\ MaxId \in Nat /\ MaxActs \in Nat
  BY DEF Good, TypeOK, Store, Sized
<1>1. /\ next <= MaxId
      /\ stale' = [r \in Proc |-> IF pc[r] = "idle" THEN {} ELSE stale[r] \union {q}]
      /\ file' = [file EXCEPT ![q] = lines] /\ acts < MaxActs /\ acts' = acts + 1
      /\ cache' = [cache EXCEPT ![q] = TextsOf(lines)]
      /\ kept' = kept \union {<<next, t>>} /\ next' = next + 1
      /\ UNCHANGED <<tombs, pc, job>>
      /\ Blame(\E l \in file[q] : Edited(q, l), "absorbed")
  BY Zenon DEF AppendRaw, Act
<1>2. breach' \subseteq Breaches /\ \A l \in file[q] : ~Edited(q, l)
  <2>1. breach' \subseteq Breaches
    BY <1>0, <1>1 DEF Blame, TypeOK, Breaches
  <2>2. "absorbed" \notin breach'
    BY DEF Lossless
  <2> QED
    BY <1>1, <2>1, <2>2 DEF Blame
<1>3. /\ next \in Id /\ next' \in 1 .. MaxId + 1 /\ next' >= next /\ next < next'
      /\ next >= next /\ next \in 0 .. MaxId /\ next # 0
  BY <1>0, <1>1 DEF Id
<1>4. n \in Line /\ n.id = next /\ n.text = t
  BY <1>3, NewLines DEF Trust
<1> HIDE DEF n
<1>5. lines \in SUBSET Line /\ IsFiniteSet(lines)
  BY <1>0, <1>4, FS_AddElement
<1>6. ~OnFile(next)
  BY <1>3, NumberedBefore, IdsAreNumbers
<1>7. \A l \in file[q] : l.id # next
  BY <1>6 DEF OnFile, Has
<1>8. NoDup(lines)
  BY <1>4, <1>7 DEF NoDup, Good, OneLine
<1>9. /\ TextsOf(lines) \in Texts
      /\ \A l \in lines : l.id # 0 => TextsOf(lines)[l.id] = l.text
      /\ \A i \in Id : TextsOf(lines)[i] # NoText => \E l \in lines : l.id = i /\ TextsOf(lines)[i] = l.text
  BY <1>5, <1>8, CachedTexts
<1>10. /\ file'[q] = lines /\ \A x \in Path \ {q} : file'[x] = file[x]
       /\ cache'[q] = TextsOf(lines) /\ \A x \in Path \ {q} : cache'[x] = cache[x]
       /\ file' \in Store /\ cache' \in [Path -> Texts]
  BY <1>0, <1>1, <1>5, <1>9 DEF TypeOK, Store
<1>11. kept' \subseteq Pair
  BY <1>0, <1>1, <1>3 DEF Pair
<1>12. TypeOK'
  <2>1. stale' \in [Proc -> SUBSET Path]
    BY <1>0, <1>1 DEF TypeOK
  <2> QED
    BY <1>0, <1>1, <1>2, <1>3, <1>10, <1>11, <2>1 DEF TypeOK
<1>13. f[next] = t
  BY <1>3
<1> HIDE DEF lines, f
<1>14. \A l \in lines : l \in file[q] \/ l = n
  BY DEF lines
<1>15. \A i \in Id, u \in Text : Claim(i, u)' => Claim(i, u) \/ (i >= next /\ i < next' /\ u = f[i])
  <2> SUFFICES ASSUME NEW i \in Id, NEW u \in Text, Claim(i, u)'
               PROVE  Claim(i, u) \/ (i >= next /\ i < next' /\ u = f[i])
    OBVIOUS
  <2>1. CASE <<i, u>> \in tombs' \/ \E r \in Proc : HandSays(job'[r], i, u)
    BY <1>1, <2>1 DEF Claim
  <2>2. CASE <<i, u>> \in kept'
    <3>1. <<i, u>> \in kept \/ (i = next /\ u = t)
      BY <1>1, <2>2
    <3> QED
      BY <1>3, <1>13, <3>1 DEF Claim
  <2>3. CASE DiskSays(i, u)'
    <3>1. PICK x \in Path : \/ cache'[x][i] = u
                            \/ cache'[x][i] = NoText /\ \E l \in file'[x] : l.id = i /\ l.text = u
      BY <2>3 DEF DiskSays
    <3>2. CASE x # q
      BY <1>10, <3>1, <3>2 DEF DiskSays, Claim
    <3>3. CASE x = q
      <4>1. \E l \in lines : l.id = i /\ l.text = u
        <5>1. CASE cache'[x][i] = u
          BY <1>9, <1>10, <3>3, <5>1 DEF Sized
        <5> QED
          BY <1>10, <3>1, <3>3, <5>1
      <4>2. PICK l \in lines : l.id = i /\ l.text = u
        BY <4>1
      <4>3. CASE l = n
        BY <1>3, <1>4, <1>13, <4>2, <4>3
      <4>4. CASE l \in file[q]
        <5>1. ~Edited(q, l) /\ l.id # 0
          BY <1>2, <4>2, <4>4, IdsAreNumbers
        <5>2. cache[q][i] \in {NoText, u}
          BY <4>2, <5>1 DEF Edited
        <5>3. DiskSays(i, u)
          BY <4>2, <4>4, <5>2 DEF DiskSays
        <5> QED
          BY <5>3 DEF Claim
      <4> QED
        BY <1>14, <4>3, <4>4
    <3> QED
      BY <3>2, <3>3
  <2> QED
    BY <2>1, <2>2, <2>3, Zenon DEF Claim
<1>16. OneLine'
  <2> SUFFICES ASSUME NEW x \in Path, NEW y \in Path, NEW l \in file'[x], NEW m \in file'[y],
                      l.id = m.id, l.id # 0
               PROVE  x = y /\ l = m
    BY DEF OneLine
  <2>1. l \in file[x] \/ (x = q /\ l = n)
    BY <1>10, <1>14
  <2>2. m \in file[y] \/ (y = q /\ m = n)
    BY <1>10, <1>14
  <2>3. \A z \in Path : \A k \in file[z] : k.id # next
    BY <1>6 DEF OnFile, Has
  <2> QED
    BY <1>4, <2>1, <2>2, <2>3 DEF Good, OneLine
<1>17. Promised'
  <2> SUFFICES ASSUME NEW k \in kept' PROVE Stored(k)' \/ \E r \in Proc : Carries(pc'[r], job'[r], k)
    BY DEF Promised
  <2>1. file[q] \subseteq file'[q] /\ n \in file'[q]
    BY <1>10 DEF lines
  <2>2. CASE k \in kept
    <3>1. Stored(k) => Stored(k)'
      BY <1>10, <2>1 DEF Stored
    <3> QED
      BY <1>1, <2>2, <3>1 DEF Good, Promised
  <2>3. CASE k = <<next, t>>
    BY <1>3, <1>4, <2>1, <2>3 DEF Stored, IsOf
  <2> QED
    BY <1>1, <2>2, <2>3
<1>18. \A r \in Proc : ~Owns(r, next)
  BY <1>3, NumberedBefore, IdsAreNumbers
<1>19. \A i \in Id : OnFile(i)' /\ ~OnFile(i) => i = next
  BY <1>4, <1>10, <1>14 DEF OnFile, Has
<1> DEFINE P == Proc
<1>20. P \in SUBSET Proc /\ Proc \ P = {}
  OBVIOUS
<1>21. /\ \A a, b \in Proc \ P : a = b
       /\ \A r \in P : /\ pc'[r] = pc[r] /\ job'[r] = job[r]
                       /\ pc[r] # "idle" => q \in stale'[r] /\ stale[r] \subseteq stale'[r]
  BY <1>1
<1>22. tombs' = tombs /\ IsFiniteSet(file'[q])
  BY <1>1, <1>5, <1>10
<1> HIDE DEF P
<1>23. \A i \in Id : OnFile(i)' /\ ~OnFile(i) =>
         /\ \A r \in P : ~Owns(r, i)
         /\ i >= next \/ \E r \in Proc \ P : Owns(r, i)
  BY <1>3, <1>18, <1>19, <1>20
<1> QED
  BY <1>3, <1>10, <1>12, <1>15, <1>16, <1>17, <1>20, <1>21, <1>22, <1>23, DiskStep
\* Only dreams save whole files.
LEMMA OnlyDreamsSave ==
  ASSUME NEW j \in Job, Shape(j), NEW op \in Ops(j), op.kind = "save"
  PROVE  j.call = "dream"
<1>1. j.ops \in Seq(Op) /\ j.call \in {"other", "merge", "dream"}
  BY JobsAreTyped
<1>2. PICK n \in DOMAIN j.ops : op = j.ops[n]
  BY DEF Ops
<1>3. j.call # "merge"
  BY <1>2 DEF Shape
<1>4. ASSUME j.call = "other" PROVE FALSE
  <2>1. \/ j.ops = << >>
        \/ Len(j.ops) = 1 /\ j.ops[1].kind \in {"add", "replace", "cut"}
        \/ Len(j.ops) = 2 /\ j.ops[1].kind \in {"replace", "cut"} /\ j.ops[2].kind = "add"
    BY <1>4 DEF Shape
  <2>2. j.ops # << >>
    BY <1>2, NoOps
  <2>3. Len(j.ops) = 1 => n = 1
    BY <1>1, <1>2
  <2>4. Len(j.ops) = 2 => n = 1 \/ n = 2
    BY <1>1, <1>2
  <2> QED
    BY <1>2, <2>1, <2>2, <2>3, <2>4
<1> QED
  BY <1>1, <1>3, <1>4

\* A call writes the lines of a file that has not changed since it was read.
LEMMA WriteMdKeeps ==
  ASSUME Sized, Good, Lossless', NEW p \in Proc, WriteMd(p)
  PROVE  Good'
<1> DEFINE j == job[p]
           q == j.q
<1>1. /\ TypeOK /\ pc[p] = "md" /\ Local("md", j) /\ j \in Job /\ Current(p)
      /\ file' = [file EXCEPT ![q] = j.new]
      /\ kept' = (kept \ (j.drop \union {<<0, d[2]>> : d \in j.drop})) \union Pairs(j.new)
      /\ Goto(p, "cache") /\ Outdates(Others(p), q) /\ Blame(q \in stale[p], "overwritten")
      /\ UNCHANGED <<cache, tombs, job, next, acts>>
  BY DEF WriteMd, Good, TypeOK
<1>2. breach' \subseteq Breaches /\ q \notin stale[p]
  <2>1. breach' \subseteq Breaches
    BY <1>1 DEF Blame, TypeOK, Breaches
  <2>2. "overwritten" \notin breach'
    BY DEF Lossless
  <2> QED
    BY <1>1, <2>1, <2>2 DEF Blame
<1> HIDE DEF j
<1>3. /\ q \in Path /\ j.new \subseteq Line /\ NoDup(j.new)
      /\ \A l \in Hands(j) : l.id # 0
      /\ j.call = "dream" => \A op \in Ops(j) : op.q # q /\ Ids(op.lines) \intersect Ids(j.new) = {}
      /\ Shape(j)
  BY <1>1, JobsAreTyped, Zenon DEF Local, Held
<1>4. \A m \in j.new : m \in Hands(j) /\ m.id # 0 /\ m.id \in Id
  BY <1>3, HandsAre DEF Line, Id, Sized
<1>5. IsFiniteSet(j.new)
  BY <1>3, <1>4, FactsAreFew
<1>6. /\ pc' = [pc EXCEPT ![p] = "cache"] /\ pc'[p] = "cache" /\ job' = job
      /\ \A r \in Proc \ {p} : pc'[r] = pc[r]
      /\ stale' = [r \in Proc |-> IF pc'[r] = "idle" THEN {}
                                  ELSE IF r \in Others(p) THEN stale[r] \union {q} ELSE stale[r]]
  BY <1>1 DEF Goto, TypeOK, Outdates
<1>7. stale'[p] = stale[p] /\ \A r \in Proc \ {p} : pc[r] # "idle" => stale'[r] = stale[r] \union {q}
  BY <1>6 DEF Others
<1>8. file'[q] = j.new /\ \A x \in Path \ {q} : file'[x] = file[x]
  BY <1>1, <1>3 DEF TypeOK, Store
<1>9. /\ file' \in Store /\ cache' = cache /\ tombs' = tombs /\ next' = next /\ acts' = acts
      /\ pc' \in [Proc -> Step] /\ stale' \in [Proc -> SUBSET Path]
  BY <1>1, <1>3, <1>6 DEF TypeOK, Store, Step
<1>10. \A x : x \in Pairs(j.new) <=> \E m \in j.new : x = <<m.id, m.text>>
  BY <1>4 DEF Pairs
<1>11. kept' \subseteq Pair /\ kept' \subseteq kept \union Pairs(j.new)
  BY <1>1, <1>3, <1>10 DEF TypeOK, Pair, Line
<1>12. \A r \in Proc : pc'[r] = "fetch" => job'[r].ops # << >>
  BY <1>1, <1>6 DEF TypeOK
<1>13. TypeOK'
  BY <1>1, <1>2, <1>6, <1>9, <1>11, <1>12 DEF TypeOK
<1>14. Local(pc'[p], job'[p])
  <2>1. Stage("cache", j)
    BY <1>1 DEF Local, Stage
  <2>2. Held("cache", j)
    BY <1>1 DEF Local, Held
  <2> QED
    BY <1>3, <1>6, <2>1, <2>2 DEF Local, j
<1>15. \A op \in Ops(j) : op.kind = "save" => op.q # q /\ op.q \in Path /\ j.call = "dream"
  BY <1>1, <1>3, OnlyDreamsSave, JobsAreTyped
<1>16. Current(p)'
  <2>1. \A op \in Ops(j) : op.kind = "save" /\ op.q \notin stale[p] =>
          \A l \in file[op.q] : \/ \E m \in op.lines : m.id = l.id /\ m.text = l.text
                                \/ <<l.id, l.text>> \in j.drop
    BY <1>1 DEF Current, j
  <2>2. \A op \in Ops(j) : op.kind = "save" /\ op.q \notin stale[p] =>
          \A l \in file'[op.q] : \/ \E m \in op.lines : m.id = l.id /\ m.text = l.text
                                 \/ <<l.id, l.text>> \in j.drop
    BY <1>8, <1>15, <2>1
  <2> QED
    BY <1>6, <1>7, <1>8, <2>2 DEF Current, j
<1>17. \A i \in Id, t \in Text : Claim(i, t)' => Claim(i, t)
  <2> SUFFICES ASSUME NEW i \in Id, NEW t \in Text, Claim(i, t)' PROVE Claim(i, t)
    OBVIOUS
  <2>1. CASE <<i, t>> \in tombs' \/ \E r \in Proc : HandSays(job'[r], i, t)
    BY <1>6, <1>9, <2>1 DEF Claim
  <2>2. CASE \E m \in j.new : m.id = i /\ m.text = t
    BY <1>4, <2>2 DEF Claim, HandSays, j
  <2>3. CASE <<i, t>> \in kept'
    <3>1. <<i, t>> \in kept \/ \E m \in j.new : m.id = i /\ m.text = t
      BY <1>10, <1>11, <2>3
    <3> QED
      BY <2>2, <3>1 DEF Claim
  <2>4. CASE DiskSays(i, t)'
    <3>1. PICK x \in Path : \/ cache[x][i] = t
                            \/ cache[x][i] = NoText /\ \E l \in file'[x] : l.id = i /\ l.text = t
      BY <1>9, <2>4 DEF DiskSays
    <3>2. DiskSays(i, t) \/ \E m \in j.new : m.id = i /\ m.text = t
      BY <1>8, <3>1 DEF DiskSays
    <3> QED
      BY <2>2, <3>2 DEF Claim
  <2> QED
    BY <2>1, <2>3, <2>4, Zenon DEF Claim
<1>18. \A i \in Id : i \in Ids(j.new) => Has(q, i) \/ (Adding(p, i) /\ ~OnFile(i))
  BY <1>1, <1>2 DEF Adding, Good, OwnsNew, j
<1>19. OneLine'
  <2> SUFFICES ASSUME NEW x \in Path, NEW y \in Path, NEW l \in file'[x], NEW m \in file'[y],
                      l.id = m.id, l.id # 0
               PROVE  x = y /\ l = m
    BY DEF OneLine
  <2>1. CASE x = q /\ y = q
    BY <1>3, <1>8, <2>1 DEF NoDup
  <2>2. CASE x # q /\ y # q
    BY <1>8, <2>2 DEF Good, OneLine
  <2>3. ASSUME NEW z \in Path \ {q}, NEW a \in file[z], NEW b \in j.new, a.id = b.id PROVE FALSE
    <3>1. b.id \in Ids(j.new) /\ b.id \in Id /\ b.id # 0 /\ OnFile(b.id)
      BY <1>4, <2>3 DEF Ids, OnFile, Has
    <3>2. PICK c \in file[q] : c.id = b.id
      BY <1>18, <3>1 DEF Has
    <3> QED
      BY <1>3, <2>3, <3>1, <3>2 DEF Good, OneLine
  <2> QED
    BY <1>8, <2>1, <2>2, <2>3
<1>20. Promised'
  <2> SUFFICES ASSUME NEW k \in kept' PROVE Stored(k)' \/ \E r \in Proc : Carries(pc'[r], job'[r], k)
    BY DEF Promised
  <2>1. ASSUME NEW m \in j.new, IsOf(m, k) PROVE Stored(k)'
    BY <1>3, <1>8, <2>1 DEF Stored
  <2>2. ASSUME NEW op \in Ops(j), op.kind = "add", IsOf(op.line, k)
        PROVE  \E r \in Proc : Carries(pc'[r], job'[r], k)
    BY <1>6, <2>2 DEF Carries, j
  <2>3. CASE k \in Pairs(j.new)
    BY <1>4, <1>10, <2>1, <2>3 DEF IsOf
  <2>4. CASE k \in kept /\ k \notin j.drop /\ k \notin {<<0, d[2]>> : d \in j.drop}
    <3>1. k = <<k[1], k[2]>> /\ k[1] \in 0 .. MaxId /\ k[2] \in Text
      BY <1>1, <2>4 DEF TypeOK, Pair
    <3>2. CASE Stored(k)
      <4>1. PICK x \in Path : \E l \in file[x] : IsOf(l, k)
        BY <3>2 DEF Stored
      <4>2. PICK l \in file[x] : IsOf(l, k)
        BY <4>1
      <4>3. CASE x # q
        BY <1>8, <4>2, <4>3 DEF Stored
      <4>4. CASE x = q
        <5>1. /\ \/ l.id = 0 \/ l.id \in Ids(j.new)
                 \/ \E op \in Ops(j) : op.kind = "add" /\ op.line.id = l.id
                 \/ \E d \in j.drop : d[1] = l.id
              /\ \/ \E m \in j.new : m.text = l.text
                 \/ \E op \in Ops(j) : op.kind = "add" /\ op.line.text = l.text
                 \/ \E d \in j.drop : d[2] = l.text
          BY <1>1, <1>2, <4>4 DEF Current, j
        <5>2. CASE k[1] = 0
          <6>1. l.text = k[2]
            BY <4>2, <5>2 DEF IsOf
          <6>2. ~\E d \in j.drop : d[2] = l.text
            BY <2>4, <3>1, <5>2, <6>1
          <6> QED
            BY <2>1, <2>2, <5>1, <5>2, <6>1, <6>2 DEF IsOf
        <5>3. CASE k[1] # 0
          <6>1. l.id = k[1] /\ k[1] \in Id
            BY <3>1, <4>2, <5>3 DEF IsOf, Id, Sized
          <6>2. ~\E d \in j.drop : d[1] = l.id
            <7> SUFFICES ASSUME NEW d \in j.drop, d[1] = l.id PROVE FALSE
              OBVIOUS
            <7>1. d = <<d[1], d[2]>> /\ d[2] \in Text
              BY <1>1, JobsAreTyped DEF Pair
            <7>2. Claim(d[1], d[2])
              BY <7>1 DEF Claim, HandSays, j
            <7>3. Claim(k[1], k[2])
              BY <2>4, <3>1 DEF Claim
            <7>4. d[2] = k[2]
              BY <3>1, <6>1, <7>1, <7>2, <7>3 DEF Good, Agree
            <7>5. d = k
              BY <3>1, <6>1, <7>1, <7>4
            <7> QED
              BY <2>4, <7>5
          <6> QED
            BY <2>1, <2>2, <5>1, <5>3, <6>1, <6>2 DEF IsOf, Ids
        <5> QED
          BY <5>2, <5>3
      <4> QED
        BY <4>3, <4>4
    <3>3. CASE \E r \in Proc : Carries(pc[r], job[r], k)
      <4>1. PICK r \in Proc : Carries(pc[r], job[r], k)
        BY <3>3
      <4>2. CASE r # p
        BY <1>6, <4>1, <4>2
      <4>3. CASE r = p
        BY <2>1, <2>2, <4>1, <4>3 DEF Carries, j
      <4> QED
        BY <4>2, <4>3
    <3> QED
      BY <2>4, <3>2, <3>3 DEF Good, Promised
  <2> QED
    BY <1>1, <2>3, <2>4
<1>21. \A i \in Id : OnFile(i)' => OnFile(i) \/ (Adding(p, i) /\ Owns(p, i))
  <2> SUFFICES ASSUME NEW i \in Id, OnFile(i)', ~OnFile(i) PROVE Adding(p, i) /\ Owns(p, i)
    OBVIOUS
  <2>1. i \in Ids(j.new) /\ ~Has(q, i)
    BY <1>3, <1>8 DEF OnFile, Has, Ids
  <2> QED
    BY <1>18, <2>1 DEF Owns
<1>22. \A i : (Ready(p, i)' => Ready(p, i)) /\ ~Adding(p, i)'
  BY <1>2, <1>6 DEF Ready, Doomed, Adding, j
<1>23. \A i : Saving(p, i)' => Saving(p, i)
  <2> SUFFICES ASSUME NEW i, Saving(p, i)' PROVE Saving(p, i)
    OBVIOUS
  <2>1. PICK op \in Ops(j) : op.kind = "save" /\ op.q \notin stale[p] /\ i \in Ids(op.lines) /\ ~Has(op.q, i)'
    BY <1>6, <1>7 DEF Saving, j
  <2>2. ~Has(op.q, i)
    BY <1>8, <1>15, <2>1 DEF Has
  <2> QED
    BY <2>1, <2>2 DEF Saving, j
<1>24. ASSUME NEW i \in Id
       PROVE  /\ Owns(p, i)' => Owns(p, i) \/ OnFile(i)
              /\ Ready(p, i)' /\ OnFile(i)' => FALSE
              /\ Adding(p, i)' \/ Saving(p, i)' => ~OnFile(i)'
              /\ Dropping(p, i) => Dropping(p, i)' \/ (OnFile(i) /\ ~OnFile(i)' /\ ~Owns(p, i)')
  <2>1. Owns(p, i)' => Owns(p, i) \/ OnFile(i)
    BY <1>22, <1>23 DEF Owns
  <2>2. ASSUME NEW x \in Path, Has(x, i), Has(q, i) PROVE x = q
    BY <1>3, <2>2, IdsAreNumbers DEF Has, Good, OneLine
  <2>3. ASSUME Has(q, i), OnFile(i)' PROVE i \in Ids(j.new)
    <3>1. PICK x \in Path : \E l \in file'[x] : l.id = i
      BY <2>3 DEF OnFile, Has
    <3>2. x = q
      BY <1>8, <2>2, <2>3, <3>1 DEF Has
    <3> QED
      BY <1>8, <3>1, <3>2 DEF Ids
  <2>4. ASSUME Ready(p, i)', OnFile(i)' PROVE FALSE
    <3>1. Ready(p, i) /\ i \notin Ids(j.new)
      BY <1>1, <1>22, <2>4 DEF Good, OwnsNew, j
    <3>2. ~Adding(p, i)
      BY <3>1 DEF Adding, j
    <3>3. OnFile(i)
      BY <1>21, <2>4, <3>2
    <3>4. Has(q, i)
      BY <3>1, <3>3 DEF Good, OwnsNew, j
    <3> QED
      BY <2>3, <2>4, <3>1, <3>4
  <2>5. ASSUME Saving(p, i)' PROVE ~OnFile(i)'
    <3>1. Saving(p, i) /\ ~OnFile(i)
      BY <1>23, <2>5 DEF Good, OwnsNew
    <3>2. i \notin Ids(j.new)
      BY <1>3, <1>15, <3>1 DEF Saving, j
    <3> QED
      BY <1>21, <3>1, <3>2 DEF Adding, j
  <2>6. ASSUME Dropping(p, i) PROVE Dropping(p, i)' \/ (OnFile(i) /\ ~OnFile(i)' /\ ~Owns(p, i)')
    <3>1. CASE \E op \in Ops(j) : op.kind = "cut" /\ op.line.id = i
      BY <1>6, <2>6, <3>1 DEF Dropping, j
    <3>2. CASE i \notin Ids(j.new) /\ Has(q, i)
      <4>1. OnFile(i) /\ ~OnFile(i)'
        BY <1>3, <2>3, <3>2 DEF OnFile
      <4>2. ~Ready(p, i)'
        BY <1>22, <2>6 DEF Ready, Dropping
      <4>3. ~Saving(p, i)'
        BY <1>23, <4>1 DEF Good, OwnsNew
      <4> QED
        BY <1>22, <4>1, <4>2, <4>3 DEF Owns
    <3> QED
      BY <1>2, <2>6, <3>1, <3>2 DEF Dropping, j
  <2> QED
    BY <1>22, <2>1, <2>4, <2>5, <2>6
<1> DEFINE P == Proc \ {p}
<1>25. P \in SUBSET Proc /\ \A r : r \in Proc \ P <=> r = p
  OBVIOUS
<1>26. \A r \in P : /\ pc'[r] = pc[r] /\ job'[r] = job[r]
                    /\ pc[r] # "idle" => q \in stale'[r] /\ stale[r] \subseteq stale'[r]
  BY <1>6, <1>7
<1>27. \A i \in Id : OnFile(i)' /\ ~OnFile(i) =>
         /\ \A r \in P : ~Owns(r, i)
         /\ i >= next \/ \E r \in Proc \ P : Owns(r, i)
  BY <1>21, <1>25 DEF Good, OneOwner
<1> HIDE DEF P
<1>28. next' >= next /\ IsFiniteSet(file'[q]) /\ tombs' = tombs
  BY <1>1, <1>5, <1>8 DEF TypeOK, Sized
<1>29. \A r \in Proc \ P : Local(pc'[r], job'[r]) /\ Current(r)'
  BY <1>14, <1>16, <1>25
<1>30. \A r \in Proc \ P, i \in Id :
         /\ Owns(r, i)' => Owns(r, i) \/ OnFile(i)
         /\ Saving(r, i)' => Saving(r, i)
         /\ Ready(r, i)' /\ OnFile(i)' => pc'[r] = "md" /\ Has(job[r].q, i)'
         /\ Ready(r, i)' /\ pc'[r] = "md" => i \notin Ids(job'[r].new)
         /\ Adding(r, i)' \/ Saving(r, i)' => ~OnFile(i)'
         /\ (\E t \in tombs : t[1] = i) /\ Dropping(r, i) =>
              Dropping(r, i)' \/ (OnFile(i) /\ ~OnFile(i)' /\ ~Owns(r, i)')
  BY <1>6, <1>23, <1>24, <1>25
<1> HIDE DEF q
<1> QED
  BY <1>3, <1>8, <1>13, <1>17, <1>19, <1>20, <1>25, <1>26, <1>27, <1>28, <1>29, <1>30, DiskStep

\* A process without a call holds nothing.
LEMMA IdleIsLocal ==
  ASSUME Sized
  PROVE  /\ Local("idle", NoJob) /\ Ops(NoJob) = {}
         /\ \A l : l \notin Hands(NoJob)
         /\ \A i, t : ~HandSays(NoJob, i, t)
<1>1. Ops(NoJob) = {} /\ NoJob.drop = {} /\ NoJob.view = NoLines /\ NoJob.new = {}
  BY NothingIsTyped, OpsAre
<1>2. \A l : l \notin Hands(NoJob)
  BY <1>1, HandsAre DEF NoLines
<1>3. Shape(NoJob) /\ Stage("idle", NoJob)
  BY NothingIsTyped, NoOps DEF Shape, Stage
<1>4. Held("idle", NoJob)
  BY <1>1, <1>2, NothingIsTyped, NoOps DEF Held, NoDup, NoLines
<1>5. \A i, t : ~HandSays(NoJob, i, t)
  BY <1>1, <1>2 DEF HandSays
<1> QED
  BY <1>1, <1>2, <1>3, <1>4, <1>5 DEF Local

\* A call writes the texts of a file into its cache: it has read all that the file says.
LEMMA WriteCacheKeeps ==
  ASSUME Sized, Good, Lossless', NEW p \in Proc, WriteCache(p)
  PROVE  Good'
<1> DEFINE j == job[p]
           k == job'[p]
           q == j.q
           over == ~j.norm /\ j.ops = << >> /\ j.call # "merge"
<1>1. /\ TypeOK /\ pc[p] = "cache" /\ Local("cache", j) /\ j \in Job /\ Current(p)
      /\ \A x \in Path : IsFiniteSet(file[x])
  BY DEF WriteCache, Good, TypeOK
<1>2. /\ cache' = [cache EXCEPT ![q] = TextsOf(j.new)] /\ Outdates(Others(p), q)
      /\ Blame(q \in stale[p] /\ \E l \in file[q] : l \notin j.new, "overwritten")
      /\ UNCHANGED <<file, tombs, next, acts, kept>>
  BY Zenon DEF WriteCache
<1>3. \E then \in {"idle", "fetch", "mark", "merge"} :
        /\ then = "idle" <=> over
        /\ then = "fetch" => ~j.norm /\ j.ops # << >>
        /\ then = "mark" => j.norm
        /\ then = "merge" => ~j.norm /\ j.ops = << >> /\ j.call = "merge"
        /\ Goto(p, then)
        /\ job' = [job EXCEPT ![p] = IF then = "idle" THEN NoJob ELSE [j EXCEPT !.new = {}]]
  <2>1. j.norm \in BOOLEAN
    BY <1>1, JobsAreTyped
  <2> QED
    BY <2>1 DEF WriteCache
<1>4. PICK then \in {"idle", "fetch", "mark", "merge"} :
        /\ then = "idle" <=> over
        /\ then = "fetch" => ~j.norm /\ j.ops # << >>
        /\ then = "mark" => j.norm
        /\ then = "merge" => ~j.norm /\ j.ops = << >> /\ j.call = "merge"
        /\ Goto(p, then)
        /\ job' = [job EXCEPT ![p] = IF then = "idle" THEN NoJob ELSE [j EXCEPT !.new = {}]]
  BY <1>3
<1> HIDE DEF j
<1>5. breach' \subseteq Breaches /\ (q \in stale[p] => file[q] \subseteq j.new)
  <2>1. breach' \subseteq Breaches
    BY <1>1, <1>2 DEF Blame, TypeOK, Breaches
  <2>2. "overwritten" \notin breach'
    BY DEF Lossless
  <2> QED
    BY <1>2, <2>1, <2>2 DEF Blame
<1>6. file[q] \subseteq j.new
  BY <1>1, <1>5 DEF Current, j
<1>7. /\ q \in Path /\ j.new \subseteq Line /\ NoDup(j.new) /\ j.ops \in Seq(Op)
      /\ \A l \in Hands(j) : l.id # 0
      /\ Shape(j)
  BY <1>1, JobsAreTyped, Zenon DEF Local, Held
<1>8. /\ TextsOf(j.new) \in Texts
      /\ \A l \in j.new : l.id # 0 => TextsOf(j.new)[l.id] = l.text
      /\ \A i \in Id : TextsOf(j.new)[i] # NoText => \E l \in j.new : l.id = i /\ TextsOf(j.new)[i] = l.text
  BY <1>7, CachedTexts
<1>9. /\ pc' = [pc EXCEPT ![p] = then] /\ pc'[p] = then
      /\ \A r \in Proc \ {p} : pc'[r] = pc[r] /\ job'[r] = job[r]
      /\ stale' = [r \in Proc |-> IF pc'[r] = "idle" THEN {}
                                  ELSE IF r \in Others(p) THEN stale[r] \union {q} ELSE stale[r]]
  BY <1>1, <1>2, <1>4 DEF Goto, TypeOK, Outdates
<1>10. (then # "idle" => stale'[p] = stale[p])
       /\ \A r \in Proc \ {p} : pc[r] # "idle" => stale'[r] = stale[r] \union {q}
  BY <1>9 DEF Others
<1>11. /\ over => k = NoJob
       /\ ~over => k = [j EXCEPT !.new = {}]
  BY <1>1, <1>4 DEF TypeOK
<1>12. ~over => /\ k.ops = j.ops /\ k.new = {} /\ k.norm = j.norm /\ k.view = j.view /\ k.q = j.q
                /\ k.call = j.call /\ k.drop = j.drop /\ k.done = j.done /\ k \in Job
  BY <1>1, <1>11 DEF Job
<1>13. k \in Job /\ (over => k.ops = << >> /\ k.new = {})
  BY <1>11, <1>12, NothingIsTyped
<1> HIDE DEF k
<1>14. /\ \A x \in Path \ {q} : cache'[x] = cache[x]
       /\ cache'[q] = TextsOf(j.new) /\ cache' \in [Path -> Texts]
  BY <1>1, <1>2, <1>7, <1>8 DEF TypeOK
<1>15. /\ pc' \in [Proc -> Step] /\ stale' \in [Proc -> SUBSET Path] /\ job' \in [Proc -> Job]
  <2>1. job' = [job EXCEPT ![p] = k]
    BY <1>1, <1>4 DEF TypeOK, k
  <2> QED
    BY <1>1, <1>7, <1>9, <1>13, <2>1 DEF TypeOK, Step
<1>16. \A r \in Proc : pc'[r] = "fetch" => job'[r].ops # << >>
  <2>1. pc'[p] = "fetch" => job'[p].ops # << >>
    BY <1>4, <1>9, <1>12 DEF k
  <2> QED
    BY <1>1, <1>9, <2>1 DEF TypeOK
<1>17. TypeOK'
  BY <1>1, <1>2, <1>5, <1>14, <1>15, <1>16 DEF TypeOK
<1>18. Ops(k) = IF over THEN {} ELSE Ops(j)
  BY <1>12, <1>13, OpsAre DEF Ops
<1>19. over => Ops(j) = {}
  BY OpsAre
<1>20. Ops(k) = Ops(j)
  BY <1>18, <1>19
<1>21. Local(then, k)
  <2>1. CASE over
    BY <1>4, <1>11, <2>1, IdleIsLocal
  <2>2. CASE ~over
    <3>1. Shape(k)
      BY SMTT(30), <1>7, <1>12, <2>2 DEF Shape
    <3>2. Stage(then, k)
      BY <1>1, <1>4, <1>12, <2>2 DEF Local, Stage
    <3>3. Held("cache", j)
      BY <1>1 DEF Local
    <3>4. \A l \in Hands(k) : l \in Hands(j)
      BY <1>12, <1>20, <2>2, HandsAre
    <3>5. Held(then, k)
      <4>1. k.ops = j.ops /\ k.new = {} /\ k.view = j.view /\ k.call = j.call /\ then # "md"
        BY <1>12, <2>2
      <4>2. NoDup(k.new)
        BY <4>1 DEF NoDup
      <4> HIDE DEF over
      <4>3. /\ \A l \in Hands(j) : l.id # 0
            /\ \A x, r \in Path : \A l \in j.view[x], m \in j.view[r] : l.id = m.id => x = r /\ l = m
            /\ \A op \in Ops(j) : op.kind = "save" => NoDup(op.lines)
            /\ \A n, m \in DOMAIN j.ops :
                 n # m /\ j.call = "dream" =>
                   /\ j.ops[n].q # j.ops[m].q
                   /\ Ids(j.ops[n].lines) \intersect Ids(j.ops[m].lines) = {}
        BY <3>3, Zenon DEF Held
      <4> QED
        BY <1>20, <3>4, <4>1, <4>2, <4>3, ZenonT(60) DEF Held
    <3> QED
      BY <3>1, <3>2, <3>5 DEF Local
  <2> QED
    BY <2>1, <2>2
<1>22. Current(p)'
  <2>1. \A op \in Ops(j) : op.kind = "save" /\ op.q \notin stale[p] =>
          \A l \in file[op.q] : \/ \E m \in op.lines : m.id = l.id /\ m.text = l.text
                                \/ <<l.id, l.text>> \in j.drop
    BY <1>1 DEF Current, j
  <2>2. \A op \in Ops(k) : op.kind = "save" /\ op.q \notin stale'[p] =>
          \A l \in file'[op.q] : \/ \E m \in op.lines : m.id = l.id /\ m.text = l.text
                                 \/ <<l.id, l.text>> \in k.drop
    BY <1>2, <1>4, <1>10, <1>12, <1>19, <1>20, <2>1
  <2> QED
    BY <1>9, <2>2 DEF Current, k
<1>23. \A i \in Id, t \in Text : HandSays(k, i, t) => HandSays(j, i, t)
  <2>1. \A l \in Hands(k) : l \in Hands(j) \/ k = NoJob
    BY <1>11, <1>12, <1>20, HandsAre
  <2>2. \A i, t : ~HandSays(NoJob, i, t)
    BY IdleIsLocal
  <2> QED
    BY <1>11, <1>12, <2>1, <2>2 DEF HandSays
<1>24. \A i \in Id, t \in Text : Claim(i, t)' => Claim(i, t)
  <2> SUFFICES ASSUME NEW i \in Id, NEW t \in Text, Claim(i, t)' PROVE Claim(i, t)
    OBVIOUS
  <2>1. CASE <<i, t>> \in tombs' \/ <<i, t>> \in kept'
    BY <1>2, <2>1 DEF Claim
  <2>2. CASE \E r \in Proc : HandSays(job'[r], i, t)
    <3>1. PICK r \in Proc : HandSays(job'[r], i, t)
      BY <2>2
    <3>2. HandSays(job[r], i, t)
      BY <1>9, <1>23, <3>1 DEF j, k
    <3> QED
      BY <3>2 DEF Claim
  <2>3. CASE DiskSays(i, t)'
    <3>1. PICK x \in Path : \/ cache'[x][i] = t
                            \/ cache'[x][i] = NoText /\ \E l \in file[x] : l.id = i /\ l.text = t
      BY <1>2, <2>3 DEF DiskSays
    <3>2. CASE x # q
      BY <1>14, <3>1, <3>2 DEF DiskSays, Claim
    <3>3. CASE x = q
      <4>1. \A l \in j.new : l.text \in Text
        BY <1>7 DEF Line
      <4>2. ~(cache'[x][i] = NoText /\ \E l \in file[x] : l.id = i /\ l.text = t)
        BY <1>6, <1>8, <1>14, <3>3, <4>1, IdsAreNumbers DEF Sized
      <4>3. \E l \in j.new : l.id = i /\ l.text = t
        BY <1>8, <1>14, <3>1, <3>3, <4>2 DEF Sized
      <4> QED
        BY <4>3 DEF Claim, HandSays, Hands, j
    <3> QED
      BY <3>2, <3>3
  <2> QED
    BY <2>1, <2>2, <2>3, Zenon DEF Claim
<1>25. OneLine'
  BY <1>2 DEF OneLine, Good
<1>26. Promised'
  <2> SUFFICES ASSUME NEW x \in kept' PROVE Stored(x)' \/ \E r \in Proc : Carries(pc'[r], job'[r], x)
    BY DEF Promised
  <2>1. Stored(x)' <=> Stored(x)
    BY <1>2 DEF Stored
  <2>2. \A r \in Proc : Carries(pc[r], job[r], x) => Carries(pc'[r], job'[r], x)
    BY <1>1, <1>9, <1>20 DEF Carries, j, k
  <2> QED
    BY <1>2, <2>1, <2>2 DEF Good, Promised
<1>27. ASSUME NEW i \in Id
       PROVE  /\ Owns(p, i)' => Owns(p, i) \/ OnFile(i)
              /\ Saving(p, i)' => Saving(p, i)
              /\ ~(Ready(p, i)' /\ OnFile(i)')
              /\ pc'[p] # "md"
              /\ Adding(p, i)' \/ Saving(p, i)' => ~OnFile(i)'
              /\ Dropping(p, i) => Dropping(p, i)'
  <2>1. pc'[p] # "md" /\ (OnFile(i)' <=> OnFile(i)) /\ \A x : Has(x, i)' <=> Has(x, i)
    BY <1>2, <1>9 DEF OnFile, Has
  <2>2. HasAdd(k, i) <=> HasAdd(j, i)
    BY <1>20 DEF HasAdd
  <2>3. HasAdd(k, i) => ~over
    BY <1>19, <1>20 DEF HasAdd
  <2>4. Ready(p, i)' => Ready(p, i)
    BY <1>1, <1>12, <2>2, <2>3 DEF Ready, Doomed, j, k
  <2>5. Saving(p, i)' => Saving(p, i)
    <3>1. ASSUME NEW op \in Ops(k), op.kind = "save", op.q \notin stale'[p], i \in Ids(op.lines),
                 ~Has(op.q, i)'
          PROVE  Saving(p, i)
      <4>1. op \in Ops(job[p]) /\ ~over
        BY <1>19, <1>20, <3>1 DEF j
      <4> QED
        BY <1>4, <1>10, <2>1, <3>1, <4>1 DEF Saving
    <3> QED
      BY <3>1 DEF Saving, k
  <2>6. ~Adding(p, i)'
    BY <2>1 DEF Adding
  <2>7. Ready(p, i) => ~OnFile(i)
    BY <1>1 DEF Good, OwnsNew
  <2>8. Saving(p, i) => ~OnFile(i)
    BY DEF Good, OwnsNew
  <2>9. Dropping(p, i) => Dropping(p, i)'
    BY <1>1, <1>20, <2>2 DEF Dropping, j, k
  <2> QED
    BY <2>1, <2>4, <2>5, <2>6, <2>7, <2>8, <2>9 DEF Owns
<1> DEFINE P == Proc \ {p}
<1>28. P \in SUBSET Proc /\ \A r : r \in Proc \ P <=> r = p
  OBVIOUS
<1>29. \A r \in P : /\ pc'[r] = pc[r] /\ job'[r] = job[r]
                    /\ pc[r] # "idle" => q \in stale'[r] /\ stale[r] \subseteq stale'[r]
  BY <1>9, <1>10
<1>30. \A i : OnFile(i)' <=> OnFile(i)
  BY <1>2 DEF OnFile, Has
<1> HIDE DEF P
<1>31. /\ next' >= next /\ IsFiniteSet(file'[q]) /\ tombs' = tombs
       /\ \A x \in Path \ {q} : file'[x] = file[x]
  BY <1>1, <1>2, <1>7 DEF TypeOK, Sized
<1>32. \A r \in Proc \ P : Local(pc'[r], job'[r]) /\ Current(r)'
  BY <1>9, <1>21, <1>22, <1>28 DEF k
<1>33. \A r \in Proc \ P, i \in Id :
         /\ Owns(r, i)' => Owns(r, i) \/ OnFile(i)
         /\ Saving(r, i)' => Saving(r, i)
         /\ Ready(r, i)' /\ OnFile(i)' => pc'[r] = "md" /\ Has(job[r].q, i)'
         /\ Ready(r, i)' /\ pc'[r] = "md" => i \notin Ids(job'[r].new)
         /\ Adding(r, i)' \/ Saving(r, i)' => ~OnFile(i)'
         /\ (\E t \in tombs : t[1] = i) /\ Dropping(r, i) =>
              Dropping(r, i)' \/ (OnFile(i) /\ ~OnFile(i)' /\ ~Owns(r, i)')
  BY <1>27, <1>28
<1> HIDE DEF q, over
<1> QED
  BY <1>7, <1>17, <1>24, <1>25, <1>26, <1>28, <1>29, <1>30, <1>31, <1>32, <1>33, DiskStep
-----------------------------------------------------------------------------
(* Every reachable state.                                                   *)

\* An empty store keeps its promises.
LEMMA InitKeeps ==
  ASSUME Sized, Init
  PROVE  Good
<1>1. /\ file = NoLines /\ cache = [q \in Path |-> [i \in Id |-> NoText]] /\ tombs = {}
      /\ next = 1 /\ pc = [p \in Proc |-> "idle"] /\ job = [p \in Proc |-> NoJob] /\ acts = 0
      /\ stale = [p \in Proc |-> {}] /\ kept = {} /\ breach = {}
  BY DEF Init
<1>2. \A q \in Path : file[q] = {} /\ \A i \in Id : cache[q][i] = NoText
  BY <1>1 DEF NoLines
<1>3. \A p \in Proc : pc[p] = "idle" /\ job[p] = NoJob /\ Ops(job[p]) = {}
  BY <1>1, IdleIsLocal
<1>4. /\ job \in [Proc -> Job] /\ pc \in [Proc -> Step] /\ stale \in [Proc -> SUBSET Path]
      /\ file \in Store /\ cache \in [Path -> Texts]
  <2>1. job \in [Proc -> Job]
    BY <1>1, NothingIsTyped
  <2>2. pc \in [Proc -> Step] /\ stale \in [Proc -> SUBSET Path]
    BY <1>1 DEF Step
  <2>3. file \in Store
    BY <1>1 DEF NoLines, Store
  <2>4. cache \in [Path -> Texts]
    BY <1>1 DEF Texts
  <2> QED
    BY <2>1, <2>2, <2>3, <2>4
<1>5. next \in 1 .. MaxId + 1 /\ acts \in 0 .. MaxActs
  BY <1>1 DEF Sized
<1>6. TypeOK
  BY <1>1, <1>3, <1>4, <1>5 DEF TypeOK
<1>7. \A q \in Path : IsFiniteSet(file[q])
  BY <1>2, FS_EmptySet
<1>8. \A p \in Proc : Local(pc[p], job[p]) /\ Current(p)
  BY <1>3, IdleIsLocal DEF Current
<1>9. \A i \in Id, t \in Text : ~Claim(i, t)
  <2> SUFFICES ASSUME NEW i \in Id, NEW t \in Text, Claim(i, t) PROVE FALSE
    OBVIOUS
  <2>1. ~DiskSays(i, t)
    BY <1>2 DEF DiskSays, Sized
  <2>2. \A p \in Proc : ~HandSays(job[p], i, t)
    BY <1>3, IdleIsLocal
  <2> QED
    BY <1>1, <2>1, <2>2 DEF Claim
<1>10. Agree /\ Used
  BY <1>9 DEF Agree, Used
<1>11. OneLine /\ \A i : ~OnFile(i)
  BY <1>2 DEF OneLine, OnFile, Has
<1>12. \A p \in Proc : \A i : ~Ready(p, i) /\ ~Adding(p, i) /\ ~Saving(p, i)
  BY <1>3 DEF Ready, HasAdd, Adding, Saving
<1>13. OneOwner /\ OwnsNew
  BY <1>12 DEF OneOwner, OwnsNew, Owns
<1>14. Promised /\ Gone /\ Unsaved /\ \A t \in tombs : t[1] # 0
  BY <1>1 DEF Promised, Gone, Unsaved
<1> QED
  BY <1>6, <1>7, <1>8, <1>10, <1>11, <1>13, <1>14 DEF Good

\* So does a step that changes nothing.
LEMMA RestKeeps ==
  ASSUME Good, UNCHANGED vars
  PROVE  Good'
<1>1. /\ file' = file /\ cache' = cache /\ tombs' = tombs /\ next' = next /\ pc' = pc
      /\ job' = job /\ acts' = acts /\ stale' = stale /\ kept' = kept /\ breach' = breach
  BY DEF vars, disk, work
<1>2. \A i : OnFile(i)' <=> OnFile(i)
  BY <1>1 DEF OnFile, Has
<1>3. \A p \in Proc : \A i :
        /\ Ready(p, i)' <=> Ready(p, i)
        /\ Adding(p, i)' <=> Adding(p, i)
        /\ Saving(p, i)' <=> Saving(p, i)
        /\ Dropping(p, i)' <=> Dropping(p, i)
  BY <1>1, ZenonT(60) DEF Ready, Doomed, Adding, Saving, Dropping, Has
<1>4. \A p \in Proc : \A i : Owns(p, i)' <=> Owns(p, i)
  BY <1>2, <1>3, Zenon DEF Owns
<1>5. TypeOK'
  BY <1>1 DEF TypeOK, Good
<1>6. \A p \in Proc : Local(pc'[p], job'[p]) /\ Current(p)'
  <2>1. \A p \in Proc : Current(p)' <=> Current(p)
    BY <1>1, ZenonT(60) DEF Current
  <2> QED
    BY <1>1, <2>1, Zenon DEF Good
<1>7. \A i, t : Claim(i, t)' <=> Claim(i, t)
  BY <1>1, Zenon DEF Claim, DiskSays
<1>8. Agree' /\ Used'
  BY <1>1, <1>7, Zenon DEF Agree, Used, Good
<1>9. OneLine' /\ Promised' /\ (\A t \in tombs' : t[1] # 0) /\ \A q \in Path : IsFiniteSet(file'[q])
  BY <1>1, Zenon DEF OneLine, Promised, Stored, Good
<1>10. OneOwner'
  BY <1>4 DEF OneOwner, Good
<1>11. OwnsNew'
  BY <1>1, <1>2, <1>3 DEF OwnsNew, Has, Good
<1>12. Gone' /\ Unsaved'
  BY <1>1, <1>2, <1>3, <1>4 DEF Gone, Unsaved, Good
<1> QED
  BY <1>5, <1>6, <1>8, <1>9, <1>10, <1>11, <1>12, Zenon DEF Good

\* The conditions of the store are inductive.
LEMMA StepKeeps ==
  ASSUME Sized, Good, Lossless', Next
  PROVE  Good'
<1>1. ASSUME Humans PROVE Good'
  <2>1. PICK q \in Path :
          \/ \E l \in file[q] : HumanDelete(q, l) \/ \E t \in Text : HumanEdit(q, l, t)
          \/ \E t \in Text : HumanAdd(q, t)
    BY <1>1 DEF Humans
  <2> QED
    BY <2>1, HumanDeleteKeeps, HumanEditKeeps, HumanAddKeeps
<1>2. ASSUME NEW p \in Proc, Calls(p) PROVE Good'
  <2>1. CASE \E q \in Path, t \in Text : AddFact(p, q, t) \/ AppendRaw(p, q, t)
    BY <2>1, AddFactKeeps, AppendRawKeeps
  <2>2. CASE MergeAll(p) \/ DreamLoad(p)
    BY <2>2, MergeAllKeeps
  <2>3. CASE \E q \in Path : \E l \in file[q] :
               \/ Forget(p, q, l)
               \/ AddAgain(p, q, l, "hand")
               \/ \E t \in Text : EditFact(p, q, l, t)
               \/ \E r \in Path : Move(p, q, l, r)
    <3>1. PICK q \in Path : \E l \in file[q] :
               \/ Forget(p, q, l)
               \/ AddAgain(p, q, l, "hand")
               \/ \E t \in Text : EditFact(p, q, l, t)
               \/ \E r \in Path : Move(p, q, l, r)
      BY <2>3
    <3>2. PICK l \in file[q] :
               \/ Forget(p, q, l)
               \/ AddAgain(p, q, l, "hand")
               \/ \E t \in Text : EditFact(p, q, l, t)
               \/ \E r \in Path : Move(p, q, l, r)
      BY <3>1
    <3> QED
      BY <3>2, ForgetKeeps, AddAgainKeeps, EditFactKeeps, MoveKeeps
  <2> QED
    BY <1>2, <2>1, <2>2, <2>3 DEF Calls
<1>3. ASSUME NEW p \in Proc, Steps(p) PROVE Good'
  <2>1. CASE \E q \in Path : Load(p, q)
    BY <2>1, LoadKeeps
  <2>2. CASE Fetch(p) \/ FetchNothing(p) \/ WriteMd(p) \/ WriteCache(p) \/ Mark(p)
    BY <2>2, FetchKeeps, FetchNothingKeeps, WriteMdKeeps, WriteCacheKeeps, MarkKeeps
  <2>3. CASE MergePair(p) \/ MergeDone(p) \/ Crash(p)
    BY <2>3, MergePairKeeps, MergeDoneKeeps, CrashKeeps
  <2>4. CASE \E t \in Text : \E weak : DreamSave(p, t, weak)
    BY <2>4, DreamSaveKeeps
  <2> QED
    BY <1>3, <2>1, <2>2, <2>3, <2>4, Zenon DEF Steps
<1> QED
  BY <1>1, <1>2, <1>3 DEF Next

LEMMA Inductive ==
  ASSUME Inv, [Next]_vars
  PROVE  Inv'
<1>1. Sized /\ Sized'
  BY DEF Inv, Sized
<1>2. SUFFICES ASSUME Lossless' PROVE Good'
  BY <1>1 DEF Inv
<1>3. CASE Next
  <2>1. Lossless
    BY <1>2, <1>3, BreachesStay
  <2> QED
    BY <1>1, <1>2, <1>3, <2>1, StepKeeps DEF Inv
<1>4. CASE UNCHANGED vars
  <2>1. Lossless
    BY <1>2, <1>4 DEF Lossless, vars
  <2> QED
    BY <1>4, <2>1, RestKeeps DEF Inv
<1> QED
  BY <1>3, <1>4

\* What the store keeps, in every reachable state of every instance.
THEOREM StoreInvariant == Sized /\ Spec => []Inv
<1>1. Sized /\ Init => Inv
  BY InitKeeps DEF Inv
<1>2. Inv /\ [Next]_vars => Inv'
  BY Inductive
<1> QED
  BY <1>1, <1>2, PTL DEF Spec
-----------------------------------------------------------------------------
(* The properties.                                                          *)

\* What was stored is in a file, remembered by a cache, or in the hands of a writer
\* (memory.py:370, 420, 582, 724).
LEMMA KeptFacts ==
  ASSUME Inv
  PROVE  FactsKept
<1> SUFFICES ASSUME Lossless, NEW k \in kept PROVE OnDisk(k) \/ InTransit(k)
  BY DEF FactsKept
<1>1. Sized /\ Good /\ TypeOK
  BY DEF Inv, Good
<1>2. k = <<k[1], k[2]>> /\ k[1] \in 0 .. MaxId /\ k[2] \in Text /\ (k[1] # 0 => k[1] \in Id)
  BY <1>1 DEF TypeOK, Pair, Id, Sized
<1>3. \A t \in Text : k[1] # 0 /\ Claim(k[1], t) => t = k[2]
  <2>1. Claim(k[1], k[2])
    BY <1>2 DEF Claim
  <2> QED
    BY <1>1, <1>2, <2>1 DEF Good, Agree
<1>4. CASE Stored(k)
  <2>1. PICK q \in Path : \E l \in file[q] : IsOf(l, k)
    BY <1>4 DEF Stored
  <2>2. PICK l \in file[q] : IsOf(l, k)
    BY <2>1
  <2>3. l \in Line /\ l.text \in Text
    BY <1>1 DEF TypeOK, Store, Line
  <2>4. CASE k[1] = 0
    BY <2>2, <2>4 DEF IsOf, OnDisk, Says
  <2>5. CASE k[1] # 0 /\ cache[q][k[1]] = NoText
    <3>1. l.id = k[1]
      BY <2>2, <2>5 DEF IsOf
    <3>2. Claim(k[1], l.text)
      BY <2>5, <3>1 DEF Claim, DiskSays
    <3>3. l.text = k[2]
      BY <1>3, <2>3, <2>5, <3>2
    <3> QED
      BY <3>1, <3>3 DEF OnDisk, Says
  <2>6. CASE k[1] # 0 /\ cache[q][k[1]] # NoText
    <3>1. l.id = k[1]
      BY <2>2, <2>6 DEF IsOf
    <3>2. cache[q][k[1]] \in Text
      BY <1>1, <1>2, <2>6 DEF TypeOK, Texts
    <3>3. Claim(k[1], cache[q][k[1]])
      BY DEF Claim, DiskSays
    <3>4. cache[q][k[1]] = k[2]
      BY <1>3, <2>6, <3>2, <3>3
    <3> DEFINE m == [l EXCEPT !.text = cache[q][l.id]]
    <3>5. m \in Remembered(q)
      BY <2>6, <3>1 DEF Remembered
    <3>6. m.text = k[2] /\ m.id = k[1]
      BY <2>3, <3>1, <3>4 DEF Line
    <3> HIDE DEF m
    <3>7. Says(Remembered(q), k)
      BY <3>5, <3>6 DEF Says
    <3> QED
      BY <2>6, <3>7 DEF OnDisk
  <2> QED
    BY <2>4, <2>5, <2>6
<1>5. CASE \E p \in Proc : Carries(pc[p], job[p], k)
  <2>1. PICK p \in Proc : Carries(pc[p], job[p], k)
    BY <1>5
  <2>2. job[p] \in Job
    BY <1>1 DEF TypeOK
  <2>3. ASSUME NEW l \in Hands(job[p]), IsOf(l, k) PROVE l.text = k[2] /\ k[1] \in {0, l.id}
    <3>1. l.text \in Text
      BY <2>2, JobsAreTyped DEF Line
    <3>2. CASE k[1] = 0
      BY <2>3, <3>2 DEF IsOf
    <3>3. CASE k[1] # 0
      <4>1. l.id = k[1]
        BY <2>3, <3>3 DEF IsOf
      <4>2. Claim(k[1], l.text)
        BY <4>1 DEF Claim, HandSays
      <4> QED
        BY <1>3, <3>1, <3>3, <4>1, <4>2
    <3> QED
      BY <3>2, <3>3
  <2>4. CASE \E op \in Ops(job[p]) : op.kind = "add" /\ IsOf(op.line, k)
    <3>1. PICK op \in Ops(job[p]) : op.kind = "add" /\ IsOf(op.line, k)
      BY <2>4
    <3>2. PICK n \in DOMAIN job[p].ops : op = job[p].ops[n]
      BY DEF Ops
    <3>3. op.line \in Hands(job[p])
      BY <3>1, HandsAre
    <3>4. Says({op.line}, k)
      BY <2>3, <3>1, <3>3 DEF Says
    <3> QED
      BY <3>1, <3>2, <3>4 DEF InTransit
  <2>5. CASE pc[p] = "md" /\ \E l \in job[p].new : IsOf(l, k)
    <3>1. PICK l \in job[p].new : IsOf(l, k)
      BY <2>5
    <3>2. l \in Hands(job[p])
      BY HandsAre
    <3>3. Says(job[p].new, k)
      BY <2>3, <3>1, <3>2 DEF Says
    <3> QED
      BY <2>5, <3>3 DEF InTransit
  <2> QED
    BY <2>1, <2>4, <2>5 DEF Carries
<1> QED
  BY <1>1, <1>4, <1>5 DEF Good, Promised

\* A fact is in one line of one file.
LEMMA SingleLines ==
  ASSUME Inv
  PROVE  OneLinePerFact
BY Zenon DEF Inv, Good, OneLine, OneLinePerFact

\* A forgotten fact leaves its file and does not come back (tombstones.py:73-113,
\* pipeline.py:360).
LEMMA GoneFacts ==
  ASSUME Inv
  PROVE  ForgottenStays
<1> SUFFICES ASSUME Lossless, NEW t \in tombs, NEW l \in AllLines, l.id = t[1]
             PROVE  \E p \in Proc : Cutting(p, l.id)
  BY DEF ForgottenStays
<1>1. OnFile(t[1])
  <2>1. PICK q \in Path : l \in file[q]
    BY Zenon DEF AllLines
  <2> QED
    BY <2>1 DEF OnFile, Has
<1>2. PICK p \in Proc : Dropping(p, t[1])
  BY <1>1 DEF Inv, Good, Gone
<1>3. Cutting(p, t[1])
  BY <1>2 DEF Dropping, Cutting, Ops, Ids
<1> QED
  BY <1>3

\* The files change by a bounded act or when a call writes one.
LEMMA Writers ==
  ASSUME Next, acts \in Nat
  PROVE  file' = file \/ acts' # acts \/ \E p \in Proc : WriteMd(p)
<1>1. Act => acts' # acts
  BY DEF Act
<1>2. Humans => acts' # acts
  BY <1>1, Zenon DEF Humans, HumanDelete, HumanEdit, HumanAdd
<1>3. ASSUME NEW p \in Proc, Calls(p) PROVE acts' # acts
  <2>1. \A q, t : AddFact(p, q, t) \/ AppendRaw(p, q, t) => Act
    BY Zenon DEF AddFact, AppendRaw
  <2>2. \A q, l : Forget(p, q, l) \/ AddAgain(p, q, l, "hand") => Act
    BY Zenon DEF Forget, AddAgain
  <2>3. \A q, l, t : EditFact(p, q, l, t) \/ Move(p, q, l, t) => Act
    BY Zenon DEF EditFact, Move
  <2>4. MergeAll(p) \/ DreamLoad(p) => Act
    BY Zenon DEF MergeAll, DreamLoad
  <2> QED
    BY <1>1, <1>3, <2>1, <2>2, <2>3, <2>4, Zenon DEF Calls
<1>4. ASSUME NEW p \in Proc, Steps(p) PROVE file' = file \/ WriteMd(p)
  <2>1. \A q : Load(p, q) => file' = file
    BY Zenon DEF Load, disk
  <2>2. Fetch(p) => file' = file
    BY Zenon DEF Fetch, disk
  <2>3. FetchNothing(p) => file' = file
    BY Zenon DEF FetchNothing, disk
  <2>4. WriteCache(p) \/ Mark(p) \/ MergePair(p) \/ MergeDone(p) \/ Crash(p) => file' = file
    BY Zenon DEF WriteCache, Mark, MergePair, MergeDone, Crash, disk
  <2>5. \A t, weak : DreamSave(p, t, weak) => file' = file
    BY Zenon DEF DreamSave, disk
  <2> QED
    BY <1>4, <2>1, <2>2, <2>3, <2>4, <2>5, Zenon DEF Steps
<1> QED
  BY <1>2, <1>3, <1>4, Zenon DEF Next

\* Under one id the text changes only by a human's hand, and back (memory.py:342).
LEMMA SameTexts ==
  ASSUME Inv, [Next]_vars
  PROVE  KeepsTexts
<1> SUFFICES ASSUME Lossless', NEW q \in Path, NEW l \in file[q], NEW m \in file'[q],
                    l.id = m.id, l.id # 0, l.text # m.text, acts' = acts
             PROVE  m.text = cache[q][l.id]
  BY DEF KeepsTexts
<1>1. Lossless
  BY BreachesStay DEF Lossless, vars
<1>2. Sized /\ Good /\ TypeOK
  BY <1>1 DEF Inv, Good
<1>3. \E p \in Proc : WriteMd(p)
  <2>1. file' # file
    BY <1>2 DEF Good, OneLine
  <2>2. acts \in Nat
    BY <1>2 DEF TypeOK, Sized
  <2> QED
    BY <2>1, <2>2, Writers DEF vars, disk
<1>4. PICK p \in Proc : WriteMd(p)
  BY <1>3
<1>5. m \in job[p].new
  <2>1. file' = [file EXCEPT ![job[p].q] = job[p].new]
    BY <1>4 DEF WriteMd
  <2>2. m \notin file[q]
    BY <1>2 DEF Good, OneLine
  <2> QED
    BY <1>2, <2>1, <2>2 DEF TypeOK, Store
<1>6. /\ l.id \in Id /\ l.text \in Text /\ m.text \in Text
      /\ cache[q][l.id] \in Text \union {NoText}
  <2>1. job[p] \in Job /\ l \in Line
    BY <1>2 DEF TypeOK, Store
  <2>2. m \in Line
    BY <1>5, <2>1, JobsAreTyped
  <2>3. l.id \in Id
    BY <1>2, <2>1 DEF Line, Id, Sized
  <2> QED
    BY <1>2, <2>1, <2>2, <2>3 DEF Line, TypeOK, Texts
<1>7. Claim(l.id, m.text)
  <2>1. HandSays(job[p], l.id, m.text)
    BY <1>5, HandsAre DEF HandSays
  <2> QED
    BY <2>1 DEF Claim
<1>8. CASE cache[q][l.id] = NoText
  <2>1. Claim(l.id, l.text)
    BY <1>8 DEF Claim, DiskSays
  <2> QED
    BY <1>2, <1>6, <1>7, <2>1 DEF Good, Agree
<1>9. CASE cache[q][l.id] # NoText
  <2>1. Claim(l.id, cache[q][l.id])
    BY DEF Claim, DiskSays
  <2> QED
    BY <1>2, <1>6, <1>7, <1>9, <2>1 DEF Good, Agree
<1> QED
  BY <1>8, <1>9

\* Nothing that was stored is lost, doubled, or back after it was forgotten, unless a step
\* destroyed what its process had not read.
THEOREM StoreKeepsFacts ==
  Sized /\ Spec => [](FactsKept /\ OneLinePerFact /\ ForgottenStays)
<1>1. Inv => FactsKept /\ OneLinePerFact /\ ForgottenStays
  BY KeptFacts, SingleLines, GoneFacts
<1> QED
  BY <1>1, StoreInvariant, PTL

\* A fact keeps its text.
THEOREM StoreKeepsTexts == Sized /\ Spec => [][KeepsTexts]_vars
<1>1. Inv /\ [Next]_vars => KeepsTexts
  BY SameTexts
<1> QED
  BY <1>1, StoreInvariant, PTL DEF Spec

-----------------------------------------------------------------------------
(* Promotion across projects (CrossProject).                                *)

CONSTANTS
  Limit,  \* Limit[part]: as MaxActs, for the other parts
  Project, Topic, MinRepos, MaxPromotions
VARIABLES
  known, home, files, main, side, originMain, originSide, trackMain, trackSide, snap, pull,
  aPc, aJob, aNext, aActs, aBreach

Across == INSTANCE CrossProject WITH
  MaxActs <- Limit["Across"], MaxFacts <- MaxPromotions, pc <- aPc, job <- aJob, next <- aNext,
  acts <- aActs, breach <- aBreach

\* Facts of the statement among commits.
Said(tree) == tree \intersect 1 .. MaxPromotions

\* A branch that holds the commits of a tree is none that is missing.
Trees ==
  /\ main \subseteq Across!Commit /\ originMain \subseteq Across!Commit
  /\ trackMain \subseteq originMain
  /\ side \in Across!Branch /\ originSide \in Across!Branch /\ trackSide \in Across!Branch
  /\ aNext \in Nat \ {0}
  /\ aPc \in {"idle", "write", "commit", "clean", "back", "delete", "fetch", "push", "save", "look",
       "open"}
  /\ DOMAIN aJob = {"fact", "push", "ok"} /\ aJob.ok \in BOOLEAN

\* What the command has made of the branch, the working tree and main.
ProposeInv ==
  /\ aPc \in {"write", "commit", "clean", "back"} => home = "side" /\ Said(main) = {}
  /\ aPc \in {"write", "commit", "clean", "back", "delete", "fetch", "push", "save"} =>
        aJob.fact \in 1 .. MaxPromotions
  /\ aPc \in {"write", "commit", "clean"} => side = main /\ ~aJob.ok
  /\ aPc = "write" => files = main
  /\ aPc = "commit" => files = main \union {aJob.fact}
  /\ aPc = "back" =>
        /\ ~aJob.ok => side = main /\ ("stuck" \notin aBreach => files = main)
        /\ aJob.ok => files = side /\ side = main \union {aJob.fact}
  /\ aPc = "delete" => home = "main" /\ ("stuck" \notin aBreach => files = main)
  /\ aPc \in {"fetch", "push", "save"} =>
        home = "main" /\ files = main /\ side = main \union {aJob.fact} /\ Said(main) = {}
  /\ aPc = "push" => main = trackMain
  /\ aPc = "save" => main \subseteq originMain
  /\ aPc = "open" => trackSide # Across!NoBranch /\ snap # Across!None /\ trackSide = snap.head

\* GitHub's main and its branch say it once.
OnceInv ==
  "raced" \notin aBreach =>
    \A a, b \in Said(originMain) \union Said(originSide) : a = b

\* The preview is of the branch it was saved for, and a pull request shows it.
PreviewInv ==
  /\ snap # Across!None => snap.fact \in snap.head /\ Across!Alien \notin snap.head \ originMain
  /\ Across!OpenedAsPushed

\* A command ends on main, without what it did not commit.
EndsInv ==
  aBreach \subseteq {"raced"} /\ aPc \in {"idle", "look", "open"} =>
     home = "main" /\ files = main /\ (side # Across!NoBranch => Said(side) # {})

AcrossInv == Trees /\ ProposeInv /\ OnceInv /\ PreviewInv /\ EndsInv

\* The sets of commits are branches, and so is no branch.
LEMMA BranchesAre ==
  ASSUME MaxPromotions \in Nat
  PROVE  /\ Across!NoBranch \in Across!Branch /\ Across!Alien \in Across!Commit
         /\ \A t \in SUBSET Across!Commit : t \in Across!Branch
         /\ \A t \in Across!Branch : t # Across!NoBranch => t \subseteq Across!Commit
         /\ \A c \in 1 .. MaxPromotions : c \in Across!Commit
<1> DEFINE B == (SUBSET Across!Commit) \union {Across!NoBranch}
<1>1. Across!Branch = B
  BY DEF Across!Branch
<1>2. Across!Alien \in Across!Commit /\ \A c \in 1 .. MaxPromotions : c \in Across!Commit
  BY DEF Across!Alien, Across!Commit
<1>3. Across!NoBranch \in Across!Branch /\ \A t \in SUBSET Across!Commit : t \in Across!Branch
  BY <1>1
<1>4. \A t \in Across!Branch : t # Across!NoBranch => t \subseteq Across!Commit
  BY <1>1
<1> QED
  BY <1>2, <1>3, <1>4

\* What the command and humans do with one part of it.
LEMMA PromotionGoesOn ==
  ASSUME MaxPromotions \in Nat, AcrossInv, Across!Next PROVE AcrossInv'
<1> USE DEF Trees, Across!Commit, Across!Branch, Across!NoBranch, Across!Alien, Across!None, Said
<1>1. ASSUME NEW r \in Project, NEW t \in Topic, Across!Learn(r, t) PROVE AcrossInv'
  BY <1>1 DEF Across!Learn, Across!clone, Across!hub, Across!command, AcrossInv, ProposeInv,
     OnceInv, PreviewInv, EndsInv, Across!OpenedAsPushed
<1>2. ASSUME NEW push \in BOOLEAN, Across!Start(push) PROVE AcrossInv'
  BY <1>2 DEF Across!Start, Across!Candidate, Across!Eligible, Across!Said, Across!Goto, Across!hub, AcrossInv,
     ProposeInv, OnceInv, PreviewInv, EndsInv,
     Across!OpenedAsPushed
<1>3. CASE Across!Write
  BY <1>3 DEF Across!Write, Across!At, Across!Goto, Across!hub, AcrossInv, ProposeInv, OnceInv,
     PreviewInv,
     EndsInv, Across!OpenedAsPushed
<1>4. CASE Across!CommitBranch
  BY <1>4 DEF Across!CommitBranch, Across!At, Across!Goto, Across!hub, AcrossInv, ProposeInv,
     OnceInv,
     PreviewInv, EndsInv, Across!OpenedAsPushed
<1>5. CASE Across!Fail
  BY <1>5 DEF Across!Fail, Across!Goto, Across!clone, Across!hub, AcrossInv, ProposeInv, OnceInv,
     PreviewInv,
     EndsInv, Across!OpenedAsPushed
<1>6. CASE Across!CleanUp
  BY <1>6 DEF Across!CleanUp, Across!At, Across!Goto, Across!Blame, Across!hub, AcrossInv,
     ProposeInv, OnceInv, PreviewInv,
     EndsInv, Across!OpenedAsPushed
<1>7. CASE Across!Back
  BY <1>7 DEF Across!Back, Across!At, Across!Goto, Across!hub, AcrossInv, ProposeInv, OnceInv,
     PreviewInv,
     EndsInv, Across!OpenedAsPushed
<1>8. CASE Across!Delete
  <2> USE <1>8 DEF Across!Delete, Across!At, Across!Goto, Across!hub
  <2>1. Trees'
    <3> HIDE DEF Across!Branch, Across!NoBranch, Across!Commit, Across!Alien, Said
    <3> QED
      BY BranchesAre DEF AcrossInv
  <2>2. ProposeInv'
    BY DEF AcrossInv, ProposeInv
  <2>3. OnceInv'
    BY DEF AcrossInv, OnceInv, ProposeInv
  <2>4. PreviewInv'
    BY DEF AcrossInv, PreviewInv, ProposeInv, Across!OpenedAsPushed
  <2>5. EndsInv'
    BY DEF AcrossInv, EndsInv, ProposeInv
  <2> QED
    BY <2>1, <2>2, <2>3, <2>4, <2>5 DEF AcrossInv
<1>9. CASE Across!Fetch
  BY <1>9 DEF Across!Fetch, Across!Fetched, Across!At, Across!Goto, Across!hub, AcrossInv,
     ProposeInv, OnceInv,
     PreviewInv, EndsInv, Across!OpenedAsPushed
<1>10. CASE Across!Push
  <2> USE <1>10 DEF Across!Push, Across!At, Across!Goto, Across!Blame
  <2>1. Trees'
    <3> HIDE DEF Across!Branch, Across!NoBranch, Across!Commit, Across!Alien, Said
    <3> QED
      BY BranchesAre DEF AcrossInv
  <2>2. ProposeInv'
    BY DEF AcrossInv, ProposeInv
  <2>3. OnceInv'
    BY DEF AcrossInv, OnceInv, ProposeInv
  <2>4. PreviewInv'
    BY DEF AcrossInv, PreviewInv, ProposeInv, Across!OpenedAsPushed
  <2>5. EndsInv'
    BY DEF AcrossInv, EndsInv, ProposeInv
  <2> QED
    BY <2>1, <2>2, <2>3, <2>4, <2>5 DEF AcrossInv
<1>11. CASE Across!Save
  BY <1>11 DEF Across!Save, Across!Snapshot, Across!At, Across!Goto, Across!hub, AcrossInv,
     ProposeInv, OnceInv,
     PreviewInv, EndsInv, Across!OpenedAsPushed
<1>12. CASE Across!OpenPull
  BY <1>12 DEF Across!OpenPull, Across!Fetched, Across!Goto, Across!hub, AcrossInv, ProposeInv,
     OnceInv,
     PreviewInv, EndsInv, Across!OpenedAsPushed
<1>13. CASE Across!Look
  BY <1>13 DEF Across!Look, Across!At, Across!Goto, Across!clone, Across!hub, AcrossInv,
     ProposeInv, OnceInv,
     PreviewInv, EndsInv, Across!OpenedAsPushed
<1>14. CASE Across!Create
  BY <1>14 DEF Across!Create, Across!At, Across!Goto, Across!Blame, Across!clone, AcrossInv,
     ProposeInv, OnceInv,
     PreviewInv, EndsInv, Across!OpenedAsPushed
<1>15. CASE Across!GiveUp
  BY <1>15 DEF Across!GiveUp, Across!Goto, Across!clone, Across!hub, AcrossInv, ProposeInv,
     OnceInv, PreviewInv,
     EndsInv, Across!OpenedAsPushed
<1>16. CASE Across!CleanUpFails
  BY <1>16 DEF Across!CleanUpFails, Across!Goto, Across!Blame, Across!clone, Across!hub, AcrossInv,
     ProposeInv,
     OnceInv, PreviewInv, EndsInv, Across!OpenedAsPushed
<1>17. CASE Across!Die
  BY <1>17 DEF Across!Die, Across!Goto, Across!Blame, Across!clone, Across!hub, AcrossInv,
     ProposeInv,
     OnceInv, PreviewInv, EndsInv, Across!OpenedAsPushed
<1>18. CASE Across!MergePull
  <2> USE <1>18 DEF Across!MergePull, Across!clone, Across!command, Across!Act
  <2>1. Trees'
    <3> HIDE DEF Across!Branch, Across!NoBranch, Across!Commit, Across!Alien, Said
    <3> QED
      BY BranchesAre DEF AcrossInv
  <2>2. ProposeInv'
    BY DEF AcrossInv, ProposeInv
  <2>3. OnceInv'
    BY DEF AcrossInv, OnceInv, ProposeInv
  <2>4. PreviewInv'
    BY DEF AcrossInv, PreviewInv, ProposeInv, Across!OpenedAsPushed
  <2>5. EndsInv'
    BY DEF AcrossInv, EndsInv, ProposeInv
  <2> QED
    BY <2>1, <2>2, <2>3, <2>4, <2>5 DEF AcrossInv
<1>19. CASE Across!ClosePull
  BY <1>19 DEF Across!ClosePull, Across!clone, Across!command, AcrossInv, ProposeInv, OnceInv,
     PreviewInv,
     EndsInv, Across!OpenedAsPushed
<1>20. CASE Across!Meddle
  <2> USE <1>20 DEF Across!Meddle, Across!clone, Across!command, Across!Act
  <2>1. Trees'
    <3> HIDE DEF Across!Branch, Across!NoBranch, Across!Commit, Across!Alien, Said
    <3> QED
      BY BranchesAre DEF AcrossInv
  <2>2. ProposeInv'
    BY DEF AcrossInv, ProposeInv
  <2>3. OnceInv'
    BY DEF AcrossInv, OnceInv, ProposeInv
  <2>4. PreviewInv'
    BY DEF AcrossInv, PreviewInv, ProposeInv, Across!OpenedAsPushed
  <2>5. EndsInv'
    BY DEF AcrossInv, EndsInv, ProposeInv
  <2> QED
    BY <2>1, <2>2, <2>3, <2>4, <2>5 DEF AcrossInv
<1>21. CASE Across!Tidy
  <2> USE <1>21 DEF Across!Tidy, Across!Fetched, Across!hub, Across!command, Across!Act
  <2>1. Trees'
    <3> HIDE DEF Across!Branch, Across!NoBranch, Across!Commit, Across!Alien, Said
    <3> QED
      BY BranchesAre DEF AcrossInv
  <2>2. ProposeInv'
    BY DEF AcrossInv, ProposeInv
  <2>3. OnceInv'
    BY DEF AcrossInv, OnceInv, ProposeInv
  <2>4. PreviewInv'
    BY DEF AcrossInv, PreviewInv, ProposeInv, Across!OpenedAsPushed
  <2>5. EndsInv'
    BY DEF AcrossInv, EndsInv, ProposeInv
  <2> QED
    BY <2>1, <2>2, <2>3, <2>4, <2>5 DEF AcrossInv
<1> QED
  BY <1>1, <1>2, <1>3, <1>4, <1>5, <1>6, <1>7, <1>8, <1>9, <1>10, <1>11, <1>12, <1>13, <1>14, <1>15,
     <1>16, <1>17, <1>18, <1>19, <1>20, <1>21 DEF Across!Next

\* A set without two elements has one or none.
LEMMA AtMostOne ==
  ASSUME NEW S, \A a, b \in S : a = b PROVE Cardinality(S) <= 1
<1>1. CASE S = {}
  BY <1>1, FS_EmptySet
<1>2. ASSUME NEW a \in S PROVE Cardinality(S) <= 1
  <2>1. S = {a}
    BY <1>2
  <2> QED
    BY <2>1, FS_Singleton
<1> QED
  BY <1>1, <1>2

\* A statement is promoted once, opened as it was pushed, and a failure leaves main alone.
THEOREM PromotionsStayWhole ==
  ASSUME MaxPromotions \in Nat
  PROVE  Across!Spec => [](Across!PromotedOnce /\ Across!OpenedAsPushed /\ Across!FailureLeavesMain)
<1>1. Across!Init => AcrossInv
  <2> SUFFICES ASSUME Across!Init PROVE AcrossInv
    OBVIOUS
  <2> USE DEF Across!Init
  <2>1. Trees
    BY BranchesAre DEF Trees, Across!NoJob
  <2>2. ProposeInv
    BY DEF ProposeInv
  <2>3. OnceInv
    <3>1. Said(originMain) = {} /\ Said(originSide) = {}
      BY DEF Said, Across!NoBranch
    <3> QED
      BY <3>1 DEF OnceInv
  <2>4. PreviewInv /\ EndsInv
    BY DEF PreviewInv, EndsInv, Across!OpenedAsPushed
  <2> QED
    BY <2>1, <2>2, <2>3, <2>4 DEF AcrossInv
<1>2. AcrossInv /\ [Across!Next]_(Across!vars) => AcrossInv'
  <2>1. CASE UNCHANGED Across!vars
    BY <2>1 DEF Across!vars, Across!clone, Across!hub, Across!command, AcrossInv, Trees, ProposeInv,
       OnceInv, PreviewInv, EndsInv, Across!OpenedAsPushed, Said
  <2> QED
    BY <2>1, PromotionGoesOn
<1>3. AcrossInv => Across!PromotedOnce /\ Across!OpenedAsPushed /\ Across!FailureLeavesMain
  <2> SUFFICES ASSUME AcrossInv
      PROVE Across!PromotedOnce /\ Across!OpenedAsPushed /\ Across!FailureLeavesMain
    OBVIOUS
  <2>1. originMain \ {Across!Alien} = Said(originMain)
    <3>1. originMain \subseteq 1 .. MaxPromotions + 1
      BY DEF AcrossInv, Trees, Across!Commit
    <3>2. \A c \in 1 .. MaxPromotions + 1 : c # MaxPromotions + 1 <=> c \in 1 .. MaxPromotions
      OBVIOUS
    <3> QED
      BY <3>1, <3>2 DEF Across!Alien, Said
  <2>2. "raced" \notin aBreach => Cardinality(Said(originMain)) <= 1
    BY AtMostOne DEF AcrossInv, OnceInv
  <2>3. Across!FailureLeavesMain
    BY DEF AcrossInv, EndsInv, Across!FailureLeavesMain, Said
  <2>4. Across!PromotedOnce
    <3>1. Across!Cardinality(originMain \ {Across!Alien}) = Cardinality(Said(originMain))
      BY <2>1 DEF Across!Cardinality, Cardinality, Across!IsFiniteSet, IsFiniteSet
    <3> QED
      BY <3>1, <2>2 DEF Across!PromotedOnce
  <2> QED
    BY <2>3, <2>4 DEF AcrossInv, PreviewInv
<1> QED
  BY <1>1, <1>2, <1>3, PTL DEF Across!Spec

-----------------------------------------------------------------------------
(* Exported and edited facts (Projection).                                  *)

CONSTANTS MaxFacts, MaxEdits
VARIABLES
  store, jFile, manifest, jPc, plan, dirty, render, todo, jNext, edits, jActs, seen, landed,
  undone, jBreach

Projected == INSTANCE Projection WITH
  MaxActs <- Limit["Projected"], file <- jFile, pc <- jPc, next <- jNext, acts <- jActs,
  breach <- jBreach

\* The operators that Projection takes from the library are the library's.
LEMMA ProjectedLibrary == \A S : Projected!Cardinality(S) = Cardinality(S)
  BY DEF Projected!Cardinality, Cardinality, Projected!IsFiniteSet, IsFiniteSet

\* The bounds are numbers.
Bounded == MaxFacts \in Nat \ {0} /\ MaxEdits \in Nat

\* Names of facts, files and edits, and how they differ.
LEMMA NamesDiffer ==
  ASSUME Bounded
  PROVE  /\ Projected!File = Projected!Id \union {Projected!Note}
              /\ Projected!Note \notin Projected!Id
         /\ Projected!Id \subseteq Int /\ Projected!Edit \subseteq Int
         /\ Projected!Id \intersect Projected!Edit = {}
         /\ Projected!NoText \notin Projected!Id \union Projected!Edit
         /\ 0 \notin Projected!Id \union Projected!Edit
         /\ \A i \in Projected!Id : i <= MaxFacts
         /\ \A i \in Int : 0 < i /\ i <= MaxFacts => i \in Projected!Id
         /\ Projected!None = [text |-> Projected!NoText, by |-> 0]
  BY DEF Bounded, Projected!File, Projected!Id, Projected!Edit, Projected!Note, Projected!NoText,
         Projected!None

\* What files, manifests and facts may say: what is typed is newer than all that was typed.
Sayable == Projected!Id \union {Projected!NoText} \union (MaxFacts + 1 .. MaxFacts + edits)
Saying == [Projected!File -> Sayable]

Contents ==
  /\ DOMAIN store = Projected!Id
  /\ \A i \in Projected!Id : DOMAIN store[i] = {"text", "by"} /\ store[i].text \in Sayable
  /\ jFile \in Saying /\ manifest \in Saying
  /\ jNext \in 1 .. MaxFacts + 1 /\ edits \in 0 .. MaxEdits
Programs ==
  /\ jPc \in [Proc -> {"idle", "apply", "add", "check", "write", "list"}]
  /\ DOMAIN plan = Proc /\ dirty \in [Proc -> SUBSET Projected!File]
       /\ todo \in [Proc -> SUBSET Projected!File]
  /\ render \in [Proc -> Saying] /\ seen \in [Proc -> Saying]
PlanFields == {"file", "text", "of", "as", "was"}
Plans ==
  \A p \in Proc : \A op \in plan[p] :
    /\ DOMAIN op = PlanFields
    /\ op.text \in Sayable /\ op.was \in Sayable
    /\ op.of \in Projected!Id \union {0} /\ op.as \in Projected!Id \union {0}
    /\ op.text # Projected!NoText /\ (op.of # 0 => op.was # Projected!NoText)
    /\ op.as # 0 => op.of = 0 /\ jPc[p] = "add" /\ op.as < jNext
    /\ \A o \in plan[p] : op.as # 0 /\ o.as # 0 => o = op
    /\ \A q \in Proc : \A o \in plan[q] : op.as # 0 /\ o.as = op.as => q = p

\* The facts of ids to come are in no store, in no export and in no plan.
Unused(i) ==
  /\ store[i] = Projected!None
  /\ \A p \in Proc : render[p][i] = Projected!NoText
  /\ \A p \in Proc : \A op \in plan[p] : op.of # i
IdsInv ==
  /\ \A i \in Projected!Id : i >= jNext => Unused(i)
  /\ \A p \in Proc : \A op \in plan[p] : op.as # 0 => Unused(op.as)
  /\ \A p \in Proc : render[p][Projected!Note] = Projected!NoText
  /\ \A i \in Projected!Id : store[i].text = Projected!NoText => store[i] = Projected!None

\* What has been typed is a fact, or was undone.
Told(t) == t \in Projected!Edit => t \in landed

\* What facts, manifests and exports say was told, and so was what an import replaces.
ToldInv ==
  /\ \A i \in Projected!Id : Told(store[i].text)
  /\ \A x \in Projected!File : Told(manifest[x])
  /\ \A p \in Proc : \A x \in Projected!File : Told(render[p][x])
  /\ \A p \in Proc : \A op \in plan[p] : Told(op.was)

\* The files an import cleans up are planned or were told, and so is all that is written over.
CleanInv ==
  /\ \A p \in Proc : jPc[p] \in {"apply", "add"} => \A x \in dirty[p] :
       Told(seen[p][x]) \/ \E op \in plan[p] : op.text = seen[p][x]
  /\ \A p \in Proc : jPc[p] = "check" => \A x \in dirty[p] : Told(seen[p][x])
  /\ \A p \in Proc : jPc[p] = "write" /\ "unlisted" \notin jBreach =>
       \A x \in todo[p] : Told(seen[p][x])
  /\ \A p \in Proc : jPc[p] = "idle" => dirty[p] = {}
  /\ \A p \in Proc : jPc[p] \notin {"apply", "add"} => plan[p] = {}

\* p has read x and is to clean it up.
Importing(p) == jPc[p] \in {"apply", "add"} \/ dirty[p] # {}
ToClean(p, x) == x \in dirty[p] /\ (jPc[p] = "write" => x \in todo[p])
Cleaned(x) == \A p \in Proc : ~ToClean(p, x)

SaidBy(i, t) == store[i].text = t

\* One import at a time.
OneImporter == \A p, q \in Proc : Importing(p) /\ Importing(q) => p = q

\* An edit is in one fact and, once the others are cleaned up, in the file of that fact.
OneFactEach ==
  \A i, j \in Projected!Id, t \in Projected!Edit : SaidBy(i, t) /\ SaidBy(j, t) => i = j
OwnFiles ==
  \A i \in Projected!Id, x \in Projected!File :
    jFile[x] \in Projected!Edit /\ SaidBy(i, jFile[x]) /\ Cleaned(x) => x = i
OneFileEach ==
  \A x, y \in Projected!File :
    jFile[x] = jFile[y] /\ jFile[x] \in Projected!Edit /\ Cleaned(x) /\ Cleaned(y) => x = y

\* What an import is to make of an edit is said by no fact, and only by the files it has read.
PlansApart ==
  \A p \in Proc : \A op \in plan[p] : op.text \in Projected!Edit =>
    /\ \A i \in Projected!Id : ~SaidBy(i, op.text)
    /\ \A o \in plan[p] : o.text = op.text => o = op
    /\ \A x \in Projected!File : jFile[x] = op.text => x \in dirty[p]
WasRight ==
  \A p \in Proc : \A op \in plan[p] :
    op.of # 0 => store[op.of] = Projected!None \/ store[op.of].text = op.was

\* What an export is to write is still said by its fact, or the fact is gone.
RendersRight ==
  \A p \in Proc, i \in Projected!Id :
    render[p][i] # Projected!NoText => store[i] = Projected!None \/ SaidBy(i, render[p][i])

OnceSaid == OneImporter /\ OneFactEach /\ OwnFiles /\ OneFileEach /\ PlansApart

ProjectedInv ==
  /\ Contents /\ Programs /\ Plans /\ IdsInv /\ ToldInv /\ CleanInv /\ WasRight /\ RendersRight
  /\ Projected!EditsReachTheStore
  /\ jBreach = {} => OnceSaid

\* A program that ends, after an import it has not finished only with a breach.
LEMMA PlanEndKeeps ==
  ASSUME Bounded, ProjectedInv, NEW p \in Proc, Projected!Finish(p), jBreach \subseteq jBreach',
         UNCHANGED <<store, jFile, manifest, jNext, edits, landed, undone>>,
         (jBreach = {})' => ~Importing(p)
  PROVE  ProjectedInv'
<1> USE NamesDiffer DEF Projected!Finish, Projected!Goto, Projected!Set, Projected!Blank, Bounded
<1>1. Contents'
  BY DEF ProjectedInv, Contents, Programs, Plans, Saying, Sayable
<1>2. Programs'
  BY DEF ProjectedInv, Contents, Programs, Saying, Sayable
<1>3. Plans'
  BY DEF ProjectedInv, Contents, Programs, Plans, PlanFields, Sayable, Saying
<1>4. IdsInv'
  BY DEF ProjectedInv, Contents, Programs, Plans, IdsInv, Unused
<1>5. ToldInv'
  BY DEF ProjectedInv, Contents, Programs, Plans, ToldInv, Told
<1>6. CleanInv'
  BY DEF ProjectedInv, Contents, Programs, Plans, ToldInv, CleanInv, Told
<1>7. WasRight'
  BY DEF ProjectedInv, Contents, Programs, Plans, IdsInv, Unused, WasRight
<1>8. RendersRight'
  BY DEF ProjectedInv, Contents, Programs, Plans, IdsInv, Unused, RendersRight, SaidBy, WasRight
<1>9. Projected!EditsReachTheStore'
  BY DEF ProjectedInv, Contents, Programs, Plans, ToldInv, CleanInv, Told, Saying, Sayable,
         Projected!EditsReachTheStore, Projected!Made, Projected!Edit, Projected!File,
         Projected!Id, Projected!Note
<1>10. ASSUME (jBreach = {})' PROVE OnceSaid'
  <2>0. jBreach = {}
    BY <1>10
  <2>1. OneImporter'
    BY <1>10, <2>0 DEF ProjectedInv, Contents, Programs, Plans, OnceSaid, OneImporter, Importing,
       CleanInv
  <2>2. OneFactEach'
    BY <1>10, <2>0 DEF ProjectedInv, Contents, Programs, Plans, OnceSaid, OneFactEach, SaidBy,
       PlansApart, WasRight
  <2>3. OwnFiles'
    BY <1>10, <2>0 DEF ProjectedInv, Contents, Programs, Plans, OnceSaid, OwnFiles, SaidBy,
       Cleaned, ToClean, RendersRight, PlansApart, OneFactEach, OneImporter, Importing, CleanInv,
       WasRight
  <2>4. OneFileEach'
    <3>1. \A x \in Projected!File : Cleaned(x)' => Cleaned(x)
      BY <1>10, <2>0 DEF ProjectedInv, Programs, Cleaned, ToClean, Importing
    <3> QED
      BY <2>0, <3>1 DEF ProjectedInv, OnceSaid, OneFileEach
  <2>5. PlansApart'
    BY <1>10, <2>0 DEF ProjectedInv, Contents, Programs, Plans, OnceSaid, PlansApart, SaidBy,
       OneFileEach, OwnFiles, OneImporter, Importing, RendersRight, Cleaned, ToClean, CleanInv,
       WasRight
  <2> QED
    BY <2>1, <2>2, <2>3, <2>4, <2>5 DEF OnceSaid
<1> QED
  BY <1>1, <1>2, <1>3, <1>4, <1>5, <1>6, <1>7, <1>8, <1>9, <1>10 DEF ProjectedInv

\* A program dies.
LEMMA DieKeeps ==
  ASSUME Bounded, ProjectedInv, NEW p \in Proc, Projected!Die(p) PROVE ProjectedInv'
  BY PlanEndKeeps DEF Projected!Die, Projected!Blame

\* An import has stored what it planned.
LEMMA ImportDoneKeeps ==
  ASSUME Bounded, ProjectedInv, NEW p \in Proc, Projected!ImportDone(p) PROVE ProjectedInv'
<1> USE NamesDiffer DEF Projected!ImportDone, Projected!Goto, Bounded
<1>1. Contents'
  BY DEF ProjectedInv, Contents, Programs, Plans, Saying, Sayable
<1>2. Programs'
  BY DEF ProjectedInv, Contents, Programs, Saying, Sayable
<1>3. Plans'
  BY DEF ProjectedInv, Contents, Programs, Plans, PlanFields, Sayable, Saying
<1>4. IdsInv'
  BY DEF ProjectedInv, Contents, Programs, Plans, IdsInv, Unused
<1>5. ToldInv'
  BY DEF ProjectedInv, Contents, Programs, Plans, ToldInv, Told
<1>6. CleanInv'
  BY DEF ProjectedInv, Contents, Programs, Plans, ToldInv, CleanInv, Told
<1>7. WasRight'
  BY DEF ProjectedInv, Contents, Programs, Plans, IdsInv, Unused, WasRight
<1>8. RendersRight'
  BY DEF ProjectedInv, Contents, Programs, Plans, IdsInv, Unused, RendersRight, SaidBy, WasRight
<1>9. Projected!EditsReachTheStore'
  BY DEF ProjectedInv, Contents, Programs, Plans, ToldInv, CleanInv, Told, Saying, Sayable,
         Projected!EditsReachTheStore, Projected!Made, Projected!Edit, Projected!File,
         Projected!Id, Projected!Note
<1>10. ASSUME (jBreach = {})' PROVE OnceSaid'
  <2>0. jBreach = {}
    BY <1>10
  <2>1. OneImporter'
    BY <1>10, <2>0 DEF ProjectedInv, Contents, Programs, Plans, OnceSaid, OneImporter, Importing,
       CleanInv
  <2>2. OneFactEach'
    BY <1>10, <2>0 DEF ProjectedInv, Contents, Programs, Plans, OnceSaid, OneFactEach, SaidBy,
       PlansApart, WasRight
  <2>3. OwnFiles'
    BY <1>10, <2>0 DEF ProjectedInv, Contents, Programs, Plans, OnceSaid, OwnFiles, SaidBy,
       Cleaned, ToClean, RendersRight, PlansApart, OneFactEach, OneImporter, Importing, CleanInv,
       WasRight
  <2>4. OneFileEach'
    BY <1>10, <2>0 DEF ProjectedInv, Contents, Programs, Plans, OnceSaid, OneFileEach, SaidBy,
       Cleaned, ToClean, OwnFiles, OneFactEach, RendersRight, OneImporter
  <2>5. PlansApart'
    BY <1>10, <2>0 DEF ProjectedInv, Contents, Programs, Plans, OnceSaid, PlansApart, SaidBy,
       OneFileEach, OwnFiles, OneImporter, Importing, RendersRight, Cleaned, ToClean, CleanInv,
       WasRight
  <2> QED
    BY <2>1, <2>2, <2>3, <2>4, <2>5 DEF OnceSaid
<1> QED
  BY <1>1, <1>2, <1>3, <1>4, <1>5, <1>6, <1>7, <1>8, <1>9, <1>10 DEF ProjectedInv

\* An export begins.
LEMMA ExportKeeps ==
  ASSUME Bounded, ProjectedInv, NEW p \in Proc, Projected!Export(p) PROVE ProjectedInv'
<1> USE NamesDiffer DEF Projected!Export, Projected!Act, Projected!Goto, Bounded
<1>1. Contents'
  BY DEF ProjectedInv, Contents, Programs, Plans, Saying, Sayable
<1>2. Programs'
  BY DEF ProjectedInv, Contents, Programs, Saying, Sayable
<1>3. Plans'
  BY DEF ProjectedInv, Contents, Programs, Plans, PlanFields, Sayable, Saying
<1>4. IdsInv'
  BY DEF ProjectedInv, Contents, Programs, Plans, IdsInv, Unused
<1>5. ToldInv'
  BY DEF ProjectedInv, Contents, Programs, Plans, ToldInv, Told
<1>6. CleanInv'
  BY DEF ProjectedInv, Contents, Programs, Plans, ToldInv, CleanInv, Told
<1>7. WasRight'
  BY DEF ProjectedInv, Contents, Programs, Plans, IdsInv, Unused, WasRight
<1>8. RendersRight'
  BY DEF ProjectedInv, Contents, Programs, Plans, IdsInv, Unused, RendersRight, SaidBy, WasRight
<1>9. Projected!EditsReachTheStore'
  BY DEF ProjectedInv, Contents, Programs, Plans, ToldInv, CleanInv, Told, Saying, Sayable,
         Projected!EditsReachTheStore, Projected!Made, Projected!Edit, Projected!File,
         Projected!Id, Projected!Note
<1>10. ASSUME (jBreach = {})' PROVE OnceSaid'
  <2>0. jBreach = {}
    BY <1>10
  <2>1. OneImporter'
    BY <1>10, <2>0 DEF ProjectedInv, Contents, Programs, Plans, OnceSaid, OneImporter, Importing,
       CleanInv
  <2>2. OneFactEach'
    BY <1>10, <2>0 DEF ProjectedInv, Contents, Programs, Plans, OnceSaid, OneFactEach, SaidBy,
       PlansApart, WasRight
  <2>3. OwnFiles'
    BY <1>10, <2>0 DEF ProjectedInv, Contents, Programs, Plans, OnceSaid, OwnFiles, SaidBy,
       Cleaned, ToClean, RendersRight, PlansApart, OneFactEach, OneImporter, Importing, CleanInv,
       WasRight
  <2>4. OneFileEach'
    BY <1>10, <2>0 DEF ProjectedInv, Contents, Programs, Plans, OnceSaid, OneFileEach, SaidBy,
       Cleaned, ToClean, OwnFiles, OneFactEach, RendersRight, OneImporter
  <2>5. PlansApart'
    BY <1>10, <2>0 DEF ProjectedInv, Contents, Programs, Plans, OnceSaid, PlansApart, SaidBy,
       OneFileEach, OwnFiles, OneImporter, Importing, RendersRight, Cleaned, ToClean, CleanInv,
       WasRight
  <2> QED
    BY <2>1, <2>2, <2>3, <2>4, <2>5 DEF OnceSaid
<1> QED
  BY <1>1, <1>2, <1>3, <1>4, <1>5, <1>6, <1>7, <1>8, <1>9, <1>10 DEF ProjectedInv

\* The manifest is written.
LEMMA WriteManifestKeeps ==
  ASSUME Bounded, ProjectedInv, NEW p \in Proc, Projected!WriteManifest(p) PROVE ProjectedInv'
<1> USE NamesDiffer
        DEF Projected!WriteManifest, Projected!Finish, Projected!Goto, Projected!Set,
            Projected!Blank, Bounded
<1>1. Contents'
  BY DEF ProjectedInv, Contents, Programs, Plans, Saying, Sayable
<1>2. Programs'
  BY DEF ProjectedInv, Contents, Programs, Saying, Sayable
<1>3. Plans'
  BY DEF ProjectedInv, Contents, Programs, Plans, PlanFields, Sayable, Saying
<1>4. IdsInv'
  BY DEF ProjectedInv, Contents, Programs, Plans, IdsInv, Unused
<1>5. ToldInv'
  BY DEF ProjectedInv, Contents, Programs, Plans, ToldInv, Told
<1>6. CleanInv'
  BY DEF ProjectedInv, Contents, Programs, Plans, ToldInv, CleanInv, Told
<1>7. WasRight'
  BY DEF ProjectedInv, Contents, Programs, Plans, IdsInv, Unused, WasRight
<1>8. RendersRight'
  BY DEF ProjectedInv, Contents, Programs, Plans, IdsInv, Unused, RendersRight, SaidBy, WasRight
<1>9. Projected!EditsReachTheStore'
  BY DEF ProjectedInv, Contents, Programs, Plans, ToldInv, CleanInv, Told, Saying, Sayable,
         Projected!EditsReachTheStore, Projected!Made, Projected!Edit, Projected!File,
         Projected!Id, Projected!Note
<1>10. ASSUME (jBreach = {})' PROVE OnceSaid'
  <2>0. jBreach = {}
    BY <1>10
  <2>1. OneImporter'
    BY <1>10, <2>0 DEF ProjectedInv, Contents, Programs, Plans, OnceSaid, OneImporter, Importing,
       CleanInv
  <2>2. OneFactEach'
    BY <1>10, <2>0 DEF ProjectedInv, Contents, Programs, Plans, OnceSaid, OneFactEach, SaidBy,
       PlansApart, WasRight
  <2>3. OwnFiles'
    BY <1>10, <2>0 DEF ProjectedInv, Contents, Programs, Plans, OnceSaid, OwnFiles, SaidBy,
       Cleaned, ToClean, RendersRight, PlansApart, OneFactEach, OneImporter, Importing, CleanInv,
       WasRight
  <2>4. OneFileEach'
    BY <1>10, <2>0 DEF ProjectedInv, Contents, Programs, Plans, OnceSaid, OneFileEach, SaidBy,
       Cleaned, ToClean, OwnFiles, OneFactEach, RendersRight, OneImporter
  <2>5. PlansApart'
    BY <1>10, <2>0 DEF ProjectedInv, Contents, Programs, Plans, OnceSaid, PlansApart, SaidBy,
       OneFileEach, OwnFiles, OneImporter, Importing, RendersRight, Cleaned, ToClean, CleanInv,
       WasRight
  <2> QED
    BY <2>1, <2>2, <2>3, <2>4, <2>5 DEF OnceSaid
<1> QED
  BY <1>1, <1>2, <1>3, <1>4, <1>5, <1>6, <1>7, <1>8, <1>9, <1>10 DEF ProjectedInv

\* Nothing happens.
LEMMA PlanRestKeeps ==
  ASSUME Bounded, ProjectedInv, UNCHANGED Projected!vars PROVE ProjectedInv'
<1> USE NamesDiffer DEF Projected!vars, Projected!program, Bounded
<1>1. Contents'
  BY DEF ProjectedInv, Contents, Programs, Plans, Saying, Sayable
<1>2. Programs'
  BY DEF ProjectedInv, Contents, Programs, Saying, Sayable
<1>3. Plans'
  BY DEF ProjectedInv, Contents, Programs, Plans, PlanFields, Sayable, Saying
<1>4. IdsInv'
  BY DEF ProjectedInv, Contents, Programs, Plans, IdsInv, Unused
<1>5. ToldInv'
  BY DEF ProjectedInv, Contents, Programs, Plans, ToldInv, Told
<1>6. CleanInv'
  BY DEF ProjectedInv, Contents, Programs, Plans, ToldInv, CleanInv, Told
<1>7. WasRight'
  BY DEF ProjectedInv, Contents, Programs, Plans, IdsInv, Unused, WasRight
<1>8. RendersRight'
  BY DEF ProjectedInv, Contents, Programs, Plans, IdsInv, Unused, RendersRight, SaidBy, WasRight
<1>9. Projected!EditsReachTheStore'
  BY DEF ProjectedInv, Contents, Programs, Plans, ToldInv, CleanInv, Told, Saying, Sayable,
         Projected!EditsReachTheStore, Projected!Made, Projected!Edit, Projected!File,
         Projected!Id, Projected!Note
<1>10. ASSUME (jBreach = {})' PROVE OnceSaid'
  <2>0. jBreach = {}
    BY <1>10
  <2>1. OneImporter'
    BY <1>10, <2>0 DEF ProjectedInv, Contents, Programs, Plans, OnceSaid, OneImporter, Importing,
       CleanInv
  <2>2. OneFactEach'
    BY <1>10, <2>0 DEF ProjectedInv, Contents, Programs, Plans, OnceSaid, OneFactEach, SaidBy,
       PlansApart, WasRight
  <2>3. OwnFiles'
    BY <1>10, <2>0 DEF ProjectedInv, Contents, Programs, Plans, OnceSaid, OwnFiles, SaidBy,
       Cleaned, ToClean, RendersRight, PlansApart, OneFactEach, OneImporter, Importing, CleanInv,
       WasRight
  <2>4. OneFileEach'
    BY <1>10, <2>0 DEF ProjectedInv, Contents, Programs, Plans, OnceSaid, OneFileEach, SaidBy,
       Cleaned, ToClean, OwnFiles, OneFactEach, RendersRight, OneImporter
  <2>5. PlansApart'
    BY <1>10, <2>0 DEF ProjectedInv, Contents, Programs, Plans, OnceSaid, PlansApart, SaidBy,
       OneFileEach, OwnFiles, OneImporter, Importing, RendersRight, Cleaned, ToClean, CleanInv,
       WasRight
  <2> QED
    BY <2>1, <2>2, <2>3, <2>4, <2>5 DEF OnceSaid
<1> QED
  BY <1>1, <1>2, <1>3, <1>4, <1>5, <1>6, <1>7, <1>8, <1>9, <1>10 DEF ProjectedInv

\* An agent edits or forgets a fact.
LEMMA StoreChangesKeeps ==
  ASSUME Bounded, ProjectedInv, NEW i \in Projected!Id, Projected!StoreChanges(i)
  PROVE ProjectedInv'
<1> USE NamesDiffer DEF Projected!StoreChanges, Projected!Act, Projected!program, Bounded
<1>a. /\ DOMAIN store' = Projected!Id /\ UNCHANGED <<jFile, manifest, edits>>
           /\ jNext' \in 1 .. MaxFacts + 1
      /\ jNext <= jNext' /\ (jNext' # jNext => jNext \in Projected!Id)
      /\ \A j \in Projected!Id : DOMAIN store'[j] = {"text", "by"}
      /\ \A j \in Projected!Id :
           \/ store'[j].text = store[j].text
                /\ (store[j] = Projected!None => store'[j] = Projected!None)
           \/ store'[j].text = jNext /\ j = jNext /\ j < jNext'
           \/ store'[j] = Projected!None
  <2>1. CASE UNCHANGED jNext
    BY <2>1 DEF ProjectedInv, Contents
  <2>2. CASE jNext' = jNext + 1
    <3>1. jNext \in Projected!Id
      BY <2>2 DEF ProjectedInv, Contents
    <3> QED
      BY <2>2, <3>1 DEF ProjectedInv, Contents
  <2> QED
    BY <2>1, <2>2
<1>b. \A j \in Projected!Id, t \in Projected!Edit : SaidBy(j, t)' => SaidBy(j, t)
  BY <1>a DEF SaidBy
<1>1. Contents'
  BY <1>a DEF ProjectedInv, Contents, Saying, Sayable
<1>2. Programs'
  BY DEF ProjectedInv, Contents, Programs, Saying, Sayable
<1>3. Plans'
  BY DEF ProjectedInv, Contents, Programs, Plans, PlanFields, Sayable, Saying
<1>4. IdsInv'
  BY SMTT(30), <1>a DEF ProjectedInv, Contents, Programs, Plans, IdsInv, Unused
<1>5. ToldInv'
  BY SMTT(30) DEF ProjectedInv, Contents, Programs, Plans, ToldInv, Told
<1>6. CleanInv'
  BY DEF ProjectedInv, Contents, Programs, Plans, ToldInv, CleanInv, Told
<1>7. WasRight'
  <2> SUFFICES ASSUME NEW p \in Proc, NEW op \in plan[p], op.of # 0
               PROVE  store'[op.of] = Projected!None \/ store'[op.of].text = op.was
    BY DEF WasRight
  <2>1. op.of \in Projected!Id /\ (store[op.of] = Projected!None \/ store[op.of].text = op.was)
    BY DEF ProjectedInv, Plans, WasRight
  <2>2. jNext' # jNext => op.of # jNext
    BY <1>a, <2>1 DEF ProjectedInv, Contents, IdsInv, Unused
  <2>3. store[op.of] = Projected!None \/ store[op.of].text = op.was => op.was # Projected!NoText
    BY <2>1 DEF ProjectedInv, Plans
  <2> QED
    BY <1>a, <2>1, <2>2, <2>3
<1>8. RendersRight'
  BY SMTT(30) DEF ProjectedInv, Contents, Programs, Plans, IdsInv, Unused, RendersRight, SaidBy, WasRight
<1>9. Projected!EditsReachTheStore'
  BY DEF ProjectedInv, Contents, Programs, Plans, ToldInv, CleanInv, Told, Saying, Sayable,
         Projected!EditsReachTheStore, Projected!Made, Projected!Edit, Projected!File,
         Projected!Id, Projected!Note
<1>10. ASSUME (jBreach = {})' PROVE OnceSaid'
  <2>0. jBreach = {}
    BY <1>10
  <2>1. OneImporter'
    BY <1>10, <2>0 DEF ProjectedInv, Contents, Programs, Plans, OnceSaid, OneImporter, Importing,
       CleanInv
  <2>2. OneFactEach'
    BY SMTT(30), <1>10, <2>0 DEF ProjectedInv, Contents, Programs, Plans, OnceSaid, OneFactEach, SaidBy,
       PlansApart, WasRight
  <2>3. OwnFiles'
    BY <1>b, <2>0 DEF ProjectedInv, OnceSaid, OwnFiles, Cleaned, ToClean
  <2>4. OneFileEach'
    BY <1>10, <2>0 DEF ProjectedInv, Contents, Programs, Plans, OnceSaid, OneFileEach, SaidBy,
       Cleaned, ToClean, OwnFiles, OneFactEach, RendersRight, OneImporter
  <2>5. PlansApart'
    BY <1>b, <2>0 DEF ProjectedInv, OnceSaid, PlansApart
  <2> QED
    BY <2>1, <2>2, <2>3, <2>4, <2>5 DEF OnceSaid
<1> QED
  BY <1>1, <1>2, <1>3, <1>4, <1>5, <1>6, <1>7, <1>8, <1>9, <1>10 DEF ProjectedInv

\* A fact gets its successor.
LEMMA SupersedeKeeps ==
  ASSUME Bounded, ProjectedInv, NEW p \in Proc, NEW op \in plan[p], Projected!Supersede(p, op)
  PROVE ProjectedInv'
<1> USE NamesDiffer DEF Bounded
<1>1. CASE store[op.of] = Projected!None
  BY <1>1, PlanEndKeeps DEF Projected!Supersede, Projected!Blame
<1>2. CASE store[op.of] # Projected!None
  <2> DEFINE o2 == [op EXCEPT !.of = 0, !.as = jNext]
  <2>1. /\ jPc[p] = "apply" /\ op.of # 0 /\ jNext <= MaxFacts
        /\ store' = [store EXCEPT ![op.of] = [text |-> op.was, by |-> jNext]] /\ jNext' = jNext + 1
        /\ plan' = [plan EXCEPT ![p] = (plan[p] \ {op}) \union {o2}]
        /\ jPc' = [jPc EXCEPT ![p] = "add"]
        /\ UNCHANGED <<jFile, manifest, dirty, render, todo, seen, edits, jActs, landed, undone,
             jBreach>>
    BY <1>2 DEF Projected!Supersede, Projected!Set, Projected!Goto
  <2>2. /\ DOMAIN o2 = PlanFields /\ o2.text = op.text /\ o2.was = op.was /\ o2.of = 0
             /\ o2.as = jNext
    BY DEF ProjectedInv, Plans, PlanFields
  <2>3. /\ op.of \in Projected!Id /\ op.was # Projected!NoText /\ op.was \in Sayable
        /\ op.text \in Sayable /\ op.text # Projected!NoText /\ store[op.of].text = op.was
        /\ jNext \in Projected!Id /\ Unused(jNext) /\ op.of # jNext
        /\ \A o \in plan[p] : o.as = 0
    BY <1>2, <2>1 DEF ProjectedInv, Contents, Plans, WasRight, IdsInv, Unused
  <2> HIDE DEF o2
  <2> DEFINE said == store'[op.of].text
  <2>4. /\ \A j \in Projected!Id : store'[j].text = store[j].text
        /\ \A j \in Projected!Id : j # op.of => store'[j] = store[j]
        /\ store'[op.of] = [text |-> op.was, by |-> jNext] /\ DOMAIN store' = Projected!Id
    BY <2>1, <2>3 DEF ProjectedInv, Contents
  <2>5. /\ \A r \in Proc : r # p => plan'[r] = plan[r]
        /\ plan'[p] = (plan[p] \ {op}) \union {o2} /\ DOMAIN plan' = Proc
    BY <2>1 DEF ProjectedInv, Programs
  <2> QED
    <3>1. Contents'
      BY <2>1, <2>2, <2>3, <2>4, <2>5 DEF ProjectedInv, Contents, Programs, Plans, Saying, Sayable
    <3>2. Programs'
      BY <2>1, <2>2, <2>3, <2>4, <2>5 DEF ProjectedInv, Contents, Programs, Saying, Sayable
    <3>3. Plans'
      BY <2>1, <2>2, <2>3, <2>4, <2>5 DEF ProjectedInv, Contents, Programs, Plans, PlanFields,
         Sayable, Saying
    <3>4. IdsInv'
      BY <2>1, <2>2, <2>3, <2>4, <2>5 DEF ProjectedInv, Contents, Programs, Plans, IdsInv, Unused
    <3>5. ToldInv'
      BY <2>1, <2>2, <2>3, <2>4, <2>5 DEF ProjectedInv, Contents, Programs, Plans, ToldInv, Told
    <3>6. CleanInv'
      BY <2>1, <2>2, <2>3, <2>4, <2>5 DEF ProjectedInv, Contents, Programs, Plans, ToldInv,
         CleanInv, Told
    <3>7. WasRight'
      BY <2>1, <2>2, <2>3, <2>4, <2>5 DEF ProjectedInv, Contents, Programs, Plans, IdsInv, Unused,
         WasRight
    <3>8. RendersRight'
      BY <2>1, <2>2, <2>3, <2>4, <2>5 DEF ProjectedInv, Contents, Programs, Plans, IdsInv, Unused,
         RendersRight, SaidBy, WasRight
    <3>9. Projected!EditsReachTheStore'
      BY <2>1, <2>2, <2>3, <2>4, <2>5 DEF ProjectedInv, Contents, Programs, Plans, ToldInv,
         CleanInv, Told, Saying, Sayable, Projected!EditsReachTheStore, Projected!Made,
         Projected!Edit, Projected!File, Projected!Id, Projected!Note
    <3>10. ASSUME (jBreach = {})' PROVE OnceSaid'
      <4>0. jBreach = {}
        BY <2>1, <2>2, <2>3, <2>4, <2>5, <3>10
      <4>1. OneImporter'
        BY <2>1, <2>2, <2>3, <2>4, <2>5, <3>10, <4>0 DEF ProjectedInv, Contents, Programs, Plans,
           OnceSaid, OneImporter, Importing, CleanInv
      <4>2. OneFactEach'
        BY <2>1, <2>2, <2>3, <2>4, <2>5, <3>10, <4>0 DEF ProjectedInv, Contents, Programs, Plans,
           OnceSaid, OneFactEach, SaidBy, PlansApart, WasRight
      <4>3. OwnFiles'
        BY <2>1, <2>2, <2>3, <2>4, <2>5, <3>10, <4>0 DEF ProjectedInv, Contents, Programs, Plans,
           OnceSaid, OwnFiles, SaidBy, Cleaned, ToClean, RendersRight, PlansApart, OneFactEach,
           OneImporter, Importing, CleanInv, WasRight
      <4>4. OneFileEach'
        BY <2>1, <2>2, <2>3, <2>4, <2>5, <3>10, <4>0 DEF ProjectedInv, Contents, Programs, Plans,
           OnceSaid, OneFileEach, SaidBy, Cleaned, ToClean, OwnFiles, OneFactEach, RendersRight,
           OneImporter
      <4>5. PlansApart'
        BY <2>1, <2>2, <2>3, <2>4, <2>5, <3>10, <4>0 DEF ProjectedInv, Contents, Programs, Plans,
           OnceSaid, PlansApart, SaidBy, OneFileEach, OwnFiles, OneImporter, Importing,
           RendersRight, Cleaned, ToClean, CleanInv, WasRight
      <4> QED
        BY <4>1, <4>2, <4>3, <4>4, <4>5 DEF OnceSaid
    <3> QED
      BY <3>1, <3>2, <3>3, <3>4, <3>5, <3>6, <3>7, <3>8, <3>9, <3>10 DEF ProjectedInv
<1> QED
  BY <1>1, <1>2

\* A planned fact is stored.
LEMMA EditAddKeeps ==
  ASSUME Bounded, ProjectedInv, NEW p \in Proc, NEW op \in plan[p], Projected!AddFact(p, op)
  PROVE ProjectedInv'
<1> USE NamesDiffer DEF Bounded
<1> DEFINE n == IF op.as # 0 THEN op.as ELSE jNext
<1>a. /\ jPc[p] \in {"apply", "add"} /\ store' = [store EXCEPT ![n] = [text |-> op.text, by |-> 0]]
      /\ landed' = landed \union ({op.text} \intersect Projected!Edit)
      /\ plan' = [plan EXCEPT ![p] = plan[p] \ {op}] /\ jPc' = [jPc EXCEPT ![p] = "apply"]
      /\ UNCHANGED <<jFile, manifest, dirty, render, todo, seen, edits, jActs, undone, jBreach>>
      /\ op.as = 0 => jPc[p] = "apply"
      /\ n = jNext => op.as = 0 /\ jNext' = jNext + 1 /\ jNext <= MaxFacts
      /\ n # jNext => op.as = n /\ jNext' = jNext
  BY DEF Projected!AddFact, Projected!Set, Projected!Goto, ProjectedInv, Plans, Contents
<1>b. /\ n \in Projected!Id /\ Unused(n) /\ n < jNext'
      /\ op.text \in Sayable /\ op.text # Projected!NoText
      /\ \A o \in plan[p] : o # op => o.as = 0 \/ o.as = n
  BY <1>a DEF ProjectedInv, Plans, IdsInv, Contents
<1>c. /\ \A j \in Projected!Id : j # n => store'[j] = store[j]
      /\ store'[n] = [text |-> op.text, by |-> 0] /\ DOMAIN store' = Projected!Id
  BY <1>a, <1>b DEF ProjectedInv, Contents
<1>d. /\ \A r \in Proc : r # p => plan'[r] = plan[r]
      /\ plan'[p] = plan[p] \ {op} /\ DOMAIN plan' = Proc
  BY <1>a DEF ProjectedInv, Programs
<1> HIDE DEF n
<1>1. Contents'
  BY <1>a, <1>b, <1>c, <1>d DEF ProjectedInv, Contents, Programs, Plans, Saying, Sayable
<1>2. Programs'
  BY <1>a, <1>b, <1>c, <1>d DEF ProjectedInv, Contents, Programs, Saying, Sayable
<1>3. Plans'
  BY <1>a, <1>b, <1>c, <1>d DEF ProjectedInv, Contents, Programs, Plans, PlanFields, Sayable, Saying
<1>4. IdsInv'
  <2>1. \A i \in Projected!Id : Unused(i) /\ i # n => Unused(i)'
    BY <1>a, <1>b, <1>c, <1>d DEF ProjectedInv, Contents, Programs, Unused
  <2>2. \A i \in Projected!Id : (i >= jNext)' => Unused(i)'
    BY <1>a, <1>b, <2>1 DEF ProjectedInv, IdsInv, Contents, Projected!Id
  <2>3. \A r \in Proc : \A o \in plan'[r] : o.as # 0 => Unused(o.as)'
    BY <1>a, <1>b, <1>d, <2>1 DEF ProjectedInv, IdsInv, Plans
  <2>4. \A r \in Proc : render'[r][Projected!Note] = Projected!NoText
    BY <1>a DEF ProjectedInv, IdsInv
  <2>5. \A i \in Projected!Id : store'[i].text = Projected!NoText => store'[i] = Projected!None
    BY <1>a, <1>b, <1>c DEF ProjectedInv, IdsInv
  <2> QED
    BY <2>2, <2>3, <2>4, <2>5 DEF IdsInv
<1>5. ToldInv'
  BY <1>a, <1>b, <1>c, <1>d DEF ProjectedInv, Contents, Programs, Plans, ToldInv, Told
<1>6. CleanInv'
  BY <1>a, <1>b, <1>c, <1>d DEF ProjectedInv, Contents, Programs, Plans, ToldInv, CleanInv, Told
<1>7. WasRight'
  BY <1>a, <1>b, <1>c, <1>d DEF ProjectedInv, Contents, Programs, Plans, IdsInv, Unused, WasRight
<1>8. RendersRight'
  BY <1>a, <1>b, <1>c, <1>d DEF ProjectedInv, Contents, Programs, Plans, IdsInv, Unused,
     RendersRight, SaidBy, WasRight
<1>9. Projected!EditsReachTheStore'
  BY <1>a, <1>b, <1>c, <1>d DEF ProjectedInv, Contents, Programs, Plans, ToldInv, CleanInv, Told,
     Saying, Sayable, Projected!EditsReachTheStore, Projected!Made, Projected!Edit, Projected!File,
     Projected!Id, Projected!Note
<1>10. ASSUME (jBreach = {})' PROVE OnceSaid'
  <2>0. jBreach = {}
    BY <1>a, <1>b, <1>c, <1>d, <1>10
  <2>1. OneImporter'
    BY <1>a, <1>b, <1>c, <1>d, <1>10, <2>0 DEF ProjectedInv, Contents, Programs, Plans, OnceSaid,
       OneImporter, Importing, CleanInv
  <2>2. OneFactEach'
    BY <1>a, <1>b, <1>c, <1>d, <1>10, <2>0 DEF ProjectedInv, Contents, Programs, Plans, OnceSaid,
       OneFactEach, SaidBy, PlansApart, WasRight
  <2>3. OwnFiles'
    BY <1>a, <1>b, <1>c, <1>d, <1>10, <2>0 DEF ProjectedInv, Contents, Programs, Plans, OnceSaid,
       OwnFiles, SaidBy, Cleaned, ToClean, RendersRight, PlansApart, OneFactEach, OneImporter,
       Importing, CleanInv, WasRight
  <2>4. OneFileEach'
    BY <1>a, <1>b, <1>c, <1>d, <1>10, <2>0 DEF ProjectedInv, Contents, Programs, Plans, OnceSaid,
       OneFileEach, SaidBy, Cleaned, ToClean, OwnFiles, OneFactEach, RendersRight, OneImporter
  <2>5. PlansApart'
    BY <1>a, <1>b, <1>c, <1>d, <1>10, <2>0 DEF ProjectedInv, Contents, Programs, Plans, OnceSaid,
       PlansApart, SaidBy, OneFileEach, OwnFiles, OneImporter, Importing, RendersRight, Cleaned,
       ToClean, CleanInv, WasRight
  <2> QED
    BY <2>1, <2>2, <2>3, <2>4, <2>5 DEF OnceSaid
<1> QED
  BY <1>1, <1>2, <1>3, <1>4, <1>5, <1>6, <1>7, <1>8, <1>9, <1>10 DEF ProjectedInv

\* An import begins.
LEMMA ImportKeeps ==
  ASSUME Bounded, ProjectedInv, NEW p \in Proc, Projected!Import(p) PROVE ProjectedInv'
<1> USE NamesDiffer DEF Bounded
<1> DEFINE Ask(y) == jFile[y] # Projected!NoText /\ jFile[y] # manifest[y]
<1>a. /\ jPc[p] = "idle" /\ jPc' = [jPc EXCEPT ![p] = "apply"]
      /\ DOMAIN plan' = Proc /\ \A r \in Proc : r # p => plan'[r] = plan[r]
      /\ dirty' = [dirty EXCEPT ![p] = {y \in Projected!File : Ask(y)}]
      /\ seen' = [seen EXCEPT ![p] = jFile]
      /\ jBreach \subseteq jBreach'
      /\ jBreach' = {} => \A q \in Proc : ~Importing(q)
      /\ UNCHANGED <<store, jFile, manifest, render, todo, jNext, edits, landed, undone>>
  BY DEF Projected!Import, Projected!Set, Projected!Goto, Projected!Blame, Projected!Changed,
         ProjectedInv, Programs,
     Importing
<1>b. plan'[p] = {Projected!Planned(y) : y \in {z \in Projected!Changed :
                    Projected!FactOf(z) = 0 \/ store[z].text # jFile[z]}}
  BY DEF Projected!Import, Projected!Set, ProjectedInv, Programs
<1>c. ASSUME NEW y \in Projected!File PROVE
        LET o == Projected!Planned(y) IN
        /\ DOMAIN o = PlanFields /\ o.text = jFile[y] /\ o.as = 0 /\ o.file = y
        /\ o.of \in Projected!Id \union {0}
        /\ o.of # 0 => o.of = y /\ store[y] # Projected!None /\ o.was = store[y].text
        /\ o.of = 0 => o.was = Projected!NoText
        /\ o.of = 0 /\ y \in Projected!Id => store[y] = Projected!None
        /\ o.of = Projected!FactOf(y)
  BY DEF Projected!Planned, Projected!FactOf, PlanFields
<1>d. ASSUME NEW o \in plan'[p] PROVE
        /\ DOMAIN o = PlanFields /\ o.as = 0 /\ o.file \in Projected!File
             /\ o = Projected!Planned(o.file)
        /\ Ask(o.file) /\ o.text = jFile[o.file]
        /\ o.of \in Projected!Id \union {0}
        /\ o.of # 0 => /\ o.of = o.file /\ store[o.of] # Projected!None /\ o.was = store[o.of].text
                       /\ store[o.of].text # o.text
        /\ o.of = 0 => o.was = Projected!NoText
        /\ o.of = 0 /\ o.file \in Projected!Id => store[o.file] = Projected!None
  <2>1. PICK y \in Projected!Changed : o = Projected!Planned(y)
               /\ (Projected!FactOf(y) = 0 \/ store[y].text # jFile[y])
    BY <1>b
  <2>2. y \in Projected!File /\ Ask(y)
    BY DEF Projected!Changed
  <2> QED
    BY <2>1, <2>2, <1>c
<1>e. ASSUME NEW y \in Projected!File, Ask(y), ~(y \in Projected!Id /\ SaidBy(y, jFile[y]))
      PROVE  \E o \in plan'[p] : o.text = jFile[y]
  <2>1. Projected!FactOf(y) = 0 \/ store[y].text # jFile[y]
    BY <1>e DEF SaidBy, Projected!FactOf
  <2>2. Projected!Planned(y) \in plan'[p]
    BY <2>1, <1>e, <1>b DEF Projected!Changed
  <2> QED
    BY <2>2, <1>c
<1>f. ASSUME NEW o \in plan'[p] PROVE
        /\ o.text \in Sayable /\ o.text # Projected!NoText
        /\ o.was \in Sayable /\ (o.of # 0 => o.was # Projected!NoText)
  BY <1>d DEF ProjectedInv, Contents, IdsInv, Saying, Sayable
<1> HIDE DEF Ask
<1>1. Contents'
  BY <1>a, <1>d DEF ProjectedInv, Contents, Programs, Plans, Saying, Sayable
<1>2. Programs'
  BY <1>a, <1>d DEF ProjectedInv, Contents, Programs, Saying, Sayable
<1>3. Plans'
  BY <1>a, <1>d, <1>f DEF ProjectedInv, Contents, Programs, Plans, PlanFields, Sayable, Saying
<1>4. IdsInv'
  <2>1. ASSUME NEW i \in Projected!Id, i >= jNext PROVE Unused(i)'
    BY <1>a, <1>d, <2>1 DEF ProjectedInv, IdsInv, Unused
  <2>2. ASSUME NEW r \in Proc, NEW o \in plan'[r], o.as # 0 PROVE Unused(o.as)'
    <3>1. r # p /\ o \in plan[r] /\ Unused(o.as)
      BY <1>a, <1>d, <2>2 DEF ProjectedInv, IdsInv
    <3>2. \A o3 \in plan'[p] : o3.of # o.as
      BY <1>d, <3>1, <2>2 DEF ProjectedInv, Plans, Unused
    <3> QED
      BY <1>a, <3>1, <3>2 DEF Unused
  <2> QED
    BY <1>a, <2>1, <2>2 DEF ProjectedInv, IdsInv
<1>5. ToldInv'
  BY <1>a, <1>d DEF ProjectedInv, Contents, Programs, Plans, ToldInv, Told
<1>6. CleanInv'
  <2>1. ASSUME NEW y \in dirty'[p], seen'[p][y] \in Projected!Edit \ landed
        PROVE  \E o \in plan'[p] : o.text = seen'[p][y]
    <3>1. y \in Projected!File /\ Ask(y) /\ seen'[p][y] = jFile[y]
      BY <1>a DEF ProjectedInv, Programs
    <3>2. ~(y \in Projected!Id /\ SaidBy(y, jFile[y]))
      BY <2>1, <3>1 DEF ProjectedInv, ToldInv, Told, SaidBy
    <3> QED
      BY <3>1, <3>2, <1>e
  <2> QED
    BY <1>a, <1>d, <2>1 DEF ProjectedInv, Contents, Programs, CleanInv, Told
<1>7. WasRight'
  BY <1>a, <1>d DEF ProjectedInv, Contents, Programs, Plans, IdsInv, Unused, WasRight
<1>8. RendersRight'
  BY <1>a, <1>d DEF ProjectedInv, Contents, Programs, Plans, IdsInv, Unused, RendersRight, SaidBy,
     WasRight
<1>9. Projected!EditsReachTheStore'
  BY <1>a, <1>d DEF ProjectedInv, Contents, Programs, Plans, ToldInv, CleanInv, Told, Saying,
     Sayable, Projected!EditsReachTheStore, Projected!Made, Projected!Edit, Projected!File,
     Projected!Id, Projected!Note
<1>10. ASSUME (jBreach = {})' PROVE OnceSaid'
  <2>0. jBreach = {}
    BY <1>a, <1>d, <1>10
  <2>1. OneImporter'
    BY <1>a, <1>d, <1>10, <2>0 DEF ProjectedInv, Contents, Programs, Plans, OnceSaid, OneImporter,
       Importing, CleanInv
  <2>2. OneFactEach'
    BY <1>a, <1>d, <1>10, <2>0 DEF ProjectedInv, Contents, Programs, Plans, OnceSaid, OneFactEach,
       SaidBy, PlansApart, WasRight
  <2>3. OwnFiles'
    BY <1>a, <1>d, <1>10, <2>0 DEF ProjectedInv, Contents, Programs, Plans, OnceSaid, OwnFiles,
       SaidBy, Cleaned, ToClean, RendersRight, PlansApart, OneFactEach, OneImporter, Importing,
       CleanInv, WasRight
  <2>4. OneFileEach'
    <3>1. \A y \in Projected!File : Cleaned(y)
      BY <1>a, <1>10 DEF Cleaned, ToClean, Importing
    <3> QED
      BY <1>a, <2>0, <3>1 DEF ProjectedInv, OnceSaid, OneFileEach
  <2>5. PlansApart'
    <3>1. \A y \in Projected!File : Cleaned(y)
      BY <1>a, <1>10 DEF Cleaned, ToClean, Importing
    <3>2. ASSUME NEW o \in plan'[p], o.text \in Projected!Edit, NEW j \in Projected!Id
          PROVE ~SaidBy(j, o.text)
      BY <1>d, <2>0, <3>1, <3>2 DEF ProjectedInv, OnceSaid, OwnFiles, SaidBy
    <3>3. ASSUME NEW o \in plan'[p], o.text \in Projected!Edit, NEW y \in Projected!File,
                 jFile[y] = o.text
          PROVE  y = o.file
      BY <1>d, <2>0, <3>1, <3>3 DEF ProjectedInv, OnceSaid, OneFileEach
    <3>4. ASSUME NEW o \in plan'[p], NEW o3 \in plan'[p], o.text \in Projected!Edit,
                 o3.text = o.text
          PROVE  o3 = o
      BY <1>d, <3>3, <3>4
    <3>5. ASSUME NEW o \in plan'[p] PROVE o.file \in dirty'[p]
      BY <1>a, <1>d DEF ProjectedInv, Programs
    <3>6. \A r \in Proc : r # p => plan'[r] = {}
      BY <1>a, <1>10 DEF Importing, ProjectedInv, CleanInv
    <3> QED
      <4>1. \A i \in Projected!Id, t \in Projected!Edit : SaidBy(i, t)' <=> SaidBy(i, t)
        BY <1>a DEF SaidBy
      <4> QED
        <5> SUFFICES ASSUME NEW r \in Proc, NEW o \in plan'[r], o.text \in Projected!Edit
                     PROVE  /\ \A i \in Projected!Id : ~SaidBy(i, o.text)'
                            /\ \A o3 \in plan'[r] : o3.text = o.text => o3 = o
                            /\ \A x \in Projected!File : jFile'[x] = o.text => x \in dirty'[r]
          BY DEF PlansApart
        <5>1. r = p
          BY <3>6
        <5>2. \A i \in Projected!Id : ~SaidBy(i, o.text)
          BY <5>1, <3>2
        <5>3. \A o3 \in plan'[r] : o3.text = o.text => o3 = o
          BY <5>1, <3>4
        <5>4. \A x \in Projected!File : jFile'[x] = o.text => x \in dirty'[r]
          BY <1>a, <5>1, <3>3, <3>5
        <5> QED
          BY <5>2, <5>3, <5>4, <1>a DEF SaidBy
  <2> QED
    BY <2>1, <2>2, <2>3, <2>4, <2>5 DEF OnceSaid
<1> QED
  BY <1>1, <1>2, <1>3, <1>4, <1>5, <1>6, <1>7, <1>8, <1>9, <1>10 DEF ProjectedInv

\* The files are compared with the manifest.
LEMMA CheckKeeps ==
  ASSUME Bounded, ProjectedInv, NEW p \in Proc, Projected!Check(p) PROVE ProjectedInv'
<1> USE NamesDiffer DEF Bounded
<1>1. CASE Projected!Unimported(p) # {}
  <2>1. (jBreach = {})' => ~Importing(p)
    BY <1>1 DEF Projected!Check, Projected!Blame, Importing
  <2> QED
    BY <1>1, <2>1, PlanEndKeeps DEF Projected!Check, Projected!Blame
<1>2. CASE Projected!Unimported(p) = {}
  <2> DEFINE R == Projected!Rendered
             W == Projected!Work(p)
  <2>1. /\ jPc[p] = "check" /\ jPc' = [jPc EXCEPT ![p] = "write"]
        /\ render' = [render EXCEPT ![p] = R] /\ todo' = [todo EXCEPT ![p] = W]
        /\ seen' = [seen EXCEPT ![p] = [x \in Projected!File |-> IF x \in dirty[p] THEN seen[p][x]
             ELSE jFile[x]]]
        /\ jBreach \subseteq jBreach'
        /\ (\E x \in W \ dirty[p] : manifest[x] = Projected!NoText
             /\ jFile[x] \in Projected!Edit \ landed)
             => "unlisted" \in jBreach'
        /\ UNCHANGED <<store, jFile, manifest, plan, dirty, jNext, edits, jActs, landed, undone>>
    BY <1>2 DEF Projected!Check, Projected!StartWriting, Projected!Set, Projected!Goto,
       Projected!Blame
  <2>2. /\ DOMAIN R = Projected!File /\ R[Projected!Note] = Projected!NoText
        /\ \A i \in Projected!Id :
             R[i] = Projected!NoText \/ (store[i] # Projected!None /\ R[i] = store[i].text)
        /\ R \in [Projected!File -> Sayable]
    BY DEF Projected!Rendered, ProjectedInv, Contents, Sayable
  <2>3. dirty[p] \subseteq W /\ W \subseteq Projected!File
    BY DEF Projected!Work, Projected!Stale, ProjectedInv, Programs
  <2>4. \A x \in Projected!File \ dirty[p] :
          manifest[x] = Projected!NoText \/ jFile[x] = Projected!NoText \/ jFile[x] = manifest[x]
    BY <1>2 DEF Projected!Unimported
  <2> HIDE DEF R, W
  <2> QED
    <3>1. Contents'
      BY <2>1, <2>2, <2>3 DEF ProjectedInv, Contents, Programs, Plans, Saying, Sayable
    <3>2. Programs'
      BY <2>1, <2>2, <2>3 DEF ProjectedInv, Contents, Programs, Saying, Sayable
    <3>3. Plans'
      BY <2>1, <2>2, <2>3 DEF ProjectedInv, Contents, Programs, Plans, PlanFields, Sayable, Saying
    <3>4. IdsInv'
      BY <2>1, <2>2, <2>3 DEF ProjectedInv, Contents, Programs, Plans, IdsInv, Unused
    <3>5. ToldInv'
      BY <2>1, <2>2, <2>3 DEF ProjectedInv, Contents, Programs, Plans, ToldInv, Told
    <3>6. CleanInv'
    <4>1. ASSUME "unlisted" \notin jBreach', NEW x \in W PROVE Told(seen'[p][x])
      <5>1. x \in dirty[p] => seen'[p][x] = seen[p][x]
        BY <2>1, <2>3 DEF ProjectedInv, Programs
      <5>2. x \notin dirty[p] => seen'[p][x] = jFile[x]
        BY <2>1, <2>3 DEF ProjectedInv, Programs
      <5>3. x \in dirty[p] => Told(seen[p][x])
        BY <2>1 DEF ProjectedInv, CleanInv, Told
      <5>4. x \notin dirty[p] => Told(jFile[x])
        BY <2>1, <2>3, <2>4, <4>1 DEF ProjectedInv, ToldInv, Told
      <5> QED
        BY <2>1, <5>1, <5>2, <5>3, <5>4 DEF Told
    <4>2. \A r \in Proc : r # p => seen'[r] = seen[r] /\ todo'[r] = todo[r] /\ jPc'[r] = jPc[r]
      BY <2>1 DEF ProjectedInv, Programs
    <4>3. jPc'[p] = "write" /\ todo'[p] = W
      BY <2>1 DEF ProjectedInv, Programs
    <4> QED
      <5>1. UNCHANGED <<dirty, plan, landed>> /\ jBreach \subseteq jBreach'
        BY <2>1
      <5>2. \A r \in Proc : jPc'[r] \in {"apply", "add"} => \A x \in dirty'[r] :
              Told(seen'[r][x]) \/ \E op \in plan'[r] : op.text = seen'[r][x]
        BY <4>2, <4>3, <5>1 DEF ProjectedInv, CleanInv, Told
      <5>3. \A r \in Proc : jPc'[r] = "check" => \A x \in dirty'[r] : Told(seen'[r][x])
        BY <4>2, <4>3, <5>1 DEF ProjectedInv, CleanInv, Told
      <5>4. \A r \in Proc : jPc'[r] = "write" /\ "unlisted" \notin jBreach' =>
              \A x \in todo'[r] : Told(seen'[r][x])
        BY <4>1, <4>2, <4>3, <5>1 DEF ProjectedInv, CleanInv, Told
      <5>5. \A r \in Proc : jPc'[r] = "idle" => dirty'[r] = {}
        BY <4>2, <4>3, <5>1 DEF ProjectedInv, CleanInv
      <5>6. \A r \in Proc : jPc'[r] \notin {"apply", "add"} => plan'[r] = {}
        BY <2>1, <4>2, <4>3, <5>1 DEF ProjectedInv, CleanInv
      <5> QED
        BY <5>1, <5>2, <5>3, <5>4, <5>5, <5>6 DEF CleanInv, Told
    <3>7. WasRight'
      BY <2>1, <2>2, <2>3 DEF ProjectedInv, Contents, Programs, Plans, IdsInv, Unused, WasRight
    <3>8. RendersRight'
      BY <2>1, <2>2, <2>3 DEF ProjectedInv, Contents, Programs, Plans, IdsInv, Unused,
         RendersRight, SaidBy, WasRight
    <3>9. Projected!EditsReachTheStore'
      BY <2>1, <2>2, <2>3 DEF ProjectedInv, Contents, Programs, Plans, ToldInv, CleanInv, Told,
         Saying, Sayable, Projected!EditsReachTheStore, Projected!Made, Projected!Edit,
         Projected!File, Projected!Id, Projected!Note
    <3>10. ASSUME (jBreach = {})' PROVE OnceSaid'
      <4>0. jBreach = {}
        BY <2>1, <2>2, <2>3, <3>10
      <4>1. OneImporter'
        BY <2>1, <2>2, <2>3, <3>10, <4>0 DEF ProjectedInv, Contents, Programs, Plans, OnceSaid,
           OneImporter, Importing, CleanInv
      <4>2. OneFactEach'
        BY <2>1, <2>2, <2>3, <3>10, <4>0 DEF ProjectedInv, Contents, Programs, Plans, OnceSaid,
           OneFactEach, SaidBy, PlansApart, WasRight
      <4>3. OwnFiles'
      <5>1. \A x \in Projected!File : Cleaned(x)' => Cleaned(x)
        BY <2>1, <2>3 DEF ProjectedInv, Programs, Cleaned, ToClean
      <5> QED
        BY <2>1, <4>0, <5>1 DEF ProjectedInv, OnceSaid, OwnFiles, SaidBy
      <4>4. OneFileEach'
      <5>1. \A x \in Projected!File : Cleaned(x)' => Cleaned(x)
        BY <2>1, <2>3 DEF ProjectedInv, Programs, Cleaned, ToClean
      <5> QED
        BY <2>1, <4>0, <5>1 DEF ProjectedInv, OnceSaid, OneFileEach
      <4>5. PlansApart'
        BY <2>1, <2>2, <2>3, <3>10, <4>0 DEF ProjectedInv, Contents, Programs, Plans, OnceSaid,
           PlansApart, SaidBy, OneFileEach, OwnFiles, OneImporter, Importing, RendersRight,
           Cleaned, ToClean, CleanInv, WasRight
      <4> QED
        BY <4>1, <4>2, <4>3, <4>4, <4>5 DEF OnceSaid
    <3> QED
      BY <3>1, <3>2, <3>3, <3>4, <3>5, <3>6, <3>7, <3>8, <3>9, <3>10 DEF ProjectedInv
<1> QED
  BY <1>1, <1>2

\* A file is written.
LEMMA WriteFileKeeps ==
  ASSUME Bounded, ProjectedInv, NEW p \in Proc, NEW x \in Projected!File, Projected!WriteFile(p, x)
  PROVE ProjectedInv'
<1> USE NamesDiffer DEF Bounded
<1>a. /\ jPc[p] = "write" /\ x \in todo[p]
      /\ jFile' = [jFile EXCEPT ![x] = render[p][x]]
      /\ todo' = [todo EXCEPT ![p] = todo[p] \ {x}]
      /\ jBreach \subseteq jBreach'
      /\ "raced" \notin jBreach' => ~Projected!Races(p, x)
      /\ "late" \notin jBreach' => ~Projected!Forgotten(p, x)
      /\ jBreach' = {} \/ jBreach' # {}
      /\ UNCHANGED <<store, manifest, jPc, plan, dirty, render, seen, jNext, edits, jActs, landed,
           undone>>
  BY DEF Projected!WriteFile, Projected!Set, Projected!Blame
<1>b. /\ jFile'[x] = render[p][x] /\ \A y \in Projected!File : y # x => jFile'[y] = jFile[y]
      /\ \A r \in Proc : r # p => todo'[r] = todo[r]
      /\ todo'[p] = todo[p] \ {x}
  BY <1>a DEF ProjectedInv, Contents, Programs, Saying
<1>c. ASSUME (jBreach = {})', render[p][x] \in Projected!Edit
      PROVE  x \in Projected!Id /\ SaidBy(x, render[p][x])
  <2>1. x \in Projected!Id
    BY <1>c DEF ProjectedInv, IdsInv
  <2>2. store[x] # Projected!None
    BY <1>a, <1>c DEF Projected!Forgotten
  <2> QED
    BY <2>1, <2>2, <1>c DEF ProjectedInv, RendersRight
<1>d. ASSUME NEW y \in Projected!File, y # x, Cleaned(y)' PROVE Cleaned(y)
  BY <1>b, <1>a, <1>d DEF Cleaned, ToClean
<1>1. Contents'
  BY <1>a, <1>b DEF ProjectedInv, Contents, Programs, Plans, Saying, Sayable
<1>2. Programs'
  BY <1>a, <1>b DEF ProjectedInv, Contents, Programs, Saying, Sayable
<1>3. Plans'
  BY <1>a, <1>b DEF ProjectedInv, Contents, Programs, Plans, PlanFields, Sayable, Saying
<1>4. IdsInv'
  BY <1>a, <1>b DEF ProjectedInv, Contents, Programs, Plans, IdsInv, Unused
<1>5. ToldInv'
  BY <1>a, <1>b DEF ProjectedInv, Contents, Programs, Plans, ToldInv, Told
<1>6. CleanInv'
  BY <1>a, <1>b DEF ProjectedInv, Contents, Programs, Plans, ToldInv, CleanInv, Told
<1>7. WasRight'
  BY <1>a, <1>b DEF ProjectedInv, Contents, Programs, Plans, IdsInv, Unused, WasRight
<1>8. RendersRight'
  BY <1>a, <1>b DEF ProjectedInv, Contents, Programs, Plans, IdsInv, Unused, RendersRight, SaidBy,
     WasRight
<1>9. Projected!EditsReachTheStore'
  <2>1. ASSUME jBreach' \intersect {"raced", "unlisted"} = {}, jFile[x] \in Projected!Edit \ landed
        PROVE  jFile[x] = render[p][x]
    <3>1. Told(seen[p][x])
      BY <1>a, <2>1 DEF ProjectedInv, CleanInv
    <3> QED
      BY <1>a, <2>1, <3>1 DEF Projected!Races, Told
  <2>2. \A t \in Projected!Made : t \in Projected!Edit
    BY DEF Projected!Made, Projected!Edit, ProjectedInv, Contents
  <2>3. Projected!Made' = Projected!Made
    BY <1>a DEF Projected!Made
  <2> QED
    BY <1>a, <1>b, <2>1, <2>2, <2>3 DEF ProjectedInv, Projected!EditsReachTheStore
<1>10. ASSUME (jBreach = {})' PROVE OnceSaid'
  <2>0. jBreach = {}
    BY <1>a, <1>b, <1>10
  <2>1. OneImporter'
    BY <1>a, <1>b, <1>10, <2>0 DEF ProjectedInv, Contents, Programs, Plans, OnceSaid, OneImporter,
       Importing, CleanInv
  <2>2. OneFactEach'
    BY <1>a, <1>b, <1>10, <2>0 DEF ProjectedInv, Contents, Programs, Plans, OnceSaid, OneFactEach,
       SaidBy, PlansApart, WasRight
  <2>3. OwnFiles'
    <3> SUFFICES ASSUME NEW i \in Projected!Id, NEW y \in Projected!File,
                        jFile'[y] \in Projected!Edit, SaidBy(i, jFile'[y]), Cleaned(y)'
                 PROVE  y = i
      BY <1>a DEF OwnFiles, SaidBy
    <3>1. CASE y = x
      BY <3>1, <1>b, <1>c, <1>10, <2>0 DEF ProjectedInv, OnceSaid, OneFactEach
    <3>2. CASE y # x
      BY <3>2, <1>b, <1>d, <2>0 DEF ProjectedInv, OnceSaid, OwnFiles
    <3> QED
      BY <3>1, <3>2
  <2>4. OneFileEach'
    <3>1. ASSUME NEW y \in Projected!File, y # x, jFile'[y] = jFile'[x],
                 jFile'[x] \in Projected!Edit,
                 Cleaned(y)'
          PROVE  FALSE
      BY <3>1, <1>b, <1>c, <1>d, <1>10, <2>0 DEF ProjectedInv, OnceSaid, OwnFiles
    <3>2. ASSUME NEW y \in Projected!File, NEW z \in Projected!File, y # x, z # x,
                 jFile'[y] = jFile'[z],
                 jFile'[y] \in Projected!Edit, Cleaned(y)', Cleaned(z)'
          PROVE  y = z
      BY <3>2, <1>b, <1>d, <2>0 DEF ProjectedInv, OnceSaid, OneFileEach
    <3> QED
      BY <3>1, <3>2 DEF OneFileEach
  <2>5. PlansApart'
    <3>1. ASSUME NEW q \in Proc, NEW o \in plan[q], o.text \in Projected!Edit,
                 NEW y \in Projected!File,
                 jFile'[y] = o.text
          PROVE  y \in dirty[q]
      BY <3>1, <1>b, <1>c, <1>10, <2>0 DEF ProjectedInv, OnceSaid, PlansApart
    <3> QED
      BY <1>a, <3>1, <2>0 DEF ProjectedInv, OnceSaid, PlansApart, SaidBy
  <2> QED
    BY <2>1, <2>2, <2>3, <2>4, <2>5 DEF OnceSaid
<1> QED
  BY <1>1, <1>2, <1>3, <1>4, <1>5, <1>6, <1>7, <1>8, <1>9, <1>10 DEF ProjectedInv

\* A human edits a file.
LEMMA HumanEditsKeeps ==
  ASSUME Bounded, ProjectedInv, NEW x \in Projected!File, Projected!HumanEdits(x)
  PROVE ProjectedInv'
<1> USE NamesDiffer DEF Bounded
<1>a. PICK t \in Int :
        /\ jFile' = [jFile EXCEPT ![x] = t] /\ edits' \in 0 .. MaxEdits
        /\ \/ edits' = edits + 1 /\ t = MaxFacts + edits' /\ t \in Projected!Edit
           \/ edits' = edits /\ t = Projected!NoText
        /\ undone' = undone \union ({jFile[x]} \intersect Projected!Edit)
        /\ UNCHANGED <<store, manifest, jPc, plan, dirty, render, todo, seen, jNext, landed,
             jBreach>>
  <2>1. MaxFacts + edits + 1 \in Int /\ Projected!NoText \in Int
    BY DEF ProjectedInv, Contents, Projected!NoText
  <2> QED
    BY <2>1 DEF Projected!HumanEdits, Projected!program, ProjectedInv, Contents, Projected!Edit
<1>b. /\ jFile'[x] = t /\ \A y \in Projected!File : y # x => jFile'[y] = jFile[y]
  BY <1>a DEF ProjectedInv, Contents, Saying
<1>e. MaxFacts \in Nat /\ edits \in Nat
  BY DEF ProjectedInv, Contents
<1>c. /\ t \in Sayable' /\ \A s \in Sayable : s \in Sayable' /\ (t \in Projected!Edit => s # t)
  <2>1. CASE edits' = edits + 1 /\ t = MaxFacts + edits' /\ t \in Projected!Edit
    <3>1. ASSUME NEW s \in Sayable PROVE s \in Sayable' /\ s # t
      BY <2>1, <1>e DEF Sayable
    <3> QED
      BY <2>1, <1>e, <3>1 DEF Sayable
  <2>2. CASE edits' = edits /\ t = Projected!NoText
    BY <2>2 DEF Sayable
  <2> QED
    BY <1>a, <2>1, <2>2
<1>d. \A y \in Projected!File : jFile[y] \in Sayable /\ manifest[y] \in Sayable
  BY DEF ProjectedInv, Contents, Saying
<1>1. Contents'
  <2>1. jFile' \in Saying' /\ manifest' \in Saying'
    BY <1>a, <1>b, <1>c, <1>d DEF ProjectedInv, Contents, Saying
  <2> QED
    BY <1>a, <1>c, <2>1 DEF ProjectedInv, Contents
<1>2. Programs'
  <2>1. ASSUME NEW s \in Saying PROVE s \in Saying'
    BY <1>c DEF Saying
  <2> QED
    BY <1>a, <2>1 DEF ProjectedInv, Programs
<1>3. Plans'
  <2>1. \A s \in Sayable : s \in Sayable'
    BY <1>c
  <2> QED
    BY <1>a, <2>1 DEF ProjectedInv, Plans
<1>4. IdsInv'
  BY <1>a, <1>b, <1>c DEF ProjectedInv, Contents, Programs, Plans, IdsInv, Unused
<1>5. ToldInv'
  BY <1>a, <1>b, <1>c DEF ProjectedInv, Contents, Programs, Plans, ToldInv, Told
<1>6. CleanInv'
  BY <1>a, <1>b, <1>c DEF ProjectedInv, Contents, Programs, Plans, ToldInv, CleanInv, Told
<1>7. WasRight'
  BY <1>a, <1>b, <1>c DEF ProjectedInv, Contents, Programs, Plans, IdsInv, Unused, WasRight
<1>8. RendersRight'
  BY <1>a, <1>b, <1>c DEF ProjectedInv, Contents, Programs, Plans, IdsInv, Unused, RendersRight,
     SaidBy, WasRight
<1>9. Projected!EditsReachTheStore'
  <2>1. \A s \in Projected!Made' : s \in Projected!Made \/ s = t
    <3>1. CASE edits' = edits + 1 /\ t = MaxFacts + edits'
      BY <3>1, <1>e DEF Projected!Made
    <3>2. CASE edits' = edits
      BY <3>2 DEF Projected!Made
    <3> QED
      BY <1>a, <3>1, <3>2
  <2>2. \A s \in Projected!Made : s \in Projected!Edit
    BY DEF ProjectedInv, Contents, Projected!Made, Projected!Edit
  <2>3. ASSUME NEW s \in Projected!Made', s \notin undone', jBreach \intersect {"raced",
               "unlisted"} = {}
        PROVE  s \in landed \/ \E y \in Projected!File : jFile'[y] = s
    <3>1. CASE s = t
      BY <3>1, <1>b
    <3>2. CASE s # t
      BY <3>2, <1>a, <1>b, <2>1, <2>2, <2>3 DEF ProjectedInv, Projected!EditsReachTheStore
    <3> QED
      BY <3>1, <3>2
  <2> QED
    BY <1>a, <2>3 DEF Projected!EditsReachTheStore
<1>10. ASSUME (jBreach = {})' PROVE OnceSaid'
  <2>0. jBreach = {}
    BY <1>a, <1>b, <1>c, <1>10
  <2>1. OneImporter'
    BY <1>a, <1>b, <1>c, <1>10, <2>0 DEF ProjectedInv, Contents, Programs, Plans, OnceSaid,
       OneImporter, Importing, CleanInv
  <2>2. OneFactEach'
    BY <1>a, <1>b, <1>c, <1>10, <2>0 DEF ProjectedInv, Contents, Programs, Plans, OnceSaid,
       OneFactEach, SaidBy, PlansApart, WasRight
  <2>3. OwnFiles'
    <3> SUFFICES ASSUME NEW i \in Projected!Id, NEW y \in Projected!File,
                        jFile'[y] \in Projected!Edit, SaidBy(i, jFile'[y]), Cleaned(y)
                 PROVE  y = i
      BY <1>a DEF OwnFiles, SaidBy, Cleaned, ToClean
    <3>1. y # x
      BY <1>a, <1>b, <1>c DEF ProjectedInv, Contents, SaidBy
    <3> QED
      BY <3>1, <1>b, <2>0 DEF ProjectedInv, OnceSaid, OwnFiles
  <2>4. OneFileEach'
    <3>1. ASSUME NEW y \in Projected!File, y # x, jFile'[y] = jFile'[x],
                 jFile'[x] \in Projected!Edit
          PROVE FALSE
      BY <3>1, <1>a, <1>b, <1>c, <1>d
    <3>2. ASSUME NEW y \in Projected!File, NEW z \in Projected!File, y # x, z # x,
                 jFile'[y] = jFile'[z],
                 jFile'[y] \in Projected!Edit, Cleaned(y), Cleaned(z)
          PROVE  y = z
      BY <3>2, <1>b, <2>0 DEF ProjectedInv, OnceSaid, OneFileEach
    <3> QED
      BY <1>a, <3>1, <3>2 DEF OneFileEach, Cleaned, ToClean
  <2>5. PlansApart'
    <3>1. ASSUME NEW q \in Proc, NEW o \in plan[q], o.text \in Projected!Edit,
                 NEW y \in Projected!File,
                 jFile'[y] = o.text
          PROVE  y \in dirty[q]
      <4>1. y # x
        BY <3>1, <1>a, <1>b, <1>c DEF ProjectedInv, Plans
      <4> QED
        BY <3>1, <4>1, <1>b, <2>0 DEF ProjectedInv, OnceSaid, PlansApart
    <3> QED
      BY <1>a, <3>1, <2>0 DEF ProjectedInv, OnceSaid, PlansApart, SaidBy
  <2> QED
    BY <2>1, <2>2, <2>3, <2>4, <2>5 DEF OnceSaid
<1> QED
  BY <1>1, <1>2, <1>3, <1>4, <1>5, <1>6, <1>7, <1>8, <1>9, <1>10 DEF ProjectedInv

\* Edits of exported files reach the store, and short of the breaches become one fact each.
THEOREM EditsBecomeFacts ==
  ASSUME Bounded
  PROVE Projected!Spec => [](Projected!EditsReachTheStore /\ Projected!OneFactPerEdit)
<1>1. Projected!Init => ProjectedInv
  <2> SUFFICES ASSUME Projected!Init PROVE ProjectedInv
    OBVIOUS
  <2> USE NamesDiffer DEF Projected!Init, Projected!Blank, Bounded
  <2>1. Contents /\ Programs /\ Plans
    <3>1. Projected!Blank \in Saying
      BY DEF Saying, Sayable
    <3>2. Contents
      <4>1. \A i \in Projected!Id : DOMAIN store[i] = {"text", "by"} /\ store[i].text \in Sayable
        BY DEF Sayable
      <4> QED
        BY <3>1, <4>1 DEF Contents
    <3>3. Programs
      BY <3>1 DEF Programs
    <3>4. Plans
      BY DEF Plans
    <3> QED
      BY <3>2, <3>3, <3>4
  <2>2. IdsInv
    BY DEF IdsInv, Unused
  <2>3. ToldInv /\ CleanInv /\ WasRight /\ RendersRight
    BY DEF ToldInv, CleanInv, WasRight, RendersRight, Told, SaidBy
  <2>4. Projected!EditsReachTheStore
    BY DEF Projected!EditsReachTheStore, Projected!Made
  <2>5. OnceSaid
    BY DEF OnceSaid, OneImporter, Importing, OneFactEach, OwnFiles, OneFileEach, PlansApart, SaidBy
  <2> QED
    BY <2>1, <2>2, <2>3, <2>4, <2>5 DEF ProjectedInv
<1>2. ProjectedInv /\ [Projected!Next]_(Projected!vars) => ProjectedInv'
  BY ImportKeeps, SupersedeKeeps, EditAddKeeps, ImportDoneKeeps, ExportKeeps, CheckKeeps,
     WriteFileKeeps,
     WriteManifestKeeps, DieKeeps, HumanEditsKeeps, StoreChangesKeeps,
       PlanRestKeeps DEF Projected!Next
<1>3. ProjectedInv => Projected!EditsReachTheStore /\ Projected!OneFactPerEdit
  <2> SUFFICES ASSUME ProjectedInv, jBreach = {}, NEW t \in Projected!Edit
      PROVE  Projected!EditsReachTheStore
               /\ Cardinality({i \in Projected!Id : store[i].text = t}) <= 1
    BY ProjectedLibrary DEF ProjectedInv, Projected!OneFactPerEdit
  <2>1. \A i, j \in {k \in Projected!Id : store[k].text = t} : i = j
    BY DEF ProjectedInv, OnceSaid, OneFactEach, SaidBy
  <2> QED
    BY <2>1, AtMostOne DEF ProjectedInv
<1> QED
  BY <1>1, <1>2, <1>3, PTL DEF Projected!Spec

-----------------------------------------------------------------------------
(* Backups (Backup).                                                        *)

CONSTANTS File, MaxVersions
VARIABLES repo, snapshot, bManifest, bPc, bTodo, made, bActs, bSeen, during, restored

Backups == INSTANCE Backup WITH
  MaxActs <- Limit["Backups"], manifest <- bManifest, pc <- bPc, todo <- bTodo,
  acts <- bActs, seen <- bSeen

\* No file has a name of the missing manifest.
FilesAreNamed == Backups!NoBackup \intersect File = {} /\ Backups!NoManifest \intersect File = {}

\* The copy holds what the repository had since the export began, and a file it lacks was
\* missing then, once the export is over.
CopyInv ==
  /\ \A f \in File : snapshot[f] = 0 \/ snapshot[f] \in bSeen[f]
  /\ bManifest = Backups!NoBackup => \A f \in File : snapshot[f] = 0
  /\ bPc = "copy" =>
        /\ bManifest = Backups!NoManifest
        /\ \A f \in File : repo[f] \in bSeen[f]
        /\ \A f \in File : f \notin bTodo /\ snapshot[f] = 0 => 0 \in bSeen[f]
  /\ bManifest \notin {Backups!NoBackup, Backups!NoManifest} =>
        \A f \in File : f \notin bManifest => 0 \in bSeen[f]

\* An import clears what is there and copies what the manifest lists, all of it there.
ImportInv ==
  /\ bPc \in {"clear", "restore"} =>
        /\ bManifest \notin {Backups!NoBackup, Backups!NoManifest}
        /\ bManifest \subseteq Backups!There(snapshot)
  /\ bPc = "clear" => \A f \in File \ (during \union bTodo) : repo[f] = 0
  /\ bPc = "restore" =>
        /\ bTodo \subseteq bManifest
        /\ \A f \in File \ during : f \notin bManifest \/ f \in bTodo => repo[f] = 0
        /\ \A f \in (File \intersect bManifest) \ (during \union bTodo) : repo[f] = snapshot[f]

BackupInv ==
  /\ DOMAIN repo = File /\ DOMAIN snapshot = File /\ DOMAIN bSeen = File
  /\ CopyInv /\ ImportInv
  /\ restored => bPc = "idle"
  /\ Backups!RestoredIsWhole

\* What an import has restored is a whole backup, whatever died before and whoever wrote
\* meanwhile.
THEOREM ImportsRestoreAll ==
  ASSUME FilesAreNamed PROVE Backups!Spec => []Backups!RestoredIsWhole
<1>1. Backups!Init => BackupInv
  BY FilesAreNamed DEF Backups!Init, Backups!Nothing, BackupInv, CopyInv, ImportInv,
     Backups!RestoredIsWhole
<1>2. BackupInv /\ [Backups!Next]_(Backups!vars) => BackupInv'
  <2> SUFFICES ASSUME BackupInv, [Backups!Next]_(Backups!vars) PROVE BackupInv'
    OBVIOUS
  <2> USE FilesAreNamed DEF FilesAreNamed, Backups!NoBackup, Backups!NoManifest
  <2>1. ASSUME NEW f \in File, Backups!Others(f) PROVE BackupInv'
    BY <2>1 DEF Backups!Others, BackupInv, CopyInv, ImportInv, Backups!RestoredIsWhole,
       Backups!There
  <2>2. ASSUME NEW f \in File, Backups!Copy(f) PROVE BackupInv'
    BY <2>2 DEF Backups!Copy, BackupInv, CopyInv, ImportInv, Backups!RestoredIsWhole, Backups!There
  <2>3. ASSUME NEW f \in File, Backups!Damage(f) PROVE BackupInv'
    BY <2>3 DEF Backups!Damage, BackupInv, CopyInv, ImportInv, Backups!RestoredIsWhole,
       Backups!There
  <2>4. ASSUME NEW f \in File, Backups!Clear(f) PROVE BackupInv'
    BY <2>4 DEF Backups!Clear, BackupInv, CopyInv, ImportInv, Backups!RestoredIsWhole, Backups!There
  <2>5. ASSUME NEW f \in File, Backups!Restore(f) PROVE BackupInv'
    BY <2>5 DEF Backups!Restore, BackupInv, CopyInv, ImportInv, Backups!RestoredIsWhole,
       Backups!There
  <2>6. CASE Backups!Export
    BY <2>6 DEF Backups!Export, BackupInv, CopyInv, ImportInv, Backups!RestoredIsWhole,
       Backups!There
  <2>7. CASE Backups!WriteManifest
    BY <2>7 DEF Backups!WriteManifest, Backups!Copied, BackupInv, CopyInv, ImportInv,
       Backups!RestoredIsWhole, Backups!There
  <2>8. CASE Backups!Discard
    BY <2>8 DEF Backups!Discard, Backups!Nothing, BackupInv, CopyInv, ImportInv,
       Backups!RestoredIsWhole, Backups!There
  <2>9. ASSUME NEW force \in BOOLEAN, Backups!Import(force) PROVE BackupInv'
    BY <2>9 DEF Backups!Import, BackupInv, CopyInv, ImportInv, Backups!RestoredIsWhole,
       Backups!There
  <2>10. CASE Backups!Restart
    BY <2>10 DEF Backups!Restart, Backups!Cleared, BackupInv, CopyInv, ImportInv,
       Backups!RestoredIsWhole, Backups!There
  <2>11. CASE Backups!Finish
    BY <2>11 DEF Backups!Finish, BackupInv, CopyInv, ImportInv, Backups!RestoredIsWhole,
       Backups!There
  <2>12. CASE Backups!Die
    BY <2>12 DEF Backups!Die, BackupInv, CopyInv, ImportInv, Backups!RestoredIsWhole, Backups!There
  <2>13. CASE UNCHANGED Backups!vars
    BY <2>13 DEF Backups!vars, BackupInv, CopyInv, ImportInv, Backups!RestoredIsWhole, Backups!There
  <2> QED
    BY <2>1, <2>2, <2>3, <2>4, <2>5, <2>6, <2>7, <2>8, <2>9, <2>10, <2>11, <2>12, <2>13
       DEF Backups!Next
<1>3. BackupInv => Backups!RestoredIsWhole
  BY DEF BackupInv
<1> QED
  BY <1>1, <1>2, <1>3, PTL DEF Backups!Spec

-----------------------------------------------------------------------------
(* Versions (Schema).                                                       *)

CONSTANT MaxRevs
VARIABLES
  version, header, index, sFile, fix, fixer, dream, by, sPc, text, sTodo, done, sMade, sActs,
  last, spoilt, outcome, calm, settled

Versions == INSTANCE Schema WITH
  MaxActs <- Limit["Versions"], file <- sFile, pc <- sPc, todo <- sTodo, made <- sMade,
  acts <- sActs

\* Fact files and what a migration has read of them.
FilesInv ==
  /\ sFile \in [File -> [head : 0 .. 2, rev : Nat]]
  /\ text \in [File -> [head : 0 .. 2, rev : Nat] \union {Versions!Unread}]
  /\ sPc \in {"idle", "read", "write", "restore"} /\ sMade \in Nat
  /\ last \in [File -> Nat]

\* The files the migration has written, or is to write, are files it has read; the others,
\* once looked at, had today's version already.
MigratesInv ==
  /\ \A f \in File \ spoilt : sFile[f].rev = last[f]
  /\ sPc # "idle" =>
        /\ outcome = "none"
        /\ \A f \in File \ spoilt : text[f] # Versions!Unread => text[f].rev = last[f]
        /\ sTodo \subseteq File /\ done \subseteq Versions!Pending
        /\ \A f \in Versions!Pending \ (spoilt \union done) : sFile[f] = text[f]
  /\ sPc = "read" =>
        /\ done = {}
        /\ \A f \in File \ sTodo : text[f] = Versions!Unread => sFile[f].head = Versions!FactCurrent
  /\ sPc = "write" =>
        /\ sTodo \subseteq Versions!Pending
        /\ \A f \in File \ Versions!Pending : sFile[f].head = Versions!FactCurrent
        /\ \A f \in File \ (sTodo \union spoilt) : sFile[f].head = Versions!FactCurrent

\* Short of a repair since it began, the dream works on the version its preflight saw.
DreamsInv ==
  /\ dream \in {"idle", "header", "index"}
  /\ dream # "idle" /\ calm => fix = "idle" /\ version = by
  /\ dream = "index" /\ calm => header = by
  /\ settled => dream = "idle" /\ fix = "idle"

SchemaInv ==
  /\ FilesInv /\ MigratesInv /\ DreamsInv
  /\ Versions!MigrationIsWhole /\ Versions!DreamSettlesVersions

\* A step of migrate, of humans or of commands is of no concern to repairs and dreams, and
\* the other way round.
LEMMA RepairsKeep ==
  ASSUME SchemaInv, Versions!Elsewhere, DreamsInv', Versions!DreamSettlesVersions'
  PROVE  SchemaInv'
  BY DEF SchemaInv, FilesInv, MigratesInv, Versions!MigrationIsWhole, Versions!Elsewhere,
     Versions!migration, Versions!Pending

\* And the other way round.
LEMMA MigrationKeeps ==
  ASSUME SchemaInv, Versions!Others, FilesInv', MigratesInv', Versions!MigrationIsWhole'
  PROVE  SchemaInv'
  BY DEF SchemaInv, DreamsInv, Versions!DreamSettlesVersions, Versions!Others, Versions!repo

\* A migration loses no facts, and a dream that no repair disturbs settles the versions.
THEOREM VersionsSettle ==
  Versions!Spec => [](Versions!MigrationIsWhole /\ Versions!DreamSettlesVersions)
<1>1. Versions!Init => SchemaInv
  BY SMTT(30) DEF Versions!Init, SchemaInv, FilesInv, MigratesInv, DreamsInv, Versions!MigrationIsWhole,
     Versions!DreamSettlesVersions, Versions!Unread, Versions!Pending
<1>2. SchemaInv /\ [Versions!Next]_(Versions!vars) => SchemaInv'
  <2> SUFFICES ASSUME SchemaInv, [Versions!Next]_(Versions!vars) PROVE SchemaInv'
    OBVIOUS
  <2> USE DEF Versions!repo, Versions!Act
  <2>1. ASSUME NEW v \in Versions!Program, Versions!Fix(v) PROVE SchemaInv'
    BY <2>1, RepairsKeep DEF Versions!Fix, SchemaInv, DreamsInv, Versions!DreamSettlesVersions
  <2>2. ASSUME NEW v \in Versions!Program, Versions!Preflight(v) PROVE SchemaInv'
    BY <2>2, RepairsKeep DEF Versions!Preflight, SchemaInv, DreamsInv, Versions!DreamSettlesVersions
  <2>3. CASE Versions!Open
    BY <2>3, RepairsKeep DEF Versions!Open, SchemaInv, DreamsInv, Versions!DreamSettlesVersions
  <2>4. CASE Versions!Number
    BY <2>4, RepairsKeep DEF Versions!Number, SchemaInv, DreamsInv, Versions!DreamSettlesVersions
  <2>5. CASE Versions!Header
    BY <2>5, RepairsKeep DEF Versions!Header, SchemaInv, DreamsInv, Versions!DreamSettlesVersions
  <2>6. CASE Versions!Rebuild
    BY <2>6, RepairsKeep DEF Versions!Rebuild, SchemaInv, DreamsInv, Versions!DreamSettlesVersions
  <2>7. CASE Versions!DieFixing
    BY <2>7, RepairsKeep DEF Versions!DieFixing, SchemaInv, DreamsInv, Versions!DreamSettlesVersions
  <2>8. CASE Versions!WriteMemory
    BY <2>8, RepairsKeep DEF Versions!WriteMemory, SchemaInv, DreamsInv,
       Versions!DreamSettlesVersions
  <2>9. CASE Versions!Refresh
    BY <2>9, RepairsKeep DEF Versions!Refresh, Versions!Refreshed, SchemaInv, DreamsInv,
       Versions!DreamSettlesVersions
  <2>10. CASE Versions!DieDreaming
    BY <2>10, RepairsKeep DEF Versions!DieDreaming, SchemaInv, DreamsInv,
       Versions!DreamSettlesVersions
  <2> USE DEF FilesInv, MigratesInv, Versions!MigrationIsWhole, Versions!Pending,
              Versions!FactCurrent, SchemaInv,
      Versions!Unread
  <2>11. CASE Versions!Migrate
    BY <2>11, MigrationKeeps DEF Versions!Migrate
  <2>12. CASE Versions!StartWriting
    BY <2>12, MigrationKeeps DEF Versions!StartWriting
  <2>13. CASE Versions!Finish
    BY <2>13, MigrationKeeps DEF Versions!Finish
  <2>14. CASE Versions!DieMigrating
    <3>1. CASE UNCHANGED <<sFile, spoilt>>
      BY <2>14, <3>1, MigrationKeeps DEF Versions!DieMigrating
    <3>2. ASSUME NEW f \in File, sFile' = [sFile EXCEPT ![f] = Versions!Cut],
                 spoilt' = spoilt \union {f},
                 f \in sTodo \union done, sPc \in {"write", "restore"}
          PROVE  SchemaInv'
      BY <2>14, <3>2, MigrationKeeps DEF Versions!DieMigrating, Versions!Cut
    <3> QED
      BY <2>14, <3>1, <3>2 DEF Versions!DieMigrating
  <2>15. ASSUME NEW f \in File, Versions!Read(f) PROVE SchemaInv'
    BY <2>15, MigrationKeeps DEF Versions!Read
  <2>16. ASSUME NEW f \in File, Versions!Put(f) PROVE SchemaInv'
    BY <2>16, MigrationKeeps DEF Versions!Put, Versions!Updated
  <2>17. ASSUME NEW f \in File, Versions!PutFails(f) PROVE SchemaInv'
    BY <2>17, MigrationKeeps DEF Versions!PutFails, Versions!Cut
  <2>18. ASSUME NEW f \in File, Versions!Restore(f) PROVE SchemaInv'
    BY <2>18, MigrationKeeps DEF Versions!Restore, Versions!Restored
  <2>19. ASSUME NEW f \in File, Versions!Write(f) PROVE SchemaInv'
    BY <2>19, MigrationKeeps DEF Versions!Write
  <2>20. CASE UNCHANGED Versions!vars
    BY <2>20 DEF Versions!vars, Versions!migration, DreamsInv, Versions!DreamSettlesVersions
  <2> QED
    BY <2>1, <2>2, <2>3, <2>4, <2>5, <2>6, <2>7, <2>8, <2>9, <2>10, <2>11, <2>12, <2>13, <2>14,
       <2>15, <2>16, <2>17, <2>18, <2>19, <2>20 DEF Versions!Next
<1>3. SchemaInv => Versions!MigrationIsWhole /\ Versions!DreamSettlesVersions
  BY DEF SchemaInv
<1> QED
  BY <1>1, <1>2, <1>3, PTL DEF Versions!Spec

-----------------------------------------------------------------------------
(* Actions on facts (FactActions).                                          *)

CONSTANT FactId
VARIABLES mode, wt, log, branch, fSide, pr, body, past, fPc, fJob, fActs, fBreach

Actions == INSTANCE FactActions WITH
  Fact <- FactId, MaxActs <- Limit["Actions"], side <- fSide, pc <- fPc, job <- fJob,
  acts <- fActs, breach <- fBreach

\* What is committed, and what was when the action began.
Tip == [r \in Actions!Repo |-> Actions!Last(log[r])]
Base == [r \in Actions!Repo |-> log[r][fJob.before[r]]]

\* A tree with nothing but tombstones in the tombstones' file, and a line for a fact.
Sane(t) == t \in Actions!Tree /\ \A x \in t["tombs"] : x[2] = "tomb"
OneItem(t) == \A q \in Actions!Files : \A x, y \in t[q] : x[1] = y[1] => x = y

\* Where f, or its tombstone, is, and that f is in one place or has a tombstone.
Holds(W, r, q, f) == \E x \in W[r][q] : x[1] = f
Homes(W, f) == {c \in Actions!Repo \X Actions!Files : Holds(W, c[1], c[2], f)}
Whole(W, f) ==
  IF <<f, "tomb">> \in W["project"]["tombs"] THEN Homes(W, f) = {}
  ELSE \E c \in Actions!Repo \X Actions!Files : Homes(W, f) = {c}
AllWhole(W) == \A f \in FactId : Actions!Known(f) => Whole(W, f)

\* f, or its tombstone, is in the places of S.
Within(W, f, S) == \E r \in Actions!Repo : \E q \in S[r] : Holds(W, r, q, f)
Everywhere == [r \in Actions!Repo |-> Actions!Place]
Somewhere(W, V, f) == Within(W, f, Everywhere) \/ Within(V, f, Everywhere)

\* No breach but deaths.
Calm == fBreach \subseteq {"died"}

Shapes ==
  /\ wt \in [Actions!Repo -> Actions!Tree] /\ \A r \in Actions!Repo : Sane(wt[r])
  /\ log \in [Actions!Repo -> Seq(Actions!Tree)]
  /\ \A r \in Actions!Repo : log[r] # << >> /\ \A i \in DOMAIN log[r] : Sane(log[r][i])

\* What the action noted: the repositories and files it changes, and what they were.
Notes ==
  /\ DOMAIN fJob = {"todo", "scope", "snap", "before", "committed"}
  /\ fJob.scope \in [Actions!Repo -> SUBSET Actions!Place] /\ fJob.committed \subseteq Actions!Repo
  /\ fJob.before \in [Actions!Repo -> Nat]
  /\ fJob.snap \in [Actions!Repo -> Actions!Tree] /\ \A r \in Actions!Repo : Sane(fJob.snap[r])

\* A write within a scope, and what it makes of the working trees.
IsWrite(w, scope) ==
  /\ w.do \in {"put", "cut"} /\ w.place \in scope[w.r]
  /\ w.place = "tombs" => w.item[2] = "tomb"
Did(W, w) ==
  LET gone == {x \in W[w.r][w.place] : x[1] = w.item[1]}
  IN  IF w.do = "put" THEN [W EXCEPT ![w.r][w.place] = (@ \ gone) \union {w.item}]
      ELSE [W EXCEPT ![w.r][w.place] = @ \ gone]

\* What an action makes of the files of its scope, which were S: no fact disappears, and
\* those that were in one place, or are new, are in one.
GoesWell(S, scope, W, f) ==
  /\ Within(S, f, scope) => Within(W, f, scope)
  /\ Whole(S, f) \/ (Homes(S, f) = {} /\ Homes(W, f) # {}) => Whole(W, f)
EndsWell(S, scope, W) == \A f \in FactId : GoesWell(S, scope, W, f)
AddsNone(S, W) == \A f \in FactId : Homes(W, f) # {} => Homes(S, f) # {}

\* One or two writes, then the commit of r, or those of s and r.
Doing(a, b, r, s, W) ==
  /\ IsWrite(a, fJob.scope) /\ IsWrite(b, fJob.scope)
  /\ \A t \in Actions!Repo : fJob.scope[t] # {} => t \in {r, s}
  /\ fJob.scope[r] # {} /\ fJob.scope[s] # {}
  /\ EndsWell(fJob.snap, fJob.scope, W) /\ (r # s => AddsNone(fJob.snap, W))
  /\ \/ /\ fJob.committed = {}
        /\ \/ /\ fJob.todo = IF r = s THEN <<a, b, Actions!Commit(r)>>
                   ELSE <<a, b, Actions!Commit(s), Actions!Commit(r)>>
              /\ W = Did(Did(wt, a), b)
           \/ /\ fJob.todo = IF r = s THEN <<b, Actions!Commit(r)>>
                   ELSE <<b, Actions!Commit(s), Actions!Commit(r)>>
              /\ W = Did(wt, b)
           \/ /\ fJob.todo = IF r = s THEN <<Actions!Commit(r)>>
                   ELSE <<Actions!Commit(s), Actions!Commit(r)>>
              /\ W = wt
     \/ r # s /\ fJob.committed = {s} /\ fJob.todo = <<Actions!Commit(r)>> /\ W = wt
Stages == \E a, b \in Actions!Step, r, s \in Actions!Repo, W \in [Actions!Repo -> Actions!Tree] :
   Doing(a, b, r, s, W)

\* The files out of its scope are as they were, and what it has not committed; what it has
\* is one commit further.
UnderWay ==
  /\ \A r \in Actions!Repo :
       /\ fJob.before[r] \in 1 .. Len(log[r])
       /\ r \notin fJob.committed => Len(log[r]) = fJob.before[r]
       /\ r \in fJob.committed =>
            /\ Len(log[r]) = fJob.before[r] + 1 /\ fJob.scope[r] # {}
            /\ \A q \in Actions!Place :
                 Actions!Last(log[r])[q] = IF q \in fJob.scope[r] THEN wt[r][q] ELSE Base[r][q]
       /\ \A q \in fJob.scope[r] : fJob.snap[r][q] = Base[r][q]
       /\ \A q \in Actions!Place \ fJob.scope[r] : wt[r][q] = fJob.snap[r][q]
  /\ \A f \in FactId : Actions!Known(f) => Somewhere(fJob.snap, Base, f)
  /\ fBreach = {} => fJob.snap = Base /\ AllWhole(Base)

\* Actions without a proposal: idle, the working trees are what was committed; a process that
\* dies between the commits leaves every fact somewhere.
DirectInv ==
  /\ Shapes /\ Notes
  /\ branch = "main" /\ pr = "none" /\ fPc \in {"idle", "run", "undo"}
  /\ fBreach = {} /\ fPc = "idle" => wt = Tip /\ AllWhole(Tip)
  /\ \A f \in FactId : Actions!Known(f) => Somewhere(wt, Tip, f)
  /\ fPc = "run" => Stages
  /\ fPc # "idle" => UnderWay

\* What a body says of a tree, and what may be merged: with the tree in the place of the
\* project's, every known fact is whole.
KnownFacts == {f \in FactId : Actions!Known(f)}
Described(said, base, t) ==
  said # {} => t = [q \in Actions!Place |->
                     IF q = "tombs" THEN base[q] \union Actions!Tombs({e[1] : e \in said})
                     ELSE base[q] \ {x \in {e[1] : e \in said} : <<x, q>> \in said}]
Proposal(T, facts, said, t) ==
  /\ Sane(t) /\ OneItem(t) /\ \A f \in facts : Whole([T EXCEPT !["project"] = t], f)
  /\ \A q \in Actions!Files : \A x \in t[q] : x[1] \in facts
  /\ Described(said, T["project"], t)

OneEach(S) == S \subseteq Actions!Item \X Actions!Files /\ \A d, e \in S : d[1][1] = e[1][1]
  => d = e

GovernedInv ==
  /\ Shapes /\ Notes
  /\ fSide \in Seq(Actions!Tree) /\ Len(fSide) <= 2 /\ branch \in {"main", "side"}
  /\ fPc \in {"idle", "branch", "commit", "clean", "back", "push"}
  /\ wt["user"] = Tip["user"] /\ AllWhole(Tip) /\ OneItem(Tip["project"])
  /\ OneEach(past) /\ OneEach(body)
  /\ fSide # << >> => fSide[1] = Tip["project"]
  /\ branch = "main" => wt["project"] = Tip["project"] /\ fPc \in {"idle", "push"}
  /\ fPc = "idle" /\ fBreach = {} => branch = "main"
  /\ branch = "main" /\ Len(fSide) = 2 => Proposal(Tip, KnownFacts, body, fSide[2])
  /\ fPc = "push" \/ pr = "open" => branch = "main" /\ Len(fSide) = 2
  /\ fPc \in {"branch", "commit", "clean"} => Len(fSide) = 1 /\ fJob.committed = {}
  /\ fPc \in {"branch", "commit"} => Proposal(Tip, KnownFacts, body, fJob.snap["project"])
  /\ fPc = "commit" => wt["project"] = fJob.snap["project"]
  /\ fPc = "back" => /\ wt["project"] = Actions!Last(fSide)
                     /\ fJob.committed = {} => Len(fSide) = 1
                     /\ fJob.committed # {} => Len(fSide) = 2
                          /\ Proposal(Tip, KnownFacts, body, fSide[2])

ActionsInv ==
  /\ mode \in {"direct", "governed"}
  /\ Calm => IF mode = "direct" THEN DirectInv ELSE GovernedInv

\* The operators that FactActions takes from the library are the library's.
LEMMA ActionsLibrary == \A S : Actions!Cardinality(S) = Cardinality(S)
  BY DEF Actions!Cardinality, Cardinality, Actions!IsFiniteSet, IsFiniteSet

\* What a write makes of the working trees, file by file.
LEMMA DidIs ==
  ASSUME NEW W \in [Actions!Repo -> Actions!Tree], NEW w \in Actions!Step,
         NEW scope \in [Actions!Repo -> SUBSET Actions!Place], IsWrite(w, scope)
  PROVE  /\ Did(W, w) \in [Actions!Repo -> Actions!Tree]
         /\ \A r \in Actions!Repo, q \in Actions!Place :
              Did(W, w)[r][q] =
                IF r = w.r /\ q = w.place
                THEN {x \in W[r][q] : x[1] # w.item[1]} \union IF w.do = "put" THEN {w.item} ELSE {}
                ELSE W[r][q]
         /\ (\A r \in Actions!Repo : Sane(W[r])) => \A r \in Actions!Repo : Sane(Did(W, w)[r])
<1> DEFINE gone == {x \in W[w.r][w.place] : x[1] = w.item[1]}
<1>1. w.r \in Actions!Repo /\ w.place \in Actions!Place /\ w.item \in Actions!Item
        /\ w.do \in {"put", "cut"}
      /\ (w.place = "tombs" => w.item[2] = "tomb")
  BY DEF IsWrite, Actions!Step
<1>2. W[w.r] \in Actions!Tree /\ W[w.r][w.place] \subseteq Actions!Item
  BY <1>1 DEF Actions!Tree
<1> DEFINE R == {x \in W[w.r][w.place] : x[1] # w.item[1]} \union IF w.do = "put" THEN {w.item}
      ELSE {}
           V == [W[w.r] EXCEPT ![w.place] = R]
<1>3. Did(W, w) = [W EXCEPT ![w.r] = V]
  <2>1. W[w.r][w.place] \ gone = {x \in W[w.r][w.place] : x[1] # w.item[1]}
    OBVIOUS
  <2>2. CASE w.do = "put"
    BY <2>1, <2>2 DEF Did
  <2>3. CASE w.do = "cut"
    <3>1. R = W[w.r][w.place] \ gone
      BY <2>1, <2>3
    <3> QED
      BY <3>1, <2>3 DEF Did
  <2> QED
    BY <2>2, <2>3, <1>1
<1>4. R \subseteq Actions!Item /\ (w.place = "tombs" /\ Sane(W[w.r]) => \A x \in R : x[2] = "tomb")
  BY <1>1, <1>2 DEF Sane
<1> HIDE DEF R
<1>5. V \in Actions!Tree /\ \A q \in Actions!Place : V[q] = IF q = w.place THEN R ELSE W[w.r][q]
  BY <1>1, <1>2, <1>4 DEF Actions!Tree
<1> HIDE DEF V
<1>6. Did(W, w) \in [Actions!Repo -> Actions!Tree]
        /\ \A r \in Actions!Repo : Did(W, w)[r] = IF r = w.r THEN V ELSE W[r]
  BY <1>1, <1>3, <1>5
<1>7. ASSUME \A r \in Actions!Repo : Sane(W[r]), NEW r \in Actions!Repo PROVE Sane(Did(W, w)[r])
  BY <1>1, <1>4, <1>5, <1>6, <1>7 DEF Sane, Actions!Place
<1> QED
  BY <1>5, <1>6, <1>7 DEF R

\* A commit adds its tree to the history of its repository, and makes the tree's facts known.
LEMMA CommitIs ==
  ASSUME Shapes, NEW r \in Actions!Repo, NEW t \in Actions!Tree, Sane(t),
         log' = [log EXCEPT ![r] = Append(@, t)]
  PROVE  /\ log' \in [Actions!Repo -> Seq(Actions!Tree)]
         /\ \A s \in Actions!Repo : log'[s] # << >> /\ \A i \in DOMAIN log'[s] : Sane(log'[s][i])
         /\ Len(log'[r]) = Len(log[r]) + 1 /\ Actions!Last(log'[r]) = t
         /\ \A s \in Actions!Repo \ {r} : log'[s] = log[s]
         /\ \A s \in Actions!Repo : \A i \in 1 .. Len(log[s]) : log'[s][i] = log[s][i]
         /\ Tip' = [Tip EXCEPT ![r] = t]
         /\ \A f \in FactId : Actions!Known(f)' <=> Actions!Known(f) \/ Actions!Has(t, f) # {}
<1>1. log \in [Actions!Repo -> Seq(Actions!Tree)] /\ \A s \in Actions!Repo : log[s] # << >>
        /\ \A i \in DOMAIN log[s] : Sane(log[s][i])
  BY DEF Shapes
<1>2. log'[r] = Append(log[r], t) /\ \A s \in Actions!Repo \ {r} : log'[s] = log[s]
  BY <1>1
<1>3. log' \in [Actions!Repo -> Seq(Actions!Tree)]
  BY <1>1
<1>4. Len(log'[r]) = Len(log[r]) + 1 /\ log'[r] # << >> /\ DOMAIN log'[r] = 1 .. Len(log[r]) + 1
      /\ log'[r][Len(log[r]) + 1] = t /\ \A i \in 1 .. Len(log[r]) : log'[r][i] = log[r][i]
  BY <1>1, <1>2
<1>5. \A s \in Actions!Repo : DOMAIN log[s] = 1 .. Len(log[s]) /\ Len(log[s]) \in Nat
  BY <1>1
<1>6. Actions!Last(log'[r]) = t
  BY <1>4 DEF Actions!Last
<1>7. \A s \in Actions!Repo : \A i \in DOMAIN log'[s] : Sane(log'[s][i])
  <2> TAKE s \in Actions!Repo
  <2>1. CASE s # r
    BY <2>1, <1>1, <1>2
  <2>2. CASE s = r
    <3> TAKE i \in DOMAIN log'[s]
    <3>1. i \in 1 .. Len(log[r]) \/ i = Len(log[r]) + 1
      BY <2>2, <1>4, <1>5
    <3> QED
      BY <3>1, <2>2, <1>1, <1>4, <1>5
  <2> QED
    BY <2>1, <2>2
<1>8. Tip' = [Tip EXCEPT ![r] = t]
  <2>1. \A s \in Actions!Repo : Actions!Last(log'[s]) = IF s = r THEN t ELSE Actions!Last(log[s])
    BY <1>2, <1>6
  <2> HIDE DEF Actions!Last
  <2> QED
    BY <2>1 DEF Tip
<1>9. ASSUME NEW f \in FactId PROVE Actions!Known(f)' <=> Actions!Known(f) \/ Actions!Has(t, f) # {}
  <2>1. Actions!Known(f)' => Actions!Known(f) \/ Actions!Has(t, f) # {}
    <3> SUFFICES ASSUME NEW s \in Actions!Repo, NEW i \in DOMAIN log'[s],
                   Actions!Has(log'[s][i], f) # {}
                 PROVE  Actions!Known(f) \/ Actions!Has(t, f) # {}
      BY DEF Actions!Known
    <3>1. CASE s = r /\ i = Len(log[r]) + 1
      BY <3>1, <1>4
    <3>2. CASE ~(s = r /\ i = Len(log[r]) + 1)
      <4>1. i \in DOMAIN log[s] /\ log'[s][i] = log[s][i]
        BY <3>2, <1>2, <1>4, <1>5
      <4> QED
        BY <4>1 DEF Actions!Known
    <3> QED
      BY <3>1, <3>2
  <2>2. Actions!Known(f) => Actions!Known(f)'
    <3> SUFFICES ASSUME NEW s \in Actions!Repo, NEW i \in DOMAIN log[s],
                   Actions!Has(log[s][i], f) # {}
                 PROVE  Actions!Known(f)'
      BY DEF Actions!Known
    <3>1. i \in DOMAIN log'[s] /\ log'[s][i] = log[s][i]
      BY <1>2, <1>4, <1>5
    <3> QED
      BY <3>1 DEF Actions!Known
  <2>3. Actions!Has(t, f) # {} => Actions!Known(f)'
    <3>1. Len(log[r]) + 1 \in DOMAIN log'[r]
      BY <1>4, <1>5
    <3> QED
      BY <3>1, <1>4 DEF Actions!Known
  <2> QED
    BY <2>1, <2>2, <2>3
<1> QED
  BY <1>2, <1>3, <1>4, <1>6, <1>7, <1>8, <1>9, <1>1

\* What is left of the action after its first step.
LEMMA ProgramsAre ==
  ASSUME NEW a, NEW b, NEW c, NEW d
  PROVE  /\ Head(<<a, b, c>>) = a /\ Tail(<<a, b, c>>) = <<b, c>> /\ Len(<<a, b, c>>) = 3
         /\ Head(<<a, b, c, d>>) = a /\ Tail(<<a, b, c, d>>) = <<b, c, d>>
              /\ Len(<<a, b, c, d>>) = 4
         /\ Head(<<a, b>>) = a /\ Tail(<<a, b>>) = <<b>> /\ Len(<<a, b>>) = 2
         /\ Head(<<a>>) = a /\ Len(<<a>>) = 1
  OBVIOUS

\* A fact that was somewhere is somewhere when no file of the scope lost it for good.
LEMMA NothingGone ==
  ASSUME Notes, NEW f \in FactId, NEW W, NEW T,
         \A r \in Actions!Repo : \A q \in Actions!Place \ fJob.scope[r] : W[r][q] = fJob.snap[r][q]
           /\ T[r][q] = Base[r][q],
         \A r \in Actions!Repo : \A q \in fJob.scope[r] : fJob.snap[r][q] = Base[r][q],
         Within(fJob.snap, f, fJob.scope) => Within(W, f, fJob.scope) \/ Within(T, f, fJob.scope),
         Somewhere(fJob.snap, Base, f)
  PROVE  Somewhere(W, T, f)
<1>1. \A r \in Actions!Repo : fJob.scope[r] \subseteq Actions!Place
  BY DEF Notes
<1>2. ASSUME NEW V, Within(V, f, fJob.scope) PROVE Within(V, f, Everywhere)
  BY <1>1, <1>2 DEF Within, Everywhere, Holds
<1>3. PICK r \in Actions!Repo, q \in Actions!Place :
        (\E x \in fJob.snap[r][q] : x[1] = f) \/ (\E x \in Base[r][q] : x[1] = f)
  BY DEF Somewhere, Within, Everywhere, Holds
<1>4. CASE q \in fJob.scope[r]
  <2>1. Within(fJob.snap, f, fJob.scope)
    BY <1>3, <1>4 DEF Within, Holds
  <2> QED
    BY <2>1, <1>2 DEF Somewhere
<1>5. CASE q \notin fJob.scope[r]
  BY <1>3, <1>5 DEF Somewhere, Within, Everywhere, Holds
<1> QED
  BY <1>4, <1>5

\* A write of the action changes files of its scope; what is known stays somewhere.
LEMMA WriteKeeps ==
  ASSUME DirectInv, mode = "direct", Calm, fPc = "run", Actions!RunStep,
         Head(fJob.todo).do # "commit",
         NEW a \in Actions!Step, NEW b \in Actions!Step, NEW r \in Actions!Repo,
               NEW s \in Actions!Repo, NEW W \in [Actions!Repo -> Actions!Tree],
         Doing(a, b, r, s, W)
  PROVE  DirectInv'
<1> DEFINE w == Head(fJob.todo)
<1>1. /\ w \in Actions!Step /\ IsWrite(w, fJob.scope) /\ Len(fJob.todo) # 1 /\ fJob.committed = {}
      /\ \/ /\ w = a /\ W = Did(Did(wt, a), b)
            /\ Tail(fJob.todo) = IF r = s THEN <<b, Actions!Commit(r)>>
                 ELSE <<b, Actions!Commit(s), Actions!Commit(r)>>
         \/ /\ w = b /\ W = Did(wt, b)
            /\ Tail(fJob.todo) = IF r = s THEN <<Actions!Commit(r)>>
                 ELSE <<Actions!Commit(s), Actions!Commit(r)>>
  <2>1. Actions!Commit(r).do = "commit" /\ Actions!Commit(s).do = "commit"
    BY DEF Actions!Commit
  <2>2. /\ IsWrite(a, fJob.scope) /\ IsWrite(b, fJob.scope)
        /\ \/ fJob.committed = {} /\ W = Did(Did(wt, a), b)
                /\ fJob.todo = <<a, b, Actions!Commit(r)>> /\ r = s
           \/ fJob.committed = {} /\ W = Did(Did(wt, a), b)
                /\ fJob.todo = <<a, b, Actions!Commit(s), Actions!Commit(r)>> /\ r # s
           \/ fJob.committed = {} /\ W = Did(wt, b) /\ fJob.todo = <<b, Actions!Commit(r)>> /\ r = s
           \/ fJob.committed = {} /\ W = Did(wt, b)
                /\ fJob.todo = <<b, Actions!Commit(s), Actions!Commit(r)>> /\ r # s
           \/ fJob.todo = <<Actions!Commit(r)>>
           \/ fJob.todo = <<Actions!Commit(s), Actions!Commit(r)>>
    BY DEF Doing
  <2>3. CASE fJob.committed = {} /\ W = Did(Did(wt, a), b)
               /\ fJob.todo = <<a, b, Actions!Commit(r)>> /\ r = s
    BY <2>2, <2>3, ProgramsAre
  <2>4. CASE fJob.committed = {} /\ W = Did(Did(wt, a), b)
               /\ fJob.todo = <<a, b, Actions!Commit(s), Actions!Commit(r)>> /\ r # s
    BY <2>2, <2>4, ProgramsAre
  <2>5. CASE fJob.committed = {} /\ W = Did(wt, b) /\ fJob.todo = <<b, Actions!Commit(r)>> /\ r = s
    BY <2>2, <2>5, ProgramsAre
  <2>6. CASE fJob.committed = {} /\ W = Did(wt, b)
               /\ fJob.todo = <<b, Actions!Commit(s), Actions!Commit(r)>> /\ r # s
    BY <2>2, <2>6, ProgramsAre
  <2>7. CASE fJob.todo = <<Actions!Commit(r)>> \/ fJob.todo = <<Actions!Commit(s),
               Actions!Commit(r)>>
    BY <2>1, <2>7, ProgramsAre
  <2> QED
    BY <2>2, <2>3, <2>4, <2>5, <2>6, <2>7
<1>2. Shapes /\ Notes /\ UnderWay
  BY SMTT(30) DEF DirectInv
<1>3. wt' = Did(wt, w) /\ log' = log
  <2>1. w.do \in {"put", "cut"}
    BY <1>1 DEF IsWrite
  <2> QED
    BY Zenon, <2>1 DEF Actions!RunStep, Did
<1>4. /\ fJob' = [fJob EXCEPT !.todo = Tail(fJob.todo), !.committed = fJob.committed]
      /\ mode' = mode /\ branch' = branch /\ pr' = pr /\ fPc' = fPc /\ fBreach' = fBreach
  BY Zenon, <1>1 DEF Actions!RunStep, Actions!github, IsWrite
<1>5. /\ DOMAIN fJob' = DOMAIN fJob /\ fJob'.todo = Tail(fJob.todo) /\ fJob'.scope = fJob.scope
      /\ fJob'.snap = fJob.snap /\ fJob'.before = fJob.before /\ fJob'.committed = {}
  BY <1>1, <1>2, <1>4 DEF Notes
<1>6. /\ wt' \in [Actions!Repo -> Actions!Tree] /\ \A t \in Actions!Repo : Sane(wt'[t])
      /\ \A t \in Actions!Repo, q \in Actions!Place : q \notin fJob.scope[t] => wt'[t][q] = wt[t][q]
  <2>1. wt \in [Actions!Repo -> Actions!Tree] /\ (\A t \in Actions!Repo : Sane(wt[t]))
          /\ fJob.scope \in [Actions!Repo -> SUBSET Actions!Place]
    BY <1>2 DEF Shapes, Notes
  <2>2. \A t \in Actions!Repo, q \in Actions!Place : q \notin fJob.scope[t]
          => ~(t = w.r /\ q = w.place)
    BY <1>1 DEF IsWrite
  <2> HIDE DEF w
  <2>3. /\ Did(wt, w) \in [Actions!Repo -> Actions!Tree]
        /\ \A t \in Actions!Repo, q \in Actions!Place : ~(t = w.r /\ q = w.place)
             => Did(wt, w)[t][q] = wt[t][q]
        /\ \A t \in Actions!Repo : Sane(Did(wt, w)[t])
    <3>1. w \in Actions!Step /\ IsWrite(w, fJob.scope)
      BY <1>1
    <3>2. /\ Did(wt, w) \in [Actions!Repo -> Actions!Tree]
          /\ (\A t \in Actions!Repo : Sane(wt[t])) => \A t \in Actions!Repo : Sane(Did(wt, w)[t])
      BY <3>1, <2>1, DidIs
    <3>3. \A t \in Actions!Repo, q \in Actions!Place :
            Did(wt, w)[t][q] =
              IF t = w.r /\ q = w.place
              THEN {x \in wt[t][q] : x[1] # w.item[1]} \union IF w.do = "put" THEN {w.item} ELSE {}
              ELSE wt[t][q]
      BY <3>1, <2>1, DidIs
    <3> QED
      BY <3>2, <3>3, <2>1
  <2> QED
    BY <1>3, <2>2, <2>3
<1>7. Tip' = Tip /\ Base' = Base /\ Tip = Base /\ \A f \in FactId : Actions!Known(f)'
        <=> Actions!Known(f)
  BY <1>1, <1>2, <1>3, <1>5 DEF Tip, Base, Actions!Known, UnderWay, Actions!Last
<1>8. Shapes' /\ Notes'
  BY <1>2, <1>3, <1>5, <1>6 DEF Shapes, Notes
<1>9. UnderWay'
  <2>1. \A t \in Actions!Repo :
          /\ fJob.before[t] \in 1 .. Len(log[t]) /\ Len(log[t]) = fJob.before[t]
          /\ \A q \in fJob.scope[t] : fJob.snap[t][q] = Base[t][q]
          /\ \A q \in Actions!Place \ fJob.scope[t] : wt'[t][q] = fJob.snap[t][q]
    BY <1>1, <1>2, <1>6 DEF UnderWay
  <2>2. /\ \A f \in FactId : Actions!Known(f) => Somewhere(fJob.snap, Base, f)
        /\ fBreach = {} => fJob.snap = Base /\ AllWhole(Base)
    BY <1>2 DEF UnderWay
  <2>3. AllWhole(Base)' <=> AllWhole(Base)
    BY <1>7 DEF AllWhole
  <2> QED
    BY <2>1, <2>2, <2>3, <1>3, <1>4, <1>5, <1>7 DEF UnderWay
<1>10. \A f \in FactId : Actions!Known(f)' => Somewhere(wt', Tip', f)
  <2> TAKE f \in FactId
  <2> HAVE Actions!Known(f)'
  <2>1. Somewhere(fJob.snap, Base, f)
    BY <1>2, <1>7 DEF UnderWay
  <2>2. \A t \in Actions!Repo : \A q \in Actions!Place \ fJob.scope[t] : wt'[t][q] = fJob.snap[t][q]
          /\ Tip[t][q] = Base[t][q]
    BY <1>2, <1>6, <1>7 DEF UnderWay
  <2>3. \A t \in Actions!Repo : \A q \in fJob.scope[t] : fJob.snap[t][q] = Base[t][q]
    BY <1>2 DEF UnderWay
  <2>4. Within(fJob.snap, f, fJob.scope) => Within(Tip, f, fJob.scope)
    BY <2>3, <1>7 DEF Within, Holds
  <2> QED
    BY <2>1, <2>2, <2>3, <2>4, <1>2, <1>7, NothingGone
<1>11. Stages'
  <2>1. Doing(a, b, r, s, W)'
    BY <1>1, <1>3, <1>5 DEF Doing
  <2> QED
    BY <2>1 DEF Stages
<1> QED
  BY <1>4, <1>8, <1>9, <1>10, <1>11 DEF DirectInv

\* A fact of a commit of the working tree was known or is in the working tree, one of a tree
\* that is in the history is known.
LEMMA CommittedWasThere ==
  ASSUME Shapes, NEW s \in Actions!Repo, NEW S, NEW f \in FactId,
         Actions!Has([q \in Actions!Place |-> IF q \in S THEN wt[s][q]
           ELSE Actions!Last(log[s])[q]], f) # {}
  PROVE  Actions!Known(f) \/ Homes(wt, f) # {}
<1>1. PICK q \in Actions!Files : \E x \in (IF q \in S THEN wt[s][q] ELSE Actions!Last(log[s])[q]) :
             x[1] = f
  BY DEF Actions!Has, Actions!Files
<1>2. CASE q \in S
  <2>1. <<s, q>> \in Homes(wt, f)
    BY <1>1, <1>2 DEF Homes, Holds
  <2> QED
    BY <2>1
<1>3. CASE q \notin S
  <2>1. Actions!Has(log[s][Len(log[s])], f) # {} /\ Len(log[s]) \in DOMAIN log[s]
    BY <1>1, <1>3 DEF Actions!Has, Actions!Last, Shapes
  <2> QED
    BY <2>1 DEF Actions!Known
<1> QED
  BY <1>2, <1>3

\* A fact that was there when the action began is known.
LEMMA BaseIsKnown ==
  ASSUME Shapes, NEW f \in FactId, Homes(Base, f) # {},
         \A r \in Actions!Repo : fJob.before[r] \in 1 .. Len(log[r])
  PROVE  Actions!Known(f)
<1>1. PICK r \in Actions!Repo, q \in Actions!Files : \E x \in Base[r][q] : x[1] = f
  BY DEF Homes, Holds
<1>2. Actions!Has(log[r][fJob.before[r]], f) # {} /\ fJob.before[r] \in DOMAIN log[r]
  BY <1>1 DEF Actions!Has, Base, Shapes
<1> QED
  BY <1>2 DEF Actions!Known

\* The first of two commits: its repository is one commit further, and no fact is new.
LEMMA FirstCommitKeeps ==
  ASSUME DirectInv, mode = "direct", Calm, fPc = "run", Actions!RunStep,
         NEW a \in Actions!Step, NEW b \in Actions!Step, NEW r \in Actions!Repo,
               NEW s \in Actions!Repo, Doing(a, b, r, s, wt),
         r # s, fJob.committed = {}, fJob.todo = <<Actions!Commit(s), Actions!Commit(r)>>
  PROVE  DirectInv'
<1> DEFINE t == [q \in Actions!Place |-> IF q \in fJob.scope[s] THEN wt[s][q]
      ELSE Actions!Last(log[s])[q]]
<1>1. Shapes /\ Notes /\ UnderWay
  BY DEF DirectInv
<1>2. /\ EndsWell(fJob.snap, fJob.scope, wt) /\ AddsNone(fJob.snap, wt) /\ fJob.scope[s] # {}
      /\ IsWrite(a, fJob.scope) /\ IsWrite(b, fJob.scope)
      /\ \A u \in Actions!Repo : fJob.scope[u] # {} => u \in {r, s}
      /\ fJob.scope[r] # {}
  BY DEF Doing
<1>3. Head(fJob.todo) = Actions!Commit(s) /\ Tail(fJob.todo) = <<Actions!Commit(r)>>
        /\ Len(fJob.todo) = 2
  BY ProgramsAre
<1>4. /\ log' = [log EXCEPT ![s] = Append(@, t)] /\ wt' = wt
      /\ fJob' = [fJob EXCEPT !.todo = <<Actions!Commit(r)>>, !.committed = {s}]
      /\ mode' = mode /\ branch' = branch /\ pr' = pr /\ fPc' = fPc /\ fBreach' = fBreach
  <2>1. Actions!Commit(s).do = "commit" /\ Actions!Commit(s).r = s
          /\ fJob.committed \union {s} = {s}
    BY DEF Actions!Commit
  <2>2. fJob' = [fJob EXCEPT !.todo = Tail(fJob.todo), !.committed = fJob.committed \union {s}]
          /\ fPc' = fPc
    <3>1. fJob' = [fJob EXCEPT !.todo = Tail(@),
                     !.committed = IF Actions!Commit(s).do = "commit" THEN @
                       \union {Actions!Commit(s).r} ELSE @] /\ fPc' = fPc
      BY <1>3 DEF Actions!RunStep
    <3> QED
      BY <3>1, <2>1
  <2>3. log' = [log EXCEPT ![s] = Append(@, t)] /\ wt' = wt
    BY ZenonT(60), <2>1, <1>3 DEF Actions!RunStep
  <2> QED
    BY <2>1, <2>2, <2>3, <1>3 DEF Actions!RunStep, Actions!github
<1>5. /\ DOMAIN fJob' = DOMAIN fJob /\ fJob'.todo = <<Actions!Commit(r)>>
           /\ fJob'.scope = fJob.scope
      /\ fJob'.snap = fJob.snap /\ fJob'.before = fJob.before /\ fJob'.committed = {s}
  BY <1>1, <1>4 DEF Notes
<1>6. t \in Actions!Tree /\ Sane(t)
  <2>1. Sane(wt[s]) /\ Sane(Actions!Last(log[s]))
    BY <1>1 DEF Shapes, Actions!Last
  <2> QED
    BY <2>1 DEF Sane, Actions!Tree, Actions!Place
<1>7. /\ log' \in [Actions!Repo -> Seq(Actions!Tree)]
      /\ \A u \in Actions!Repo : log'[u] # << >> /\ \A i \in DOMAIN log'[u] : Sane(log'[u][i])
      /\ Len(log'[s]) = Len(log[s]) + 1 /\ Actions!Last(log'[s]) = t
      /\ \A u \in Actions!Repo \ {s} : log'[u] = log[u]
      /\ \A u \in Actions!Repo : \A i \in 1 .. Len(log[u]) : log'[u][i] = log[u][i]
      /\ Tip' = [Tip EXCEPT ![s] = t]
      /\ \A f \in FactId : Actions!Known(f)' <=> Actions!Known(f) \/ Actions!Has(t, f) # {}
  <2> HIDE DEF t
  <2> QED
    BY <1>1, <1>4, <1>6, CommitIs
<1>8. \A u \in Actions!Repo : fJob.before[u] \in 1 .. Len(log[u]) /\ Len(log[u]) = fJob.before[u]
  BY <1>1 DEF UnderWay
<1>9. Base' = Base /\ Tip = Base /\ t
        = [q \in Actions!Place |-> IF q \in fJob.scope[s] THEN wt[s][q] ELSE Base[s][q]]
  BY SMTT(30), <1>5, <1>7, <1>8 DEF Base, Tip, Actions!Last
<1>10. \A f \in FactId : Actions!Known(f)' => Actions!Known(f) \/ Homes(fJob.snap, f) # {}
  <2>1. \A f \in FactId : Actions!Has(t, f) # {} => Actions!Known(f) \/ Homes(wt, f) # {}
    BY <1>1, CommittedWasThere
  <2> HIDE DEF t
  <2> QED
    BY <1>2, <1>7, <2>1 DEF AddsNone
<1> HIDE DEF t
<1>11. Shapes' /\ Notes'
  BY <1>1, <1>4, <1>5, <1>7 DEF Shapes, Notes
<1>12. \A f \in FactId : Actions!Known(f)' => Somewhere(fJob.snap, Base, f)
  <2> TAKE f \in FactId
  <2> HAVE Actions!Known(f)'
  <2>1. CASE Actions!Known(f)
    BY <2>1, <1>1 DEF UnderWay
  <2>2. CASE Homes(fJob.snap, f) # {}
    BY <2>2 DEF Homes, Holds, Somewhere, Within, Everywhere, Actions!Files
  <2> QED
    BY <1>10, <2>1, <2>2
<1>13. UnderWay'
  <2>1. \A u \in Actions!Repo :
          /\ \A q \in fJob.scope[u] : fJob.snap[u][q] = Base[u][q]
          /\ \A q \in Actions!Place \ fJob.scope[u] : wt[u][q] = fJob.snap[u][q]
    BY <1>1 DEF UnderWay
  <2>2. fBreach = {} => fJob.snap = Base /\ AllWhole(Base)'
    <3> HAVE fBreach = {}
    <3>1. fJob.snap = Base /\ AllWhole(Base)
      BY <1>1 DEF UnderWay
    <3>2. ASSUME NEW f \in FactId, Actions!Known(f)' PROVE Actions!Known(f)
      BY <3>1, <3>2, <1>10, <1>1, <1>8, BaseIsKnown
    <3> QED
      BY <3>1, <3>2, <1>9 DEF AllWhole
  <2>3. \A u \in Actions!Repo :
          /\ fJob.before[u] \in 1 .. Len(log'[u])
          /\ u \notin {s} => Len(log'[u]) = fJob.before[u]
          /\ u \in {s} =>
               /\ Len(log'[u]) = fJob.before[u] + 1 /\ fJob.scope[u] # {}
               /\ \A q \in Actions!Place :
                    Actions!Last(log'[u])[q] = IF q \in fJob.scope[u] THEN wt[u][q] ELSE Base[u][q]
    BY <1>2, <1>7, <1>8, <1>9
  <2>4. fBreach' = {} => fJob'.snap = Base' /\ AllWhole(Base)'
    BY <2>2, <1>4, <1>5, <1>9
  <2>5. \A f \in FactId : Actions!Known(f)' => Somewhere(fJob'.snap, Base', f)
    BY <1>5, <1>9, <1>12
  <2> QED
    BY <2>1, <2>3, <2>4, <2>5, <1>4, <1>5, <1>9 DEF UnderWay
<1>14. \A f \in FactId : Actions!Known(f)' => Somewhere(wt', Tip', f)
  <2> TAKE f \in FactId
  <2> HAVE Actions!Known(f)'
  <2>1. \A u \in Actions!Repo : \A q \in Actions!Place \ fJob.scope[u] : wt[u][q] = fJob.snap[u][q]
          /\ Tip'[u][q] = Base[u][q]
    BY <1>1, <1>7, <1>9 DEF UnderWay, Tip
  <2>2. \A u \in Actions!Repo : \A q \in fJob.scope[u] : fJob.snap[u][q] = Base[u][q]
    BY <1>1 DEF UnderWay
  <2>3. Within(fJob.snap, f, fJob.scope) => Within(wt, f, fJob.scope)
    BY <1>2 DEF EndsWell, GoesWell
  <2> QED
    BY <2>1, <2>2, <2>3, <1>1, <1>4, <1>12, NothingGone
<1>15. Stages'
  <2>1. Doing(a, b, r, s, wt)'
    BY <1>2, <1>4, <1>5 DEF Doing
  <2>2. wt' \in [Actions!Repo -> Actions!Tree]
    BY <1>11 DEF Shapes
  <2> QED
    BY <2>1, <2>2 DEF Stages
<1> QED
  BY <1>4, <1>11, <1>13, <1>14, <1>15 DEF DirectInv

\* After the last commit everything the action changed is committed, and well.
LEMMA LastCommitKeeps ==
  ASSUME DirectInv, mode = "direct", Calm, fPc = "run", Actions!RunStep,
         NEW a \in Actions!Step, NEW b \in Actions!Step, NEW r \in Actions!Repo,
               NEW s \in Actions!Repo, Doing(a, b, r, s, wt),
         fJob.committed = IF r = s THEN {} ELSE {s}, fJob.todo = <<Actions!Commit(r)>>
  PROVE  DirectInv'
<1> DEFINE t == [q \in Actions!Place |-> IF q \in fJob.scope[r] THEN wt[r][q]
      ELSE Actions!Last(log[r])[q]]
<1>1. Shapes /\ Notes /\ UnderWay
  BY DEF DirectInv
<1>2. /\ EndsWell(fJob.snap, fJob.scope, wt)
      /\ \A u \in Actions!Repo : fJob.scope[u] # {} => u \in {r, s}
  BY DEF Doing
<1>3. Head(fJob.todo) = Actions!Commit(r) /\ Len(fJob.todo) = 1
  BY ProgramsAre
<1>4. /\ log' = [log EXCEPT ![r] = Append(@, t)] /\ wt' = wt /\ fJob' = Actions!NoJob
           /\ fPc' = "idle"
      /\ mode' = mode /\ branch' = branch /\ pr' = pr /\ fBreach' = fBreach
  BY <1>3 DEF Actions!RunStep, Actions!github, Actions!Commit, Actions!Finish
<1>5. t \in Actions!Tree /\ Sane(t)
  <2>1. Sane(wt[r]) /\ Sane(Actions!Last(log[r]))
    BY <1>1 DEF Shapes, Actions!Last
  <2> QED
    BY <2>1 DEF Sane, Actions!Tree, Actions!Place
<1>6. /\ log' \in [Actions!Repo -> Seq(Actions!Tree)]
      /\ \A u \in Actions!Repo : log'[u] # << >> /\ \A i \in DOMAIN log'[u] : Sane(log'[u][i])
      /\ Tip' = [Tip EXCEPT ![r] = t]
      /\ \A f \in FactId : Actions!Known(f)' <=> Actions!Known(f) \/ Actions!Has(t, f) # {}
  <2> HIDE DEF t
  <2> QED
    BY <1>1, <1>4, <1>5, CommitIs
<1>7. \A f \in FactId : Actions!Known(f)' => Actions!Known(f) \/ Homes(wt, f) # {}
  BY <1>1, <1>6, CommittedWasThere
<1>8. \A u \in Actions!Repo : \A q \in Actions!Place :
        Tip'[u][q] = IF q \in fJob.scope[u] THEN wt[u][q] ELSE Base[u][q]
  <2>1. \A u \in Actions!Repo : u \notin fJob.committed => Actions!Last(log[u]) = Base[u]
    BY <1>1 DEF UnderWay, Actions!Last, Base
  <2>2. \A u \in Actions!Repo : u \in fJob.committed =>
          \A q \in Actions!Place : Actions!Last(log[u])[q] = IF q \in fJob.scope[u] THEN wt[u][q]
            ELSE Base[u][q]
    BY <1>1 DEF UnderWay
  <2>3. Tip \in [Actions!Repo -> Actions!Tree]
          /\ \A u \in Actions!Repo : Tip[u] = Actions!Last(log[u])
    BY <1>1 DEF Tip, Shapes, Actions!Last
  <2> QED
    BY <2>1, <2>2, <2>3, <1>2, <1>6
<1>9. Shapes'
  BY <1>1, <1>4, <1>6 DEF Shapes
<1>10. Notes'
  BY <1>4 DEF Notes, Actions!NoJob, Actions!Clean, Actions!Tree, Sane, Actions!Place
<1>11. \A f \in FactId : Actions!Known(f)' => Somewhere(wt', Tip', f)
  <2> TAKE f \in FactId
  <2> HAVE Actions!Known(f)'
  <2>1. CASE Homes(wt, f) # {}
    BY <2>1, <1>4 DEF Homes, Holds, Somewhere, Within, Everywhere, Actions!Files
  <2>2. CASE Actions!Known(f)
    <3>1. \A u \in Actions!Repo : \A q \in Actions!Place \ fJob.scope[u] :
            wt[u][q] = fJob.snap[u][q] /\ Tip'[u][q] = Base[u][q]
      BY <1>1, <1>8 DEF UnderWay
    <3>2. \A u \in Actions!Repo : \A q \in fJob.scope[u] : fJob.snap[u][q] = Base[u][q]
      BY <1>1 DEF UnderWay
    <3>3. Within(fJob.snap, f, fJob.scope) => Within(wt, f, fJob.scope)
      BY <1>2 DEF EndsWell, GoesWell
    <3>4. Somewhere(fJob.snap, Base, f)
      BY <1>1, <2>2 DEF UnderWay
    <3> QED
      BY <3>1, <3>2, <3>3, <3>4, <1>1, <1>4, NothingGone
  <2> QED
    BY <1>7, <2>1, <2>2
<1>12. fBreach' = {} => wt' = Tip' /\ AllWhole(Tip)'
  <2> HAVE fBreach' = {}
  <2>1. fJob.snap = Base /\ AllWhole(Base)
    BY <1>1, <1>4 DEF UnderWay
  <2>2. \A u \in Actions!Repo : \A q \in Actions!Place : Tip'[u][q] = wt[u][q]
    BY <2>1, <1>1, <1>8 DEF UnderWay
  <2>3. Tip' \in [Actions!Repo -> Actions!Tree] /\ wt \in [Actions!Repo -> Actions!Tree]
    BY <1>1, <1>9 DEF Shapes, Tip, Actions!Last
  <2>4. Tip' = wt
    BY <2>2, <2>3 DEF Actions!Tree
  <2>5. ASSUME NEW f \in FactId, Actions!Known(f)' PROVE Whole(wt, f)
    <3>1. CASE Actions!Known(f)
      BY <3>1, <2>1, <1>2 DEF AllWhole, EndsWell, GoesWell
    <3>2. CASE ~Actions!Known(f)
      <4>1. Homes(wt, f) # {}
        BY <3>2, <2>5, <1>7
      <4>2. Homes(fJob.snap, f) = {}
        BY <3>2, <2>1, <1>1, BaseIsKnown DEF UnderWay
      <4> QED
        BY <4>1, <4>2, <1>2 DEF EndsWell, GoesWell
    <3> QED
      BY <3>1, <3>2
  <2> QED
    BY <2>4, <2>5, <1>4 DEF AllWhole
<1> QED
  BY <1>4, <1>9, <1>10, <1>11, <1>12 DEF DirectInv

\* A step of the action that succeeds.
LEMMA RunStepKeeps ==
  ASSUME DirectInv, mode = "direct", Calm, Actions!RunStep
  PROVE  DirectInv'
<1>1. fPc = "run" /\ Stages
  BY Zenon DEF Actions!RunStep, DirectInv
<1>2. PICK a \in Actions!Step, b \in Actions!Step, r \in Actions!Repo, s \in Actions!Repo,
             W \in [Actions!Repo -> Actions!Tree] : Doing(a, b, r, s, W)
  BY <1>1 DEF Stages
<1>3. a.do # "commit" /\ b.do # "commit"
  BY <1>2 DEF Doing, IsWrite
<1>4. CASE W = wt /\ fJob.todo = <<Actions!Commit(r)>> /\ fJob.committed = IF r = s THEN {} ELSE {s}
  BY <1>1, <1>2, <1>4, LastCommitKeeps
<1>5. CASE r # s /\ fJob.committed = {} /\ W = wt
             /\ fJob.todo = <<Actions!Commit(s), Actions!Commit(r)>>
  BY <1>1, <1>2, <1>5, FirstCommitKeeps
<1>6. CASE Head(fJob.todo).do # "commit"
  BY <1>1, <1>2, <1>6, WriteKeeps
<1>7. \/ W = wt /\ fJob.todo = <<Actions!Commit(r)>> /\ fJob.committed = IF r = s THEN {} ELSE {s}
      \/ r # s /\ fJob.committed = {} /\ W = wt
           /\ fJob.todo = <<Actions!Commit(s), Actions!Commit(r)>>
      \/ Head(fJob.todo).do # "commit"
  <2>1. \/ fJob.todo = <<a, b, Actions!Commit(r)>> \/ fJob.todo = <<a, b, Actions!Commit(s),
             Actions!Commit(r)>>
        \/ fJob.todo = <<b, Actions!Commit(r)>> \/ fJob.todo = <<b, Actions!Commit(s),
             Actions!Commit(r)>>
        \/ W = wt /\ fJob.todo = <<Actions!Commit(r)>> /\ fJob.committed = IF r = s THEN {} ELSE {s}
        \/ r # s /\ fJob.committed = {} /\ W = wt
             /\ fJob.todo = <<Actions!Commit(s), Actions!Commit(r)>>
    BY <1>2 DEF Doing
  <2> QED
    BY <2>1, <1>3, ProgramsAre
<1> QED
  BY SMTT(30), <1>4, <1>5, <1>6, <1>7

\* What a write makes of the places of a fact.
LEMMA DidHolds ==
  ASSUME NEW W \in [Actions!Repo -> Actions!Tree], NEW w \in Actions!Step,
         NEW scope \in [Actions!Repo -> SUBSET Actions!Place],
         IsWrite(w, scope), NEW r \in Actions!Repo, NEW q \in Actions!Place, NEW f \in FactId
  PROVE  Holds(Did(W, w), r, q, f) <=>
           IF r = w.r /\ q = w.place /\ f = w.item[1] THEN w.do = "put" ELSE Holds(W, r, q, f)
<1>1. Did(W, w)[r][q] =
        IF r = w.r /\ q = w.place
        THEN {x \in W[r][q] : x[1] # w.item[1]} \union IF w.do = "put" THEN {w.item} ELSE {}
        ELSE W[r][q]
  <2>1. \A u \in Actions!Repo, p \in Actions!Place : Did(W, w)[u][p] =
          IF u = w.r /\ p = w.place
          THEN {x \in W[u][p] : x[1] # w.item[1]} \union IF w.do = "put" THEN {w.item} ELSE {}
          ELSE W[u][p]
    BY DidIs
  <2> QED
    BY <2>1
<1>2. CASE r = w.r /\ q = w.place /\ f = w.item[1]
  BY <1>1, <1>2 DEF Holds
<1>3. CASE r = w.r /\ q = w.place /\ f # w.item[1]
  BY <1>1, <1>3 DEF Holds
<1>4. CASE ~(r = w.r /\ q = w.place)
  BY <1>1, <1>4 DEF Holds
<1> QED
  BY <1>2, <1>3, <1>4

\* A tombstone is all that the tombstones' file has of a fact.
LEMMA TombIs ==
  ASSUME NEW t, Sane(t), NEW f \in FactId
  PROVE  <<f, "tomb">> \in t["tombs"] <=> \E x \in t["tombs"] : x[1] = f
<1>1. ASSUME NEW x \in t["tombs"] PROVE x = <<x[1], "tomb">>
  BY DEF Sane, Actions!Tree, Actions!Item, Actions!Place
<1> QED
  BY <1>1

\* The places of a fact are those that hold it.
LEMMA HomesAre ==
  ASSUME NEW W, NEW f
  PROVE  /\ Homes(W, f) = {} <=> \A r \in Actions!Repo, q \in Actions!Files : ~Holds(W, r, q, f)
         /\ \A r \in Actions!Repo, q \in Actions!Files :
              Homes(W, f) = {<<r, q>>} <=>
                /\ Holds(W, r, q, f)
                /\ \A u \in Actions!Repo, p \in Actions!Files : Holds(W, u, p, f) => u = r /\ p = q
<1>1. \A r \in Actions!Repo, q \in Actions!Files : <<r, q>> \in Homes(W, f) <=> Holds(W, r, q, f)
  BY DEF Homes
<1>2. \A c \in Homes(W, f) : c = <<c[1], c[2]>> /\ c[1] \in Actions!Repo /\ c[2] \in Actions!Files
  BY DEF Homes
<1>3. Homes(W, f) = {} <=> \A r \in Actions!Repo, q \in Actions!Files : ~Holds(W, r, q, f)
  <2>1. \A c \in Homes(W, f) : Holds(W, c[1], c[2], f)
    BY DEF Homes
  <2> QED
    BY <1>1, <1>2, <2>1
<1>4. ASSUME NEW r \in Actions!Repo, NEW q \in Actions!Files
      PROVE  Homes(W, f) = {<<r, q>>} <=>
               /\ Holds(W, r, q, f)
               /\ \A u \in Actions!Repo, p \in Actions!Files : Holds(W, u, p, f) => u = r /\ p = q
  <2>1. ASSUME Homes(W, f) = {<<r, q>>}
        PROVE  /\ Holds(W, r, q, f)
               /\ \A u \in Actions!Repo, p \in Actions!Files : Holds(W, u, p, f) => u = r /\ p = q
    <3>1. ASSUME NEW u \in Actions!Repo, NEW p \in Actions!Files, Holds(W, u, p, f)
          PROVE u = r /\ p = q
      <4>1. <<u, p>> \in {<<r, q>>}
        BY <1>1, <2>1, <3>1
      <4> QED
        BY <4>1
    <3> QED
      BY <1>1, <2>1, <3>1
  <2>2. ASSUME Holds(W, r, q, f),
               \A u \in Actions!Repo, p \in Actions!Files : Holds(W, u, p, f) => u = r /\ p = q
        PROVE  Homes(W, f) = {<<r, q>>}
    <3>1. <<r, q>> \in Homes(W, f)
      BY <1>1, <2>2
    <3>2. ASSUME NEW c \in Homes(W, f) PROVE c = <<r, q>>
      <4>1. c = <<c[1], c[2]>> /\ c[1] \in Actions!Repo /\ c[2] \in Actions!Files
              /\ Holds(W, c[1], c[2], f)
        BY <1>2 DEF Homes
      <4> QED
        BY <4>1, <2>2
    <3> QED
      BY <3>1, <3>2
  <2> QED
    BY <2>1, <2>2
<1> QED
  BY <1>3, <1>4

\* A fact is in one place or has a tombstone, place by place.
LEMMA WholeIs ==
  ASSUME NEW W, Sane(W["project"]), NEW f \in FactId
  PROVE  Whole(W, f) <=>
           IF Holds(W, "project", "tombs", f) THEN \A r \in Actions!Repo, q \in Actions!Files :
             ~Holds(W, r, q, f)
           ELSE \E r \in Actions!Repo, q \in Actions!Files :
                  /\ Holds(W, r, q, f)
                  /\ \A u \in Actions!Repo, p \in Actions!Files : Holds(W, u, p, f) => u = r
                       /\ p = q
<1>1. <<f, "tomb">> \in W["project"]["tombs"] <=> Holds(W, "project", "tombs", f)
  BY TombIs DEF Holds
<1>2. (\E c \in Actions!Repo \X Actions!Files : Homes(W, f) = {c})
        <=> \E r \in Actions!Repo, q \in Actions!Files : Homes(W, f) = {<<r, q>>}
  <2>1. ASSUME NEW c \in Actions!Repo \X Actions!Files, Homes(W, f) = {c}
        PROVE  \E r \in Actions!Repo, q \in Actions!Files : Homes(W, f) = {<<r, q>>}
    <3>1. c[1] \in Actions!Repo /\ c[2] \in Actions!Files /\ c = <<c[1], c[2]>>
      OBVIOUS
    <3> QED
      BY <2>1, <3>1
  <2>2. ASSUME NEW r \in Actions!Repo, NEW q \in Actions!Files, Homes(W, f) = {<<r, q>>}
        PROVE  \E c \in Actions!Repo \X Actions!Files : Homes(W, f) = {c}
    <3>1. <<r, q>> \in Actions!Repo \X Actions!Files
      OBVIOUS
    <3> QED
      BY <2>2, <3>1
  <2> QED
    BY <2>1, <2>2
<1> QED
  BY <1>1, <1>2, HomesAre DEF Whole

\* What does not change where a fact is goes well for it.
LEMMA OthersGoWell ==
  ASSUME NEW S, NEW W, NEW scope \in [Actions!Repo -> SUBSET Actions!Place], NEW f \in FactId,
         Sane(S["project"]), Sane(W["project"]),
         \A r \in Actions!Repo, q \in Actions!Place : Holds(W, r, q, f) <=> Holds(S, r, q, f)
  PROVE  GoesWell(S, scope, W, f) /\ (Homes(W, f) # {} => Homes(S, f) # {})
<1>1. Within(S, f, scope) => Within(W, f, scope)
  BY DEF Within
<1>2. Whole(S, f) => Whole(W, f)
  BY WholeIs DEF Actions!Files, Actions!Place, Actions!Repo
<1>3. Homes(W, f) = Homes(S, f)
  BY DEF Homes, Actions!Files
<1> QED
  BY <1>1, <1>2, <1>3 DEF GoesWell

\* What an action begins with: it notes where everything is.
LEMMA BeginKeeps ==
  ASSUME DirectInv, mode = "direct", Calm, NEW steps,
         NEW scope \in [Actions!Repo -> SUBSET Actions!Place],
         Actions!Begin(steps, scope),
         NEW a \in Actions!Step, NEW b \in Actions!Step, NEW r \in Actions!Repo,
               NEW s \in Actions!Repo, NEW W \in [Actions!Repo -> Actions!Tree],
         IsWrite(a, scope), IsWrite(b, scope), \A t \in Actions!Repo : scope[t] # {}
           => t \in {r, s},
         scope[r] # {}, scope[s] # {}, EndsWell(wt, scope, W), r # s => AddsNone(wt, W),
         \/ /\ steps = IF r = s THEN <<a, b, Actions!Commit(r)>>
                 ELSE <<a, b, Actions!Commit(s), Actions!Commit(r)>>
            /\ W = Did(Did(wt, a), b)
         \/ r = s /\ steps = <<b, Actions!Commit(r)>> /\ W = Did(wt, b)
  PROVE  DirectInv'
<1>1. /\ mode' = mode /\ wt' = wt /\ log' = log /\ branch' = branch /\ pr' = pr
           /\ fBreach' = fBreach
      /\ fPc = "idle" /\ fPc' = "run"
      /\ \A u \in Actions!Repo : \A q \in scope[u] : wt[u][q] = Actions!Last(log[u])[q]
  BY DEF Actions!Begin, Actions!git, Actions!github
<1>2. /\ DOMAIN fJob' = {"todo", "scope", "snap", "before", "committed"}
      /\ fJob'.todo = steps /\ fJob'.scope = scope /\ fJob'.snap = wt
      /\ fJob'.before = [u \in Actions!Repo |-> Len(log[u])] /\ fJob'.committed = {}
  BY DEF Actions!Begin
<1>3. Shapes /\ Shapes'
  BY <1>1 DEF DirectInv, Shapes
<1>4. Notes'
  <2>1. \A u \in Actions!Repo : Len(log[u]) \in Nat
    BY <1>3 DEF Shapes
  <2> QED
    BY <1>2, <1>3, <2>1 DEF Notes, Shapes
<1>5. Tip' = Tip /\ Base' = Tip /\ \A f \in FactId : Actions!Known(f)' <=> Actions!Known(f)
  BY <1>1, <1>2 DEF Tip, Base, Actions!Known, Actions!Last
<1>6. UnderWay'
  <2>1. \A u \in Actions!Repo : Len(log[u]) \in 1 .. Len(log[u])
          /\ \A q \in scope[u] : wt[u][q] = Tip[u][q]
    BY <1>1, <1>3 DEF Shapes, Tip
  <2>2. \A f \in FactId : Actions!Known(f) => Somewhere(wt, Tip, f)
    BY DEF DirectInv
  <2>3. fBreach' = {} => wt = Tip /\ AllWhole(Tip)
    BY <1>1 DEF DirectInv
  <2>4. AllWhole(Base)' <=> AllWhole(Tip)
    BY <1>5 DEF AllWhole
  <2> QED
    BY <1>1, <1>2, <1>5, <2>1, <2>2, <2>3, <2>4 DEF UnderWay
<1>7. Stages'
  <2>1. Doing(a, b, r, s, W)'
    BY <1>1, <1>2 DEF Doing
  <2> QED
    BY <2>1 DEF Stages
<1>8. \A f \in FactId : Actions!Known(f)' => Somewhere(wt', Tip', f)
  BY <1>1, <1>5 DEF DirectInv
<1> QED
  BY <1>1, <1>3, <1>4, <1>6, <1>7, <1>8 DEF DirectInv

\* An action on one repository.
LEMMA BeginOne ==
  ASSUME DirectInv, mode = "direct", Calm, NEW scope \in [Actions!Repo -> SUBSET Actions!Place],
         NEW a \in Actions!Step, NEW b \in Actions!Step, NEW r \in Actions!Repo,
               NEW W \in [Actions!Repo -> Actions!Tree],
         IsWrite(a, scope), IsWrite(b, scope), \A t \in Actions!Repo : scope[t] # {} => t = r,
         scope[r] # {}, EndsWell(wt, scope, W),
         Actions!Begin(<<a, b, Actions!Commit(r)>>, scope), W = Did(Did(wt, a), b)
  PROVE  DirectInv'
<1>1. \A t \in Actions!Repo : scope[t] # {} => t \in {r, r}
  OBVIOUS
<1>2. <<a, b, Actions!Commit(r)>> = IF r = r THEN <<a, b, Actions!Commit(r)>>
        ELSE <<a, b, Actions!Commit(r), Actions!Commit(r)>>
  OBVIOUS
<1> DEFINE steps == <<a, b, Actions!Commit(r)>>
<1>3. steps = IF r = r THEN <<a, b, Actions!Commit(r)>>
        ELSE <<a, b, Actions!Commit(r), Actions!Commit(r)>>
  BY <1>2
<1>4. Actions!Begin(steps, scope)
  OBVIOUS
<1> HIDE DEF steps
<1> QED
  BY <1>1, <1>3, <1>4, BeginKeeps

\* What two writes make of the working trees.
LEMMA TwoWrites ==
  ASSUME NEW S \in [Actions!Repo -> Actions!Tree], \A r \in Actions!Repo : Sane(S[r]),
         NEW a \in Actions!Step, NEW b \in Actions!Step,
         NEW scope \in [Actions!Repo -> SUBSET Actions!Place], IsWrite(a, scope), IsWrite(b, scope)
  PROVE  /\ Did(Did(S, a), b) \in [Actions!Repo -> Actions!Tree]
         /\ \A r \in Actions!Repo : Sane(Did(Did(S, a), b)[r])
         /\ \A r \in Actions!Repo, q \in Actions!Place, f \in FactId :
              Holds(Did(Did(S, a), b), r, q, f) <=>
                IF r = b.r /\ q = b.place /\ f = b.item[1] THEN b.do = "put"
                ELSE IF r = a.r /\ q = a.place /\ f = a.item[1] THEN a.do = "put"
                ELSE Holds(S, r, q, f)
<1>1. Did(S, a) \in [Actions!Repo -> Actions!Tree] /\ \A r \in Actions!Repo : Sane(Did(S, a)[r])
  BY DidIs
<1>2. Did(Did(S, a), b) \in [Actions!Repo -> Actions!Tree]
        /\ \A r \in Actions!Repo : Sane(Did(Did(S, a), b)[r])
  BY <1>1, DidIs
<1>3. ASSUME NEW r \in Actions!Repo, NEW q \in Actions!Place, NEW f \in FactId
      PROVE  Holds(Did(Did(S, a), b), r, q, f) <=>
               IF r = b.r /\ q = b.place /\ f = b.item[1] THEN b.do = "put"
               ELSE IF r = a.r /\ q = a.place /\ f = a.item[1] THEN a.do = "put"
               ELSE Holds(S, r, q, f)
  <2>1. Holds(Did(Did(S, a), b), r, q, f) <=>
          IF r = b.r /\ q = b.place
            /\ f = b.item[1] THEN b.do = "put" ELSE Holds(Did(S, a), r, q, f)
    BY <1>1, DidHolds
  <2>2. Holds(Did(S, a), r, q, f) <=>
          IF r = a.r /\ q = a.place /\ f = a.item[1] THEN a.do = "put" ELSE Holds(S, r, q, f)
    BY DidHolds
  <2> QED
    BY <2>1, <2>2
<1> QED
  BY <1>2, <1>3

\* A fact of a working tree.
LEMMA InTree ==
  ASSUME Shapes, NEW r \in Actions!Repo, NEW q \in Actions!Files, NEW x \in wt[r][q]
  PROVE  x \in Actions!Item /\ x[1] \in FactId /\ Holds(wt, r, q, x[1])
<1>1. wt[r] \in Actions!Tree /\ q \in Actions!Place
  BY DEF Shapes, Actions!Files
<1> QED
  BY <1>1 DEF Actions!Tree, Actions!Item, Holds

\* Forgetting: the fact has a tombstone and is in no file.
LEMMA ForgetsKeep ==
  ASSUME DirectInv, mode = "direct", Calm, NEW q \in Actions!Files, NEW x \in wt["project"][q],
         Actions!Forget(x, q)
  PROVE  DirectInv'
<1> DEFINE a == Actions!Put("project", "tombs", <<x[1], "tomb">>)
           b == Actions!Cut("project", q, x)
           scope == Actions!OnlyIn("project", {q, "tombs"})
           W == Did(Did(wt, a), b)
<1>1. Shapes /\ "project" \in Actions!Repo /\ x \in Actions!Item /\ x[1] \in FactId
        /\ Holds(wt, "project", q, x[1])
      /\ q \in Actions!Place /\ q # "tombs" /\ "tombs" \in Actions!Place
  BY InTree DEF DirectInv, Actions!Repo, Actions!Files, Actions!Place
<1>2. /\ scope \in [Actions!Repo -> SUBSET Actions!Place] /\ scope["project"] = {q, "tombs"}
      /\ \A t \in Actions!Repo : scope[t] # {} => t = "project"
  BY <1>1 DEF Actions!OnlyIn
<1>3. /\ a \in Actions!Step /\ IsWrite(a, scope) /\ b \in Actions!Step /\ IsWrite(b, scope)
      /\ a.r = "project" /\ a.place = "tombs" /\ a.item[1] = x[1] /\ a.do = "put"
      /\ b.r = "project" /\ b.place = q /\ b.item[1] = x[1] /\ b.do = "cut"
  BY <1>1, <1>2 DEF Actions!Put, Actions!Cut, Actions!Step, IsWrite, Actions!Item
<1>4. wt \in [Actions!Repo -> Actions!Tree] /\ \A r \in Actions!Repo : Sane(wt[r])
  BY <1>1 DEF Shapes
<1> HIDE DEF a, b, scope
<1>5. W \in [Actions!Repo -> Actions!Tree] /\ \A r \in Actions!Repo : Sane(W[r])
  BY <1>2, <1>3, <1>4, TwoWrites
<1>6. \A r \in Actions!Repo, p \in Actions!Place, f \in FactId :
        Holds(W, r, p, f) <=>
          IF r = "project" /\ p = q /\ f = x[1] THEN FALSE
          ELSE IF r = "project" /\ p = "tombs" /\ f = x[1] THEN TRUE
          ELSE Holds(wt, r, p, f)
  BY <1>2, <1>3, <1>4, TwoWrites
<1> HIDE DEF W
<1>7. EndsWell(wt, scope, W)
  <2> SUFFICES ASSUME NEW f \in FactId PROVE GoesWell(wt, scope, W, f)
    BY DEF EndsWell
  <2>1. CASE f # x[1]
    BY <1>1, <1>2, <1>4, <1>5, <1>6, <2>1, OthersGoWell
  <2>2. CASE f = x[1]
    <3>1. Within(W, f, scope)
      BY <1>1, <1>2, <1>6, <2>2 DEF Within
    <3>2. Homes(wt, f) # {}
      BY <1>1, <2>2, HomesAre
    <3>3. Whole(wt, f) => Whole(W, f)
      BY <1>1, <1>4, <1>5, <1>6, <2>2, WholeIs DEF Actions!Files
    <3> QED
      BY <3>1, <3>2, <3>3 DEF GoesWell
  <2> QED
    BY <2>1, <2>2
<1>8. Actions!Begin(<<a, b, Actions!Commit("project")>>, scope)
  BY DEF Actions!Forget, a, b, scope
<1> QED
  BY <1>1, <1>2, <1>3, <1>5, <1>7, <1>8, BeginOne DEF W

\* Confirming: the fact stays where it is.
LEMMA ConfirmKeeps ==
  ASSUME DirectInv, mode = "direct", Calm, NEW q \in Actions!Files, NEW x \in wt["project"][q],
         Actions!Confirm(x, q)
  PROVE  DirectInv'
<1> DEFINE b == Actions!Put("project", q, <<x[1], "hand">>)
           scope == Actions!OnlyIn("project", {q})
           W == Did(wt, b)
<1>1. Shapes /\ "project" \in Actions!Repo /\ x \in Actions!Item /\ x[1] \in FactId
        /\ Holds(wt, "project", q, x[1])
      /\ q \in Actions!Place /\ q # "tombs"
  BY InTree DEF DirectInv, Actions!Repo, Actions!Files
<1>2. /\ scope \in [Actions!Repo -> SUBSET Actions!Place] /\ scope["project"] = {q}
      /\ \A t \in Actions!Repo : scope[t] # {} => t = "project"
  BY <1>1 DEF Actions!OnlyIn
<1>3. /\ b \in Actions!Step /\ IsWrite(b, scope)
      /\ b.r = "project" /\ b.place = q /\ b.item[1] = x[1] /\ b.do = "put"
  BY <1>1, <1>2 DEF Actions!Put, Actions!Step, IsWrite, Actions!Item
<1>4. wt \in [Actions!Repo -> Actions!Tree] /\ \A r \in Actions!Repo : Sane(wt[r])
  BY <1>1 DEF Shapes
<1> HIDE DEF b, scope
<1>5. W \in [Actions!Repo -> Actions!Tree] /\ \A r \in Actions!Repo : Sane(W[r])
  BY <1>2, <1>3, <1>4, DidIs
<1>6. \A r \in Actions!Repo, p \in Actions!Place, f \in FactId : Holds(W, r, p, f)
        <=> Holds(wt, r, p, f)
  BY <1>1, <1>2, <1>3, <1>4, DidHolds
<1> HIDE DEF W
<1>7. EndsWell(wt, scope, W)
  BY <1>1, <1>2, <1>4, <1>5, <1>6, OthersGoWell DEF EndsWell
<1>8. Actions!Begin(<<b, Actions!Commit("project")>>, scope)
  BY DEF Actions!Confirm, b, scope
<1> QED
  BY SMTT(30), <1>1, <1>2, <1>3, <1>5, <1>7, <1>8, BeginKeeps DEF W

\* Editing: the fact stays where it is, its successor is new.
LEMMA EditKeeps ==
  ASSUME DirectInv, mode = "direct", Calm, NEW r \in Actions!Repo, NEW q \in Actions!Files,
         NEW x \in wt[r][q],
         NEW g \in FactId, Actions!Edit(r, x, q, g)
  PROVE  DirectInv'
<1> DEFINE a == Actions!Put(r, q, <<x[1], "old">>)
           b == Actions!Put(r, q, <<g, "hand">>)
           scope == Actions!OnlyIn(r, {q})
           W == Did(Did(wt, a), b)
<1>1. Shapes /\ x \in Actions!Item /\ x[1] \in FactId /\ Holds(wt, r, q, x[1])
        /\ q \in Actions!Place
        /\ q # "tombs"
  BY InTree DEF DirectInv, Actions!Files
<1>2. /\ scope \in [Actions!Repo -> SUBSET Actions!Place] /\ scope[r] = {q}
      /\ \A t \in Actions!Repo : scope[t] # {} => t = r
  BY <1>1 DEF Actions!OnlyIn
<1>3. /\ a \in Actions!Step /\ IsWrite(a, scope) /\ b \in Actions!Step /\ IsWrite(b, scope)
      /\ a.r = r /\ a.place = q /\ a.item[1] = x[1] /\ a.do = "put"
      /\ b.r = r /\ b.place = q /\ b.item[1] = g /\ b.do = "put"
  BY <1>1, <1>2 DEF Actions!Put, Actions!Step, IsWrite, Actions!Item
<1>4. wt \in [Actions!Repo -> Actions!Tree] /\ \A t \in Actions!Repo : Sane(wt[t])
  BY <1>1 DEF Shapes
<1> HIDE DEF a, b, scope
<1>5. W \in [Actions!Repo -> Actions!Tree] /\ \A t \in Actions!Repo : Sane(W[t])
  BY <1>2, <1>3, <1>4, TwoWrites
<1>6. \A t \in Actions!Repo, p \in Actions!Place, f \in FactId :
        Holds(W, t, p, f) <=>
          IF t = r /\ p = q /\ f = g THEN TRUE
          ELSE IF t = r /\ p = q /\ f = x[1] THEN TRUE
          ELSE Holds(wt, t, p, f)
  BY <1>2, <1>3, <1>4, TwoWrites
<1> HIDE DEF W
<1>7. \A t \in Actions!Repo, p \in Actions!Place : ~Holds(wt, t, p, g)
  <2> TAKE t \in Actions!Repo, p \in Actions!Place
  <2>1. Actions!Has(wt[t], g) = {} /\ ~Actions!Tombed(wt[t], g)
    BY DEF Actions!Edit
  <2>2. CASE p = "tombs"
    BY <2>1, <2>2, <1>4, TombIs DEF Holds, Actions!Tombed
  <2>3. CASE p # "tombs"
    BY <2>1, <2>3 DEF Actions!Has, Holds, Actions!Files
  <2> QED
    BY <2>2, <2>3
<1>8. EndsWell(wt, scope, W)
  <2> SUFFICES ASSUME NEW f \in FactId PROVE GoesWell(wt, scope, W, f)
    BY DEF EndsWell
  <2>1. CASE f # g
    BY <1>1, <1>2, <1>4, <1>5, <1>6, <2>1, OthersGoWell DEF Actions!Repo
  <2>2. CASE f = g
    <3>1. ~Within(wt, f, scope)
      BY <1>2, <1>7, <2>2 DEF Within
    <3>2. Whole(W, f)
      BY <1>1, <1>5, <1>6, <1>7, <2>2, WholeIs DEF Actions!Files, Actions!Repo, Actions!Place
    <3> QED
      BY <3>1, <3>2 DEF GoesWell
  <2> QED
    BY <2>1, <2>2
<1>9. Actions!Begin(<<a, b, Actions!Commit(r)>>, scope)
  BY DEF Actions!Edit, a, b, scope
<1> QED
  BY <1>2, <1>3, <1>5, <1>8, <1>9, BeginOne DEF W

\* Moving within the project: the fact is in its new file.
LEMMA MoveWithinKeeps ==
  ASSUME DirectInv, mode = "direct", Calm, NEW q \in Actions!Files, NEW x \in wt["project"][q],
         NEW to \in Actions!Files, Actions!MoveWithin(x, q, to)
  PROVE  DirectInv'
<1> DEFINE a == Actions!Cut("project", q, x)
           b == Actions!Put("project", to, x)
           scope == Actions!OnlyIn("project", {q, to})
           W == Did(Did(wt, a), b)
<1>1. Shapes /\ "project" \in Actions!Repo /\ x \in Actions!Item /\ x[1] \in FactId
        /\ Holds(wt, "project", q, x[1])
      /\ q \in Actions!Place /\ q # "tombs" /\ to \in Actions!Place /\ to # "tombs" /\ to # q
  BY InTree DEF DirectInv, Actions!Repo, Actions!Files, Actions!Place, Actions!MoveWithin
<1>2. /\ scope \in [Actions!Repo -> SUBSET Actions!Place] /\ scope["project"] = {q, to}
      /\ \A t \in Actions!Repo : scope[t] # {} => t = "project"
  BY <1>1 DEF Actions!OnlyIn
<1>3. /\ a \in Actions!Step /\ IsWrite(a, scope) /\ b \in Actions!Step /\ IsWrite(b, scope)
      /\ a.r = "project" /\ a.place = q /\ a.item[1] = x[1] /\ a.do = "cut"
      /\ b.r = "project" /\ b.place = to /\ b.item[1] = x[1] /\ b.do = "put"
  BY <1>1, <1>2 DEF Actions!Put, Actions!Cut, Actions!Step, IsWrite, Actions!Item
<1>4. wt \in [Actions!Repo -> Actions!Tree] /\ \A r \in Actions!Repo : Sane(wt[r])
  BY <1>1 DEF Shapes
<1> HIDE DEF a, b, scope
<1>5. W \in [Actions!Repo -> Actions!Tree] /\ \A r \in Actions!Repo : Sane(W[r])
  BY <1>2, <1>3, <1>4, TwoWrites
<1>6. \A r \in Actions!Repo, p \in Actions!Place, f \in FactId :
        Holds(W, r, p, f) <=>
          IF r = "project" /\ p = to /\ f = x[1] THEN TRUE
          ELSE IF r = "project" /\ p = q /\ f = x[1] THEN FALSE
          ELSE Holds(wt, r, p, f)
  BY <1>2, <1>3, <1>4, TwoWrites
<1> HIDE DEF W
<1>7. EndsWell(wt, scope, W)
  <2> SUFFICES ASSUME NEW f \in FactId PROVE GoesWell(wt, scope, W, f)
    BY DEF EndsWell
  <2>1. CASE f # x[1]
    BY <1>1, <1>2, <1>4, <1>5, <1>6, <2>1, OthersGoWell
  <2>2. CASE f = x[1]
    <3>1. Within(W, f, scope)
      BY <1>1, <1>2, <1>6, <2>2 DEF Within
    <3>2. Homes(wt, f) # {}
      BY <1>1, <2>2, HomesAre
    <3>3. Whole(wt, f) => Whole(W, f)
      BY <1>1, <1>4, <1>5, <1>6, <2>2, WholeIs DEF Actions!Files, Actions!Place
    <3> QED
      BY <3>1, <3>2, <3>3 DEF GoesWell
  <2> QED
    BY <2>1, <2>2
<1>8. Actions!Begin(<<a, b, Actions!Commit("project")>>, scope)
  BY DEF Actions!MoveWithin, a, b, scope
<1> QED
  BY <1>1, <1>2, <1>3, <1>5, <1>7, <1>8, BeginOne DEF W

\* Moving to the other repository: the fact is there and nowhere else.
LEMMA MoveAcrossKeeps ==
  ASSUME DirectInv, mode = "direct", Calm, NEW r \in Actions!Repo, NEW q \in Actions!Files,
         NEW x \in wt[r][q],
         Actions!MoveAcross(r, x, q)
  PROVE  DirectInv'
<1> DEFINE to == CHOOSE s \in Actions!Repo : s # r
           a == Actions!Put(to, "facts", x)
           b == Actions!Cut(r, q, x)
           scope == [s \in Actions!Repo |-> IF s = r THEN {q} ELSE {"facts"}]
           W == Did(Did(wt, a), b)
<1>1. to \in Actions!Repo /\ to # r /\ \A t \in Actions!Repo : t \in {r, to}
  <2>1. \E s \in Actions!Repo : s # r
    BY DEF Actions!Repo
  <2> QED
    BY <2>1 DEF Actions!Repo
<1>2. Actions!Begin(<<a, b, Actions!Commit(to), Actions!Commit(r)>>, scope)
  BY DEF Actions!MoveAcross
<1> HIDE DEF to
<1>3. Shapes /\ x \in Actions!Item /\ x[1] \in FactId /\ Holds(wt, r, q, x[1])
        /\ q \in Actions!Place
        /\ q # "tombs"
      /\ "facts" \in Actions!Files /\ "facts" \in Actions!Place
  BY InTree DEF DirectInv, Actions!Files, Actions!Place
<1>4. /\ scope \in [Actions!Repo -> SUBSET Actions!Place] /\ scope[r] = {q} /\ scope[to] = {"facts"}
  BY <1>1, <1>3
<1>5. /\ a \in Actions!Step /\ IsWrite(a, scope) /\ b \in Actions!Step /\ IsWrite(b, scope)
      /\ a.r = to /\ a.place = "facts" /\ a.item[1] = x[1] /\ a.do = "put"
      /\ b.r = r /\ b.place = q /\ b.item[1] = x[1] /\ b.do = "cut"
  BY <1>1, <1>3, <1>4 DEF Actions!Put, Actions!Cut, Actions!Step, IsWrite, Actions!Item
<1>6. wt \in [Actions!Repo -> Actions!Tree] /\ \A t \in Actions!Repo : Sane(wt[t])
  BY <1>3 DEF Shapes
<1> HIDE DEF a, b, scope
<1>7. W \in [Actions!Repo -> Actions!Tree] /\ \A t \in Actions!Repo : Sane(W[t])
  BY <1>4, <1>5, <1>6, TwoWrites
<1>8. \A t \in Actions!Repo, p \in Actions!Place, f \in FactId :
        Holds(W, t, p, f) <=>
          IF t = r /\ p = q /\ f = x[1] THEN FALSE
          ELSE IF t = to /\ p = "facts" /\ f = x[1] THEN TRUE
          ELSE Holds(wt, t, p, f)
  BY <1>4, <1>5, <1>6, TwoWrites
<1> HIDE DEF W
<1>9. ASSUME NEW f \in FactId
      PROVE GoesWell(wt, scope, W, f) /\ (Homes(W, f) # {} => Homes(wt, f) # {})
  <2>1. CASE f # x[1]
    BY <1>3, <1>4, <1>6, <1>7, <1>8, <2>1, OthersGoWell DEF Actions!Repo
  <2>2. CASE f = x[1]
    <3>1. Within(W, f, scope)
      BY <1>1, <1>3, <1>4, <1>8, <2>2 DEF Within
    <3>2. Homes(wt, f) # {}
      BY <1>3, <2>2, HomesAre
    <3>3. Whole(wt, f) => Whole(W, f)
      BY <1>1, <1>3, <1>6, <1>7, <1>8, <2>2, WholeIs DEF Actions!Files, Actions!Place, Actions!Repo
    <3> QED
      BY <3>1, <3>2, <3>3 DEF GoesWell
  <2> QED
    BY <2>1, <2>2
<1>10. EndsWell(wt, scope, W) /\ AddsNone(wt, W)
  BY <1>9 DEF EndsWell, AddsNone
<1> QED
  BY <1>1, <1>2, <1>4, <1>5, <1>7, <1>10, BeginKeeps DEF W

\* A rollback that loses no revert: everything is as it was when the action began.
LEMMA RollbackIs ==
  ASSUME DirectInv, Calm, fPc = "undo", NEW fails, NEW left, Actions!Rollback(fails, left), Calm'
  PROVE  /\ Shapes' /\ wt' = fJob.snap /\ Tip' = Base /\ fBreach' = fBreach
         /\ \A f \in FactId : Actions!Known(f)' <=> Actions!Known(f)
<1> DEFINE changed == {r \in Actions!Repo : fJob.scope[r] # {}}
           lost == {r \in changed : "revert" \in fails /\ Actions!Reverted(r) # log[r]}
           after == [r \in Actions!Repo |-> IF r \in changed \ lost THEN Actions!Reverted(r)
             ELSE log[r]]
<1>1. Shapes /\ Notes /\ UnderWay
  BY DEF DirectInv
<1>2. log' = after
  BY Zenon DEF Actions!Rollback
<1>3. lost = {} /\ fBreach' = fBreach /\ left = {}
  <2>1. IF lost # {} \/ "reset" \in fails \/ left # {} THEN fBreach' = fBreach \union {"undone"}
        ELSE fBreach' = fBreach
    BY Zenon DEF Actions!Rollback, Actions!Blame
  <2>2. "undone" \notin fBreach'
    BY DEF Calm
  <2> HIDE DEF lost
  <2> QED
    BY <2>1, <2>2
<1> HIDE DEF lost
<1>4. \A r \in Actions!Repo : Len(log[r]) \in Nat \ {0} /\ fJob.before[r] \in 1 .. Len(log[r])
  BY <1>1 DEF Shapes, UnderWay
<1>5. \A r \in Actions!Repo : log'[r] = IF r \in fJob.committed THEN Append(log[r], Base[r])
        ELSE log[r]
  <2> TAKE r \in Actions!Repo
  <2>1. CASE r \in fJob.committed
    <3>1. fJob.scope[r] # {} /\ Len(log[r]) = fJob.before[r] + 1
      BY <2>1, <1>1 DEF UnderWay
    <3>2. Actions!Reverted(r) = Append(log[r], log[r][Len(log[r]) - 1])
            /\ Len(log[r]) - 1 = fJob.before[r]
      BY <2>1, <3>1, <1>4 DEF Actions!Reverted
    <3> QED
      BY <2>1, <3>1, <3>2, <1>2, <1>3 DEF Base
  <2>2. CASE r \notin fJob.committed
    BY <2>2, <1>2 DEF Actions!Reverted
  <2> QED
    BY <2>1, <2>2
<1>6. \A r \in Actions!Repo : Base[r] \in Actions!Tree /\ Sane(Base[r])
        /\ log[r] \in Seq(Actions!Tree) /\ Len(log[r]) \in Nat
  BY <1>1, <1>4 DEF Base, Shapes
<1>7. ASSUME NEW r \in Actions!Repo
      PROVE  /\ log'[r] \in Seq(Actions!Tree) /\ log'[r] # << >> /\ Actions!Last(log'[r]) = Base[r]
             /\ \A i \in DOMAIN log'[r] :
                  \/ i \in DOMAIN log[r] /\ log'[r][i] = log[r][i]
                  \/ fJob.before[r] \in DOMAIN log[r] /\ log'[r][i] = log[r][fJob.before[r]]
             /\ \A i \in DOMAIN log[r] : i \in DOMAIN log'[r] /\ log'[r][i] = log[r][i]
  <2>1. CASE r \in fJob.committed
    <3>1. log'[r] = Append(log[r], Base[r]) /\ Base[r] = log[r][fJob.before[r]]
      BY <2>1, <1>5 DEF Base
    <3>2. Len(log'[r]) = Len(log[r]) + 1 /\ DOMAIN log'[r] = 1 .. Len(log[r]) + 1
            /\ DOMAIN log[r] = 1 .. Len(log[r])
          /\ log'[r][Len(log[r]) + 1] = Base[r]
               /\ \A i \in 1 .. Len(log[r]) : log'[r][i] = log[r][i]
      BY <3>1, <1>6
    <3>3. \A i \in 1 .. Len(log[r]) + 1 : i \in 1 .. Len(log[r]) \/ i = Len(log[r]) + 1
      BY <1>6
    <3>4. log'[r] \in Seq(Actions!Tree) /\ log'[r] # << >> /\ Actions!Last(log'[r]) = Base[r]
      BY <3>1, <3>2, <1>6 DEF Actions!Last
    <3>5. \A i \in DOMAIN log[r] : i \in DOMAIN log'[r] /\ log'[r][i] = log[r][i]
      BY <3>2, <1>6
    <3> QED
      BY <3>1, <3>2, <3>3, <3>4, <3>5, <1>4
  <2>2. CASE r \notin fJob.committed
    <3>1. log'[r] = log[r] /\ Len(log[r]) = fJob.before[r]
      BY <2>2, <1>1, <1>5 DEF UnderWay
    <3> QED
      BY <3>1, <1>1, <1>6 DEF Actions!Last, Base, Shapes
  <2> QED
    BY <2>1, <2>2
<1>8. Tip' = Base
  BY <1>7 DEF Tip, Base
<1>9. wt' = fJob.snap
  <2>0. wt' = [r \in Actions!Repo |-> [q \in Actions!Place |->
                 IF q \in fJob.scope[r] /\ <<r, q>> \notin left THEN fJob.snap[r][q]
                 ELSE IF Actions!Last(after[r])[q]
                   # Actions!Last(log[r])[q] THEN Actions!Last(after[r])[q]
                 ELSE wt[r][q]]]
    BY Zenon DEF Actions!Rollback, lost
  <2>1. ASSUME NEW r \in Actions!Repo, NEW q \in Actions!Place \ fJob.scope[r]
        PROVE  Actions!Last(after[r])[q] = Actions!Last(log[r])[q] /\ wt[r][q] = fJob.snap[r][q]
    <3>1. Actions!Last(after[r]) = Base[r]
      BY <1>2, <1>7
    <3>2. r \notin fJob.committed => Actions!Last(log[r]) = Base[r]
      BY <1>1 DEF UnderWay, Base, Actions!Last
    <3> QED
      BY <3>1, <3>2, <1>1 DEF UnderWay
  <2> HIDE DEF after
  <2>2. \A r \in Actions!Repo : wt'[r] = [q \in Actions!Place |-> fJob.snap[r][q]]
    BY <1>3, <2>0, <2>1
  <2>3. \A r \in Actions!Repo : fJob.snap[r] = [q \in Actions!Place |-> fJob.snap[r][q]]
    BY <1>1 DEF Notes, Actions!Tree
  <2>4. \A r \in Actions!Repo : wt'[r] = fJob.snap[r]
    BY <2>2, <2>3
  <2> QED
    BY <2>0, <2>4, <1>1 DEF Notes
<1>10. \A f \in FactId : Actions!Known(f)' <=> Actions!Known(f)
  <2> TAKE f \in FactId
  <2>1. ASSUME Actions!Known(f) PROVE Actions!Known(f)'
    <3>0. PICK r \in Actions!Repo : \E i \in DOMAIN log[r] : Actions!Has(log[r][i], f) # {}
      BY <2>1 DEF Actions!Known
    <3>1. PICK i \in DOMAIN log[r] : Actions!Has(log[r][i], f) # {}
      BY <3>0
    <3>2. i \in DOMAIN log'[r] /\ log'[r][i] = log[r][i]
      BY <1>7
    <3> QED
      BY <3>1, <3>2 DEF Actions!Known
  <2>2. ASSUME Actions!Known(f)' PROVE Actions!Known(f)
    <3>0. PICK r \in Actions!Repo : \E i \in DOMAIN log'[r] : Actions!Has(log'[r][i], f) # {}
      BY <2>2 DEF Actions!Known
    <3>1. PICK i \in DOMAIN log'[r] : Actions!Has(log'[r][i], f) # {}
      BY <3>0
    <3>2. \/ i \in DOMAIN log[r] /\ log'[r][i] = log[r][i]
          \/ fJob.before[r] \in DOMAIN log[r] /\ log'[r][i] = log[r][fJob.before[r]]
      BY <1>7
    <3> QED
      BY <3>1, <3>2 DEF Actions!Known
  <2> QED
    BY <2>1, <2>2
<1>11. Shapes'
  <2>1. \A r \in Actions!Repo : \A i \in DOMAIN log'[r] : Sane(log'[r][i])
    BY <1>1, <1>7 DEF Shapes
  <2>2. log' \in [Actions!Repo -> Seq(Actions!Tree)] /\ \A r \in Actions!Repo : log'[r] # << >>
    <3>1. log' = [r \in Actions!Repo |-> log'[r]]
      BY <1>2
    <3> HIDE DEF after
    <3> QED
      BY <3>1, <1>7
  <2> QED
    BY <2>1, <2>2, <1>1, <1>9 DEF Shapes, Notes
<1> QED
  BY <1>3, <1>8, <1>9, <1>10, <1>11

\* What is in one place, or has a tombstone, is so in what is committed.
LEMMA WholeIsOnce ==
  ASSUME NEW f \in FactId, Whole(Tip, f)
  PROVE  IF Actions!Tombed(Actions!Last(log["project"]), f) THEN Actions!Copies(f) = {}
           ELSE Actions!Cardinality(Actions!Copies(f)) = 1
<1>1. Actions!Copies(f) = Homes(Tip, f)
  BY DEF Actions!Copies, Homes, Holds, Actions!Has, Tip
<1>2. Actions!Tombed(Actions!Last(log["project"]), f) <=> <<f, "tomb">> \in Tip["project"]["tombs"]
  BY DEF Actions!Tombed, Tip, Actions!Repo
<1>3. CASE <<f, "tomb">> \in Tip["project"]["tombs"]
  BY <1>1, <1>2, <1>3 DEF Whole
<1>4. CASE <<f, "tomb">> \notin Tip["project"]["tombs"]
  <2>1. PICK c \in Actions!Repo \X Actions!Files : Homes(Tip, f) = {c}
    BY <1>4 DEF Whole
  <2>2. Cardinality({c}) = 1
    BY FS_Singleton
  <2> QED
    BY <1>1, <1>2, <1>4, <2>1, <2>2, ActionsLibrary
<1> QED
  BY <1>3, <1>4

\* The direct actions and what they do next.
LEMMA DirectBegins ==
  ASSUME DirectInv, mode = "direct", Calm, Actions!Direct
  PROVE  DirectInv'
<1>1. ASSUME NEW q \in Actions!Files, NEW x \in wt["project"][q], Actions!Forget(x,
             q) \/ Actions!Confirm(x, q) \/ \E to \in Actions!Files : Actions!MoveWithin(x, q, to)
      PROVE  DirectInv'
  BY <1>1, ForgetsKeep, ConfirmKeeps, MoveWithinKeeps
<1>2. ASSUME NEW r \in Actions!Repo, NEW q \in Actions!Files, NEW x \in wt[r][q],
             Actions!MoveAcross(r, x, q) \/ \E g \in FactId : Actions!Edit(r, x, q, g)
      PROVE  DirectInv'
  BY <1>2, MoveAcrossKeeps, EditKeeps
<1> QED
  BY <1>1, <1>2 DEF Actions!Direct

\* A step that fails leaves what the action noted for the rollback.
LEMMA StepFailsKeeps ==
  ASSUME DirectInv, Actions!StepFails PROVE DirectInv'
<1>1. UNCHANGED <<mode, wt, log, branch, pr, fJob, fBreach>> /\ fPc = "run" /\ fPc' = "undo"
  BY DEF Actions!StepFails, Actions!git, Actions!github
<1>2. Tip' = Tip /\ Base' = Base /\ \A f \in FactId : Actions!Known(f)' <=> Actions!Known(f)
  BY <1>1 DEF Tip, Base, Actions!Known
<1>3. AllWhole(Base)' <=> AllWhole(Base)
  BY <1>2 DEF AllWhole
<1>4. UnderWay'
  BY <1>1, <1>2, <1>3 DEF UnderWay, DirectInv
<1> QED
  BY <1>1, <1>2, <1>4 DEF DirectInv, Shapes, Notes

\* An action that is over has noted nothing.
LEMMA FreshNotes == ASSUME fJob' = Actions!NoJob PROVE Notes'
  BY DEF Notes, Actions!NoJob, Actions!Clean, Actions!Tree, Sane, Actions!Place

\* The rollback makes both repositories what they were.
LEMMA RollbackKeeps ==
  ASSUME DirectInv, Calm, NEW fails, NEW left, Actions!Rollback(fails, left), Calm'
  PROVE  DirectInv'
<1>1. UNCHANGED <<mode, branch, pr>> /\ fPc = "undo" /\ fPc' = "idle" /\ Notes'
  BY FreshNotes DEF Actions!Rollback, Actions!github, Actions!Finish
<1>2. /\ Shapes' /\ wt' = fJob.snap /\ Tip' = Base /\ fBreach' = fBreach
      /\ \A f \in FactId : Actions!Known(f)' <=> Actions!Known(f)
  BY <1>1, RollbackIs
<1>3. /\ \A f \in FactId : Actions!Known(f) => Somewhere(fJob.snap, Base, f)
      /\ fBreach = {} => fJob.snap = Base /\ AllWhole(Base)
  BY <1>1 DEF DirectInv, UnderWay
<1>4. fBreach' = {} => wt' = Tip' /\ AllWhole(Tip)'
  BY <1>2, <1>3 DEF AllWhole
<1> QED
  BY <1>1, <1>2, <1>3, <1>4 DEF DirectInv

\* A process that dies leaves every fact somewhere.
LEMMA DieKeepsDirect ==
  ASSUME DirectInv, Actions!Die PROVE DirectInv'
<1>1. UNCHANGED <<wt, log, branch, pr>> /\ fPc' = "idle" /\ fBreach' # {} /\ Notes'
  BY FreshNotes DEF Actions!Die, Actions!git, Actions!github, Actions!Finish, Actions!Blame
<1>2. Tip' = Tip /\ \A f \in FactId : Actions!Known(f)' <=> Actions!Known(f)
  BY <1>1 DEF Tip, Actions!Known
<1> QED
  BY <1>1, <1>2 DEF DirectInv, Shapes

\* What is on GitHub matters to a proposal only.
LEMMA DirectUnchanged ==
  ASSUME DirectInv, UNCHANGED <<wt, log, branch, fPc, fJob, fBreach>>, pr' = "none" PROVE DirectInv'
<1>1. Tip' = Tip /\ Base' = Base /\ \A f \in FactId : Actions!Known(f)' <=> Actions!Known(f)
  BY DEF Tip, Base, Actions!Known
<1>2. (AllWhole(Base)' <=> AllWhole(Base)) /\ (AllWhole(Tip)' <=> AllWhole(Tip))
  BY <1>1 DEF AllWhole
<1>3. (UnderWay' <=> UnderWay) /\ (Stages' <=> Stages)
  BY <1>1, <1>2 DEF UnderWay, Stages, Doing
<1> QED
  BY <1>1, <1>2, <1>3 DEF DirectInv, Shapes, Notes

\* What is not breached was not before.
LEMMA CalmBefore == ASSUME Actions!Next \/ UNCHANGED Actions!vars, Calm' PROVE Calm
<1>1. fBreach \subseteq fBreach'
  BY ZenonT(60) DEF Actions!Next, Actions!Direct, Actions!Forget, Actions!Confirm, Actions!Edit,
         Actions!MoveWithin, Actions!MoveAcross, Actions!Begin, Actions!RunStep, Actions!StepFails,
         Actions!Rollback,
     Actions!ForgetGoverned, Actions!RollbackGoverned, Actions!Branch, Actions!Materialize,
     Actions!CommitBranch, Actions!CleanUp, Actions!BackToMain, Actions!StuckOnBranch,
     Actions!OpenProposal, Actions!Merge, Actions!DropBranch, Actions!OtherCommits, Actions!Die,
     Actions!Blame, Actions!vars
<1> QED
  BY SMTT(30), <1>1 DEF Calm

\* Every step in direct mode.
LEMMA DirectKeeps ==
  ASSUME DirectInv, mode = "direct", Calm, Calm', Actions!Next PROVE DirectInv'
<1>1. CASE Actions!Direct
  BY <1>1, DirectBegins
<1>2. CASE Actions!RunStep
  BY <1>2, RunStepKeeps
<1>3. CASE Actions!StepFails
  BY <1>3, StepFailsKeeps
<1>4. CASE \E fails \in SUBSET {"revert", "reset"}, left \in SUBSET Actions!Noted :
             Actions!Rollback(fails, left)
  BY <1>4, RollbackKeeps
<1>5. CASE Actions!Die
  BY <1>5, DieKeepsDirect
<1>6. CASE Actions!DropBranch
  BY <1>6, DirectUnchanged DEF Actions!DropBranch
<1>7. CASE \E r \in Actions!Repo : Actions!OtherCommits(r)
  BY <1>7 DEF Actions!OtherCommits, Actions!Blame, Calm
<1>8. /\ ~(\E q \in Actions!Files : \E S \in SUBSET wt["project"][q] : Actions!ForgetGoverned(S, q))
      /\ ~Actions!RollbackGoverned /\ ~Actions!Materialize /\ ~Actions!CommitBranch
           /\ (\A left, staged : ~Actions!CleanUp(left, staged)) /\ ~Actions!BackToMain /\ ~Actions!StuckOnBranch
      /\ ~Actions!OpenProposal /\ ~Actions!Merge
  BY DEF DirectInv, Actions!ForgetGoverned, Actions!RollbackGoverned, Actions!Branch,
         Actions!Materialize, Actions!CommitBranch, Actions!CleanUp, Actions!BackToMain,
     Actions!StuckOnBranch, Actions!OpenProposal, Actions!Merge
<1> QED
  BY <1>1, <1>2, <1>3, <1>4, <1>5, <1>6, <1>7, <1>8 DEF Actions!Next

\* A governed action begins with a branch at main, for a tree that may be merged.
LEMMA BranchKeeps ==
  ASSUME GovernedInv, mode = "governed", Calm, NEW tree, Actions!Branch(tree), OneEach(body'),
         Proposal(Tip, KnownFacts, body', tree)
  PROVE  GovernedInv'
<1>1. /\ UNCHANGED <<mode, wt, log, pr, past, fBreach>> /\ fPc = "idle" /\ fPc' = "branch"
      /\ branch = "main" /\ branch' = "side" /\ fSide = << >>
           /\ fSide' = <<Actions!Last(log["project"])>>
      /\ fJob' = [Actions!NoJob EXCEPT !.snap["project"] = tree]
  BY DEF Actions!Branch
<1>2. Tip' = Tip /\ KnownFacts' = KnownFacts /\ \A f \in FactId : Actions!Known(f)'
        <=> Actions!Known(f)
  BY <1>1 DEF Tip, KnownFacts, Actions!Known
<1>3. Shapes /\ Shapes' /\ Actions!Last(log["project"]) \in Actions!Tree
        /\ Tip["project"] = Actions!Last(log["project"])
  BY <1>1 DEF GovernedInv, Shapes, Actions!Last, Tip, Actions!Repo
<1>4. Sane(tree)
  BY DEF Proposal
<1>5. /\ DOMAIN fJob' = {"todo", "scope", "snap", "before", "committed"}
      /\ fJob'.scope = Actions!NoJob.scope /\ fJob'.before = Actions!NoJob.before
           /\ fJob'.committed = {}
      /\ fJob'.snap = [r \in Actions!Repo |-> IF r = "project" THEN tree ELSE Actions!Clean]
  BY <1>1 DEF Actions!NoJob
<1>6. Notes'
  BY <1>4, <1>5 DEF Notes, Actions!NoJob, Actions!Clean, Actions!Tree, Sane, Actions!Place
<1>7. fSide' \in Seq(Actions!Tree) /\ Len(fSide') = 1 /\ fSide'[1] = Tip["project"]
        /\ fSide' # << >>
  BY <1>1, <1>3
<1>8. AllWhole(Tip)'
  BY <1>2 DEF GovernedInv, AllWhole
<1>9. pr # "open"
  BY <1>1 DEF GovernedInv
<1>10. fJob'.snap["project"] = tree
  BY <1>5 DEF Actions!Repo
<1> QED
  BY <1>1, <1>2, <1>3, <1>5, <1>6, <1>7, <1>8, <1>9, <1>10 DEF GovernedInv

\* What only the history of main decides.
LEMMA SameHistory ==
  ASSUME log' = log
  PROVE  /\ Tip' = Tip /\ KnownFacts' = KnownFacts /\ (AllWhole(Tip)' <=> AllWhole(Tip))
         /\ \A f \in FactId : Actions!Known(f)' <=> Actions!Known(f)
<1>1. Tip' = Tip /\ \A f \in FactId : Actions!Known(f)' <=> Actions!Known(f)
  BY DEF Tip, Actions!Known
<1> QED
  BY <1>1 DEF KnownFacts, AllWhole

\* The tree is written, or some of its files.
LEMMA MaterializeKeeps ==
  ASSUME GovernedInv, Actions!Materialize PROVE GovernedInv'
<1>1. /\ UNCHANGED <<mode, log, branch, fSide, pr, body, past, fJob, fActs, fBreach>>
           /\ fPc = "branch"
      /\ branch # "main" /\ fPc' \in {"commit", "clean"}
      /\ wt' \in [Actions!Repo -> Actions!Tree] /\ (\A r \in Actions!Repo : Sane(wt'[r]))
           /\ wt'["user"] = wt["user"]
      /\ fPc' = "commit" => wt'["project"] = fJob.snap["project"]
  <2>1. /\ wt \in [Actions!Repo -> Actions!Tree] /\ (\A r \in Actions!Repo : Sane(wt[r]))
        /\ fJob.snap["project"] \in Actions!Tree /\ Sane(fJob.snap["project"])
    BY DEF GovernedInv, Shapes, Notes, Actions!Repo
  <2>2. CASE wt' = [wt EXCEPT !["project"] = fJob.snap["project"]] /\ fPc' = "commit"
    BY <2>1, <2>2 DEF Actions!Materialize, Actions!github, GovernedInv, Actions!Repo
  <2>3. ASSUME NEW Q \in SUBSET Actions!Place, fPc' = "clean",
               wt' = [wt EXCEPT !["project"]
                 = [q \in Actions!Place |-> IF q \in Q THEN fJob.snap["project"][q] ELSE @[q]]]
        PROVE  wt' \in [Actions!Repo -> Actions!Tree] /\ (\A r \in Actions!Repo : Sane(wt'[r]))
                 /\ wt'["user"] = wt["user"]
    <3> DEFINE t == [q \in Actions!Place |-> IF q \in Q THEN fJob.snap["project"][q]
          ELSE wt["project"][q]]
    <3>1. wt' = [wt EXCEPT !["project"] = t]
      BY <2>3
    <3>2. t \in Actions!Tree /\ Sane(t)
      BY <2>1 DEF Sane, Actions!Tree, Actions!Repo, Actions!Place
    <3> HIDE DEF t
    <3> QED
      BY <3>1, <3>2, <2>1 DEF Actions!Repo
  <2> QED
    BY <2>2, <2>3 DEF Actions!Materialize, Actions!github, GovernedInv
<1>2. Shapes'
  BY <1>1 DEF GovernedInv, Shapes
<1>3. Tip' = Tip /\ KnownFacts' = KnownFacts /\ (AllWhole(Tip)' <=> AllWhole(Tip))
  BY <1>1, SameHistory
<1> QED
  BY <1>1, <1>2, <1>3 DEF GovernedInv, Notes

\* It is committed on the branch.
LEMMA CommitBranchKeeps ==
  ASSUME GovernedInv, Actions!CommitBranch PROVE GovernedInv'
<1>1. UNCHANGED <<mode, wt, log, branch, pr, body, past, fActs, fBreach>> /\ fPc = "commit"
        /\ branch # "main"
  BY DEF Actions!CommitBranch, Actions!github, GovernedInv
<1>2. Tip' = Tip /\ KnownFacts' = KnownFacts /\ (AllWhole(Tip)' <=> AllWhole(Tip)) /\ Shapes'
  BY <1>1, SameHistory DEF GovernedInv, Shapes
<1>3. CASE fSide' = Append(fSide, wt["project"]) /\ fJob' = [fJob EXCEPT !.committed = {"project"}]
             /\ fPc' = "back"
  <2>1. /\ DOMAIN fJob' = DOMAIN fJob /\ fJob'.scope = fJob.scope /\ fJob'.before = fJob.before
        /\ fJob'.snap = fJob.snap /\ fJob'.committed = {"project"}
    BY <1>3 DEF GovernedInv, Notes
  <2>2. Notes'
    BY <2>1 DEF GovernedInv, Notes, Actions!Repo
  <2>3. wt["project"] \in Actions!Tree /\ wt["project"] = fJob.snap["project"] /\ Len(fSide) = 1
          /\ fSide \in Seq(Actions!Tree)
        /\ Proposal(Tip, KnownFacts, body, fJob.snap["project"])
    BY <1>1 DEF GovernedInv, Shapes, Actions!Repo
  <2>4. /\ fSide' \in Seq(Actions!Tree) /\ Len(fSide') = 2 /\ fSide'[1] = fSide[1]
             /\ fSide'[2] = wt["project"]
        /\ fSide' # << >> /\ fSide # << >>
    <3>1. wt["project"] \in Actions!Tree /\ Len(fSide) = 1 /\ fSide \in Seq(Actions!Tree)
            /\ fSide' = Append(fSide, wt["project"])
      BY <1>3, <2>3
    <3> QED
      BY <3>1, SecondOfTwo
  <2>5. Actions!Last(fSide') = wt["project"]
    BY <2>4 DEF Actions!Last
  <2> QED
    BY <1>1, <1>2, <1>3, <2>1, <2>2, <2>3, <2>4, <2>5 DEF GovernedInv
<1>4. CASE UNCHANGED <<fSide, fJob>> /\ fPc' = "clean"
  BY <1>1, <1>2, <1>4 DEF GovernedInv, Notes
<1> QED
  BY <1>3, <1>4 DEF Actions!CommitBranch

\* What is not committed is restored.
LEMMA CleanUpKeeps ==
  ASSUME GovernedInv, NEW left, NEW staged, Actions!CleanUp(left, staged), Calm'
  PROVE  GovernedInv'
<1>1. /\ UNCHANGED <<mode, log, branch, fSide, pr, body, past, fJob, fActs>>
           /\ fPc = "clean" /\ branch # "main"
      /\ fPc' = "back" /\ Len(fSide) = 1 /\ fJob.committed = {}
      /\ fBreach' = fBreach /\ \A q \in left : wt["project"][q] = Actions!Last(fSide)[q]
      /\ wt' = [wt EXCEPT !["project"] = [q \in Actions!Place |->
                  IF q \in left THEN wt["project"][q] ELSE Actions!Last(fSide)[q]]]
  <2>1. "left" \notin fBreach'
    BY DEF Calm
  <2>2. UNCHANGED fBreach /\ ~ \E q \in left : wt["project"][q] # Actions!Last(fSide)[q]
    BY Zenon, <2>1 DEF Actions!CleanUp, Actions!Blame
  <2> QED
    BY <2>2 DEF Actions!CleanUp, Actions!github, GovernedInv
<1>2. Actions!Last(fSide) = Tip["project"] /\ Tip["project"] \in Actions!Tree
        /\ Sane(Tip["project"]) /\ wt \in [Actions!Repo -> Actions!Tree]
      /\ \A r \in Actions!Repo : Sane(wt[r])
  <2>1. fSide # << >> /\ Actions!Last(fSide) = fSide[1]
    BY <1>1 DEF Actions!Last
  <2> QED
    BY <2>1 DEF GovernedInv, Shapes, Tip, Actions!Last, Actions!Repo
<1>3. /\ wt'["project"] = Actions!Last(fSide) /\ wt'["user"] = wt["user"]
           /\ wt' \in [Actions!Repo -> Actions!Tree]
      /\ \A r \in Actions!Repo : Sane(wt'[r])
  <2>1. [q \in Actions!Place |-> IF q \in left THEN wt["project"][q] ELSE Actions!Last(fSide)[q]]
          = Actions!Last(fSide)
    BY <1>1, <1>2 DEF Actions!Tree
  <2> QED
    BY <2>1, <1>1, <1>2 DEF Actions!Repo
<1>4. Tip' = Tip /\ KnownFacts' = KnownFacts /\ (AllWhole(Tip)' <=> AllWhole(Tip)) /\ Shapes'
  BY <1>1, <1>3, SameHistory DEF GovernedInv, Shapes
<1> QED
  BY <1>1, <1>3, <1>4 DEF GovernedInv, Notes

\* Back on main, the working tree is main's.
LEMMA BackToMainKeeps ==
  ASSUME GovernedInv, Actions!BackToMain PROVE GovernedInv'
<1>1. /\ UNCHANGED <<mode, log, fSide, pr, body, past, fActs, fBreach>> /\ fPc = "back"
           /\ branch' = "main"
      /\ wt' = [wt EXCEPT !["project"] = Actions!OnMain]
      /\ wt["project"] = Actions!Last(fSide)
  BY DEF Actions!BackToMain, Actions!github, GovernedInv
<1>2. Actions!OnMain = Tip["project"]
  <2>1. Tip["project"] \in Actions!Tree
    BY DEF GovernedInv, Shapes, Tip, Actions!Last, Actions!Repo
  <2>2. Actions!OnMain = [q \in Actions!Place |-> Tip["project"][q]]
    BY <1>1 DEF Actions!OnMain, Tip, Actions!Repo
  <2> QED
    BY <2>1, <2>2 DEF Actions!Tree
<1>3. Sane(Tip["project"])
  BY DEF GovernedInv, Shapes, Tip, Actions!Last, Actions!Repo
<1>4. /\ wt'["project"] = Tip["project"] /\ wt'["user"] = wt["user"]
           /\ wt' \in [Actions!Repo -> Actions!Tree]
      /\ \A r \in Actions!Repo : Sane(wt'[r])
  BY <1>1, <1>2, <1>3 DEF GovernedInv, Shapes, Actions!Repo, Sane
<1>5. Tip' = Tip /\ KnownFacts' = KnownFacts /\ (AllWhole(Tip)' <=> AllWhole(Tip)) /\ Shapes'
  BY <1>1, <1>4, SameHistory DEF GovernedInv, Shapes
<1>6. CASE fJob.committed # {} /\ fPc' = "push" /\ fJob' = fJob
  BY <1>1, <1>4, <1>5, <1>6 DEF GovernedInv, Notes
<1>7. CASE fJob.committed = {} /\ fPc' = "idle" /\ fJob' = Actions!NoJob
  <2>1. Notes' /\ Len(fSide) = 1
    BY <1>1, <1>7, FreshNotes DEF GovernedInv
  <2> QED
    BY <1>1, <1>4, <1>5, <1>7, <2>1 DEF GovernedInv
<1> QED
  BY <1>6, <1>7 DEF Actions!BackToMain, Actions!Finish

\* The proposal is opened, or not.
LEMMA OpenProposalKeeps ==
  ASSUME GovernedInv, Actions!OpenProposal PROVE GovernedInv'
<1>1. /\ UNCHANGED <<mode, wt, log, branch, fSide, body, past, fActs, fBreach>> /\ fPc = "push"
           /\ fPc' = "idle"
      /\ branch = "main" /\ Len(fSide) = 2 /\ Notes'
  BY FreshNotes DEF Actions!OpenProposal, Actions!git, GovernedInv, Actions!Finish
<1>2. Tip' = Tip /\ KnownFacts' = KnownFacts /\ (AllWhole(Tip)' <=> AllWhole(Tip)) /\ Shapes'
  BY <1>1, SameHistory DEF GovernedInv, Shapes
<1> QED
  BY <1>1, <1>2 DEF GovernedInv

\* The branch is deleted.
LEMMA DropBranchKeeps ==
  ASSUME GovernedInv, Actions!DropBranch PROVE GovernedInv'
<1>1. /\ UNCHANGED <<mode, wt, log, branch, past, fPc, fJob, fActs, fBreach>> /\ fSide' = << >>
           /\ pr' = "none"
      /\ body' = {} /\ fPc = "idle"
  BY DEF Actions!DropBranch
<1>2. Tip' = Tip /\ KnownFacts' = KnownFacts /\ (AllWhole(Tip)' <=> AllWhole(Tip)) /\ Shapes'
        /\ Notes'
  BY <1>1, SameHistory DEF GovernedInv, Shapes, Notes
<1>3. fSide' \in Seq(Actions!Tree) /\ Len(fSide') = 0 /\ OneEach(body')
  BY <1>1 DEF OneEach
<1> QED
  BY <1>1, <1>2, <1>3 DEF GovernedInv

\* The process dies.
LEMMA DieKeepsGoverned ==
  ASSUME GovernedInv, Actions!Die PROVE GovernedInv'
<1>1. /\ UNCHANGED <<mode, wt, log, branch, fSide, pr, body, past>> /\ fPc' = "idle"
           /\ fBreach' # {} /\ Notes'
  BY FreshNotes DEF Actions!Die, Actions!git, Actions!github, Actions!Finish, Actions!Blame
<1>2. Tip' = Tip /\ KnownFacts' = KnownFacts /\ (AllWhole(Tip)' <=> AllWhole(Tip)) /\ Shapes'
  BY <1>1, SameHistory DEF GovernedInv, Shapes
<1> QED
  BY <1>1, <1>2 DEF GovernedInv

\* A step that changes nothing.
LEMMA GovernedUnchanged ==
  ASSUME GovernedInv, UNCHANGED Actions!vars PROVE GovernedInv'
<1>1. UNCHANGED <<mode, wt, log, branch, fSide, pr, body, past, fPc, fJob, fBreach>>
  BY DEF Actions!vars, Actions!git, Actions!github
<1>2. Tip' = Tip /\ KnownFacts' = KnownFacts /\ (AllWhole(Tip)' <=> AllWhole(Tip)) /\ Shapes'
  BY <1>1, SameHistory DEF GovernedInv, Shapes
<1> QED
  BY <1>1, <1>2 DEF GovernedInv, Notes

\* Merging: main becomes the tree of the proposal.
LEMMA MergeKeeps ==
  ASSUME GovernedInv, Actions!Merge PROVE GovernedInv'
<1> DEFINE base == Tip["project"]
           t == fSide[2]
           new == [q \in Actions!Place |-> (base[q] \ (base[q] \ t[q])) \union (t[q] \ base[q])]
<1>1. /\ pr = "open" /\ fPc = "idle" /\ branch = "main"
           /\ UNCHANGED <<mode, branch, fPc, fJob, fActs, fBreach>>
      /\ fSide' = << >> /\ pr' = "none" /\ past' = body /\ body' = {}
  BY DEF Actions!Merge
<1>2. Shapes /\ Len(fSide) = 2 /\ fSide[1] = base /\ Actions!Last(fSide) = t
      /\ Proposal(Tip, KnownFacts, body, t)
  <2>1. /\ Shapes /\ (fSide # <<>> => fSide[1] = Tip["project"])
        /\ (branch = "main" /\ Len(fSide) = 2 => Proposal(Tip, KnownFacts, body, fSide[2]))
        /\ (fPc = "push" \/ pr = "open" => branch = "main" /\ Len(fSide) = 2)
    BY DEF GovernedInv
  <2>2. Len(fSide) = 2
    BY <1>1, <2>1
  <2> QED
    BY <1>1, <2>1, <2>2 DEF Actions!Last
<1>3. Sane(t) /\ t \in Actions!Tree /\ OneItem(t)
  BY <1>2 DEF Proposal, Sane
<1>4. base \in Actions!Tree /\ base = Actions!Last(log["project"])
  BY <1>2 DEF Shapes, Tip, Actions!Last, Actions!Repo
<1>5. new = t
  <2>1. \A q \in Actions!Place : (base[q] \ (base[q] \ t[q])) \union (t[q] \ base[q]) = t[q]
    OBVIOUS
  <2>2. t = [q \in Actions!Place |-> t[q]]
    BY <1>3 DEF Actions!Tree
  <2> QED
    BY <2>1, <2>2
<1>6. log' = [log EXCEPT !["project"] = Append(@, t)]
  <2>1. log' = [log EXCEPT !["project"] = Append(@, [q \in Actions!Place |->
                  (Actions!Last(@)[q] \ [p
                    \in Actions!Place |-> fSide[1][p] \ Actions!Last(fSide)[p]][q])
                    \union [p \in Actions!Place |-> Actions!Last(fSide)[p] \ fSide[1][p]][q]])]
    BY DEF Actions!Merge
  <2>2. [q \in Actions!Place |-> (Actions!Last(log["project"])[q] \ [p
          \in Actions!Place |-> fSide[1][p] \ Actions!Last(fSide)[p]][q])
                          \union [p \in Actions!Place |-> Actions!Last(fSide)[p] \ fSide[1][p]][q]]
                            = new
    BY <1>2, <1>4
  <2> QED
    BY <2>1, <2>2, <1>5
<1> HIDE DEF new
<1>7. /\ log' \in [Actions!Repo -> Seq(Actions!Tree)]
      /\ \A u \in Actions!Repo : log'[u] # << >> /\ \A i \in DOMAIN log'[u] : Sane(log'[u][i])
      /\ Actions!Last(log'["project"]) = t /\ Tip' = [Tip EXCEPT !["project"] = t]
      /\ \A f \in FactId : Actions!Known(f)' <=> Actions!Known(f) \/ Actions!Has(t, f) # {}
  <2> HIDE DEF t
  <2>1. "project" \in Actions!Repo
    BY DEF Actions!Repo
  <2> QED
    BY <1>2, <1>3, <1>6, <2>1, CommitIs
<1>8. wt' = [wt EXCEPT !["project"] = t]
  BY <1>7 DEF Actions!Merge
<1>9. \A f \in FactId : Actions!Known(f)' <=> Actions!Known(f)
  <2>1. ASSUME NEW f \in FactId, Actions!Has(t, f) # {} PROVE Actions!Known(f)
    BY <1>2, <2>1 DEF Proposal, Actions!Has, KnownFacts
  <2> QED
    BY <1>7, <2>1
<1>10. AllWhole(Tip)'
  BY <1>2, <1>7, <1>9 DEF AllWhole, Proposal, KnownFacts
<1>11. Shapes'
  BY <1>2, <1>3, <1>7, <1>8 DEF Shapes
<1>12. /\ Tip'["project"] = t /\ wt'["project"] = t /\ Tip'["user"] = Tip["user"]
            /\ wt'["user"] = wt["user"]
  BY <1>2, <1>7, <1>8 DEF Shapes, Tip, Actions!Repo
<1>13. Notes' /\ fSide' \in Seq(Actions!Tree) /\ Len(fSide') = 0 /\ OneEach(past') /\ OneEach(body')
  BY <1>1 DEF GovernedInv, Notes, OneEach
<1> QED
  BY <1>1, <1>3, <1>10, <1>11, <1>12, <1>13 DEF GovernedInv

\* A tree for a proposal differs from main's in the places of facts that it forgets or restores.
LEMMA WithTree ==
  ASSUME Shapes, NEW t, Sane(t), NEW f \in FactId
  PROVE  /\ [Tip EXCEPT !["project"] = t]["project"] = t
         /\ \A q \in Actions!Place : Holds([Tip EXCEPT !["project"] = t], "project", q, f)
              <=> \E x \in t[q] : x[1] = f
         /\ \A q \in Actions!Place : Holds([Tip EXCEPT !["project"] = t], "user", q, f)
              <=> Holds(Tip, "user", q, f)
<1>1. [Tip EXCEPT !["project"] = t]["project"] = t
        /\ [Tip EXCEPT !["project"] = t]["user"] = Tip["user"]
  BY DEF Tip, Actions!Repo
<1> QED
  BY <1>1 DEF Holds

\* Forgetting some facts of a file.
LEMMA ForgetGovernedKeeps ==
  ASSUME GovernedInv, mode = "governed", Calm, NEW q \in Actions!Files,
         NEW S \in SUBSET wt["project"][q],
         Actions!ForgetGoverned(S, q)
  PROVE  GovernedInv'
<1> DEFINE base == Tip["project"]
           tree == Actions!With(Actions!Without(wt["project"], q, S), "tombs", Actions!Tombs(S))
<1>1. /\ S # {} /\ Actions!Branch(tree) /\ body' = {<<x, q>> : x \in S} /\ branch = "main"
           /\ log' = log
  BY DEF Actions!ForgetGoverned, Actions!Branch
<1>2. /\ wt["project"] = base /\ Shapes /\ AllWhole(Tip) /\ OneItem(base)
  BY <1>1 DEF GovernedInv
<1>3. base \in Actions!Tree /\ Sane(base) /\ S \subseteq base[q]
        /\ base = Actions!Last(log["project"]) /\ base[q] \subseteq Actions!Item
      /\ q \in Actions!Place /\ q # "tombs" /\ "tombs" \in Actions!Place
  BY <1>2 DEF Shapes, Tip, Actions!Last, Actions!Repo, Actions!Tree, Actions!Files, Actions!Place
<1>4. \A x \in S : x \in Actions!Item /\ x[1] \in FactId /\ <<x[1], "tomb">> \in Actions!Item
  BY <1>3 DEF Actions!Item
<1>5. Actions!Tombs(S) \subseteq Actions!Item /\ (\A y \in Actions!Tombs(S) : y[2] = "tomb")
      /\ \A f \in FactId : (\E y \in Actions!Tombs(S) : y[1] = f) <=> \E x \in S : x[1] = f
  <2>1. \A y \in Actions!Tombs(S) : \E x \in S : y = <<x[1], "tomb">>
    BY DEF Actions!Tombs
  <2>2. \A x \in S : <<x[1], "tomb">> \in Actions!Tombs(S)
    BY DEF Actions!Tombs
  <2>3. \A y \in Actions!Tombs(S) : y \in Actions!Item /\ y[2] = "tomb"
    BY <1>4, <2>1
  <2>4. ASSUME NEW f \in FactId
        PROVE (\E y \in Actions!Tombs(S) : y[1] = f) <=> \E x \in S : x[1] = f
    <3>1. ASSUME NEW y \in Actions!Tombs(S), y[1] = f PROVE \E x \in S : x[1] = f
      BY <2>1, <3>1
    <3>2. ASSUME NEW x \in S, x[1] = f PROVE \E y \in Actions!Tombs(S) : y[1] = f
      <4>1. <<x[1], "tomb">> \in Actions!Tombs(S)
        BY <2>2
      <4>2. <<x[1], "tomb">>[1] = f
        BY <3>2
      <4> QED
        BY <4>1, <4>2
    <3> QED
      BY <3>1, <3>2
  <2> QED
    BY <2>3, <2>4
<1>6. tree = [p \in Actions!Place |-> IF p = "tombs" THEN base[p] \union Actions!Tombs(S)
        ELSE IF p = q THEN base[p] \ S ELSE base[p]]
  <2>1. Actions!Without(base, q, S) = [p \in Actions!Place |-> IF p = q THEN base[p] \ S
          ELSE base[p]]
    BY <1>3 DEF Actions!Without, Actions!Tree
  <2>2. Actions!With(Actions!Without(base, q, S), "tombs", Actions!Tombs(S)) =
          [p \in Actions!Place |-> IF p = "tombs" THEN Actions!Without(base, q, S)["tombs"]
            \union Actions!Tombs(S) ELSE Actions!Without(base, q, S)[p]]
    BY <2>1 DEF Actions!With
  <2> QED
    BY ZenonT(60), <2>1, <2>2, <1>2, <1>3
<1>7. tree \in Actions!Tree /\ Sane(tree)
  BY <1>3, <1>5, <1>6 DEF Sane, Actions!Tree
<1> HIDE DEF tree
<1>8. \A p \in Actions!Files : tree[p] \subseteq base[p]
  BY <1>6 DEF Actions!Files
<1>9. OneItem(tree)
  BY <1>2, <1>8 DEF OneItem
<1>10. \A p \in Actions!Files : \A x \in tree[p] : x[1] \in KnownFacts
  <2> TAKE p \in Actions!Files
  <2> TAKE x \in tree[p]
  <2>1. x \in base[p] /\ p \in Actions!Place
    BY <1>8 DEF Actions!Files
  <2>2. x[1] \in FactId
    BY <2>1, <1>3 DEF Actions!Tree, Actions!Item
  <2>3. Actions!Has(log["project"][Len(log["project"])], x[1]) # {}
          /\ Len(log["project"]) \in DOMAIN log["project"]
    BY <2>1, <1>2, <1>3 DEF Actions!Has, Actions!Last, Shapes, Actions!Repo
  <2> QED
    BY <2>2, <2>3 DEF KnownFacts, Actions!Known, Actions!Repo
<1>11. \A f \in KnownFacts : Whole([Tip EXCEPT !["project"] = tree], f)
  <2> TAKE f \in KnownFacts
  <2> DEFINE T == [Tip EXCEPT !["project"] = tree]
  <2>1. f \in FactId /\ Whole(Tip, f)
    BY <1>2 DEF KnownFacts, AllWhole
  <2>2. /\ T["project"] = tree
        /\ \A p \in Actions!Place : Holds(T, "project", p, f) <=> \E x \in tree[p] : x[1] = f
        /\ \A p \in Actions!Place : Holds(T, "user", p, f) <=> Holds(Tip, "user", p, f)
    BY <1>2, <1>7, <2>1, WithTree
  <2> HIDE DEF T
  <2>3. \A p \in Actions!Place : Holds(Tip, "project", p, f) <=> \E x \in base[p] : x[1] = f
    BY DEF Holds
  <2>4. ASSUME \E x \in S : x[1] = f PROVE Whole(T, f)
    <3>1. Holds(T, "project", "tombs", f)
      BY <2>2, <2>4, <1>3, <1>5, <1>6, <2>1
    <3>2. Holds(Tip, "project", q, f)
      BY <2>3, <2>4, <1>3
    <3>3. ~Holds(T, "project", q, f)
      BY <2>2, <2>4, <1>2, <1>3, <1>6 DEF OneItem
    <3>4. \A r \in Actions!Repo, p \in Actions!Files : Holds(Tip, r, p, f) => r = "project" /\ p = q
      BY <2>1, <3>2, <1>3, WholeIs DEF Actions!Repo
    <3>5. \A r \in Actions!Repo, p \in Actions!Files : ~Holds(T, r, p, f)
      BY <3>3, <3>4, <2>2, <2>3, <1>8 DEF Actions!Repo, Actions!Files
    <3>6. Sane(T["project"])
      BY <2>2, <1>7
    <3> QED
      BY <3>1, <3>5, <3>6, <2>1, WholeIs
  <2>5. ASSUME ~ \E x \in S : x[1] = f PROVE Whole(T, f)
    <3>1. \A p \in Actions!Place : Holds(T, "project", p, f) <=> Holds(Tip, "project", p, f)
      BY <2>1, <2>2, <2>3, <2>5, <1>3, <1>5, <1>6
    <3>2. \A r \in Actions!Repo, p \in Actions!Place : Holds(T, r, p, f) <=> Holds(Tip, r, p, f)
      BY <3>1, <2>2 DEF Actions!Repo
    <3>3. Sane(T["project"]) /\ Sane(Tip["project"]) /\ Notes
      BY <2>2, <1>3, <1>7 DEF GovernedInv
    <3>4. GoesWell(Tip, fJob.scope, T, f)
      <4>1. fJob.scope \in [Actions!Repo -> SUBSET Actions!Place]
        BY <3>3 DEF Notes
      <4> QED
        BY <3>2, <3>3, <4>1, <2>1, OthersGoWell
    <3> QED
      BY <3>4, <2>1 DEF GoesWell
  <2> QED
    BY <2>4, <2>5 DEF T
<1>12. Described(body', base, tree)
  <2>1. {e[1] : e \in body'} = S
    <3>1. \A e \in body' : e[1] \in S
      BY <1>1
    <3>2. \A x \in S : \E e \in body' : e[1] = x
      <4> TAKE x \in S
      <4>1. <<x, q>> \in body' /\ <<x, q>>[1] = x
        BY <1>1
      <4> QED
        BY <4>1
    <3> QED
      BY <3>1, <3>2
  <2>2. \A p \in Actions!Place : {x \in S : <<x, p>> \in body'} = IF p = q THEN S ELSE {}
    BY <1>1
  <2> QED
    BY <2>1, <2>2, <1>3, <1>6 DEF Described
<1>13. OneEach(body')
  <2>1. body' \subseteq Actions!Item \X Actions!Files
    <3>1. ASSUME NEW x \in S PROVE <<x, q>> \in Actions!Item \X Actions!Files
      BY <1>4
    <3> QED
      BY <1>1, <3>1
  <2>2. \A d, e \in body' : d[1][1] = e[1][1] => d = e
    BY <1>1, <1>2, <1>3 DEF OneItem
  <2> QED
    BY <2>1, <2>2 DEF OneEach
<1>14. Proposal(Tip, KnownFacts, body', tree)
  BY <1>7, <1>9, <1>10, <1>11, <1>12 DEF Proposal
<1> QED
  BY <1>1, <1>13, <1>14, BranchKeeps DEF tree

\* Taking back the last forgetting: its facts are where they were, without tombstones.
LEMMA RollbackGovernedKeeps ==
  ASSUME GovernedInv, mode = "governed", Calm, Actions!RollbackGoverned
  PROVE  GovernedInv'
<1> DEFINE base == Tip["project"]
           S == {e[1] : e \in past}
           tree == [q \in Actions!Place |-> IF q = "tombs" THEN base[q] \ Actions!Tombs(S)
                                    ELSE base[q] \union {x \in S : <<x, q>> \in past}]
<1>1. /\ branch = "main" /\ wt["project"] = base /\ body' = {} /\ Shapes /\ AllWhole(Tip)
           /\ OneItem(base)
      /\ OneEach(past)
  BY DEF Actions!RollbackGoverned, Actions!Branch, GovernedInv
<1>2. Actions!Branch(tree)
  BY <1>1 DEF Actions!RollbackGoverned
<1>3. \A e \in past :
        /\ Actions!Has(base, e[1][1]) = {} /\ Actions!Tombed(base, e[1][1])
        /\ \E i \in 1 .. Len(log["project"]) : e[1] \in log["project"][i][e[2]]
  BY <1>1 DEF Actions!RollbackGoverned
<1>4. base \in Actions!Tree /\ Sane(base)
  BY <1>1 DEF Shapes, Tip, Actions!Last, Actions!Repo
<1>5. past \subseteq Actions!Item \X Actions!Files /\ \A d, e \in past : d[1][1] = e[1][1] => d = e
  BY <1>1 DEF OneEach
<1>6. \A x \in S : \E p \in Actions!Files : <<x, p>> \in past
  <2> TAKE x \in S
  <2>1. PICK e \in past : x = e[1]
    OBVIOUS
  <2>2. e = <<x, e[2]>> /\ e[2] \in Actions!Files
    BY <2>1, <1>5
  <2> QED
    BY <2>2
<1>7. \A x, p : <<x, p>> \in past => x \in S /\ x \in Actions!Item /\ p \in Actions!Files
  <2> TAKE x, p
  <2> HAVE <<x, p>> \in past
  <2>1. <<x, p>>[1] \in S
    OBVIOUS
  <2> QED
    BY <2>1, <1>5
<1> HIDE DEF S
<1>8. tree \in Actions!Tree /\ Sane(tree)
  <2>1. \A q \in Actions!Place : {x \in S : <<x, q>> \in past} \subseteq Actions!Item
    BY <1>7
  <2>2. \A q \in Actions!Place : base[q] \subseteq Actions!Item
    BY <1>4 DEF Actions!Tree
  <2>3. \A q \in Actions!Place : (IF q = "tombs" THEN base[q] \ Actions!Tombs(S)
                           ELSE base[q] \union {x \in S : <<x, q>> \in past}) \subseteq Actions!Item
    BY <2>1, <2>2
  <2>4. tree \in Actions!Tree
    BY <2>3 DEF Actions!Tree
  <2>5. tree["tombs"] \subseteq base["tombs"]
    BY DEF Actions!Place
  <2> QED
    BY <2>4, <2>5, <1>4 DEF Sane
<1>9. /\ \A q \in Actions!Files : \A x : x \in tree[q] <=> x \in base[q] \/ <<x, q>> \in past
      /\ \A x : x \in tree["tombs"] <=> x \in base["tombs"] /\ x \notin Actions!Tombs(S)
  BY <1>7 DEF Actions!Files, Actions!Place
<1> HIDE DEF tree
<1>10. \A q, p \in Actions!Files : \A x, y : <<x, p>> \in past /\ y \in base[q] => x[1] # y[1]
  <2> TAKE q, p \in Actions!Files
  <2> TAKE x, y
  <2> HAVE <<x, p>> \in past /\ y \in base[q]
  <2>1. Actions!Has(base, x[1]) = {}
    BY <1>3
  <2> QED
    BY <2>1 DEF Actions!Has
<1>11. \A x, y, p, q : <<x, p>> \in past /\ <<y, q>> \in past /\ x[1] = y[1] => x = y /\ p = q
  <2> TAKE x, y, p, q
  <2> HAVE <<x, p>> \in past /\ <<y, q>> \in past /\ x[1] = y[1]
  <2>1. <<x, p>> = <<y, q>>
    BY <1>5
  <2> QED
    BY <2>1
<1>12. OneItem(tree)
  BY ZenonT(60), <1>1, <1>9, <1>10, <1>11 DEF OneItem
<1>13. \A q \in Actions!Files : \A x \in tree[q] : x[1] \in KnownFacts
  <2> TAKE q \in Actions!Files
  <2> TAKE x \in tree[q]
  <2>1. CASE x \in base[q]
    <3>1. x[1] \in FactId
      BY <2>1, <1>4 DEF Actions!Tree, Actions!Item, Actions!Files
    <3>2. Actions!Has(log["project"][Len(log["project"])], x[1]) # {}
            /\ Len(log["project"]) \in DOMAIN log["project"]
      BY <2>1, <1>1 DEF Actions!Has, Actions!Last, Shapes, Actions!Repo, Tip
    <3> QED
      BY <3>1, <3>2 DEF KnownFacts, Actions!Known, Actions!Repo
  <2>2. CASE <<x, q>> \in past
    <3>1. x[1] \in FactId
      BY <2>2, <1>7 DEF Actions!Item
    <3>2. PICK i \in 1 .. Len(log["project"]) : x \in log["project"][i][q]
      BY <2>2, <1>3
    <3>3. i \in DOMAIN log["project"] /\ Actions!Has(log["project"][i], x[1]) # {}
      BY <3>2, <1>1 DEF Actions!Has, Shapes, Actions!Repo
    <3> QED
      BY <3>1, <3>3 DEF KnownFacts, Actions!Known, Actions!Repo
  <2> QED
    BY <2>1, <2>2, <1>9
<1>14. \A f \in KnownFacts : Whole([Tip EXCEPT !["project"] = tree], f)
  <2> TAKE f \in KnownFacts
  <2> DEFINE T == [Tip EXCEPT !["project"] = tree]
  <2>1. f \in FactId /\ Whole(Tip, f)
    BY <1>1 DEF KnownFacts, AllWhole
  <2>2. /\ T["project"] = tree
        /\ \A p \in Actions!Place : Holds(T, "project", p, f) <=> \E x \in tree[p] : x[1] = f
        /\ \A p \in Actions!Place : Holds(T, "user", p, f) <=> Holds(Tip, "user", p, f)
    BY <1>1, <1>8, <2>1, WithTree
  <2>3. Sane(T["project"])
    BY <2>2, <1>8
  <2> HIDE DEF T
  <2>4. \A p \in Actions!Place : Holds(Tip, "project", p, f) <=> \E x \in base[p] : x[1] = f
    BY DEF Holds
  <2>5. <<f, "tomb">> \in Actions!Tombs(S) <=> \E x \in S : x[1] = f
    BY DEF Actions!Tombs
  <2>6. ASSUME \E x \in S : x[1] = f PROVE Whole(T, f)
    <3>1. PICK x \in S, p \in Actions!Files : x[1] = f /\ <<x, p>> \in past
      BY <2>6, <1>6
    <3>2. Actions!Tombed(base, f)
      BY <3>1, <1>3
    <3>3. Homes(Tip, f) = {}
      BY <3>2, <2>1 DEF Whole, Actions!Tombed
    <3>4. \A r \in Actions!Repo, q \in Actions!Files : ~Holds(Tip, r, q, f)
      BY <3>3, HomesAre
    <3>5. ~Holds(T, "project", "tombs", f)
      <4>1. <<f, "tomb">> \notin T["project"]["tombs"]
        BY <2>2, <2>5, <2>6, <1>9
      <4> QED
        BY <4>1, <2>1, <2>3, TombIs DEF Holds
    <3>6. Holds(T, "project", p, f)
      BY <3>1, <2>2, <1>9 DEF Actions!Files
    <3>7. ASSUME NEW r \in Actions!Repo, NEW q \in Actions!Files, Holds(T, r, q, f)
          PROVE r = "project" /\ q = p
      <4>1. r = "project"
        BY <3>4, <3>7, <2>2 DEF Actions!Repo, Actions!Files
      <4>2. PICK y \in tree[q] : y[1] = f
        BY <4>1, <3>7, <2>2 DEF Actions!Files
      <4>3. y \notin base[q]
        BY <4>2, <3>4, <2>4 DEF Actions!Repo, Actions!Files
      <4> QED
        BY ZenonT(60), <4>1, <4>2, <4>3, <3>1, <1>9, <1>11
    <3> QED
      BY <3>5, <3>6, <3>7, <2>1, <2>3, WholeIs DEF Actions!Repo
  <2>7. ASSUME ~ \E x \in S : x[1] = f PROVE Whole(T, f)
    <3>1. Holds(T, "project", "tombs", f) <=> Holds(Tip, "project", "tombs", f)
      BY <2>1, <2>2, <2>3, <2>5, <2>7, <1>4, <1>9, TombIs DEF Holds
    <3>2. \A q \in Actions!Files : Holds(T, "project", q, f) <=> Holds(Tip, "project", q, f)
      BY <2>2, <2>4, <2>7, <1>7, <1>9 DEF Actions!Files
    <3>3. \A r \in Actions!Repo, q \in Actions!Place : Holds(T, r, q, f) <=> Holds(Tip, r, q, f)
      BY <3>1, <3>2, <2>2 DEF Actions!Repo, Actions!Files
    <3>4. fJob.scope \in [Actions!Repo -> SUBSET Actions!Place]
      BY DEF GovernedInv, Notes
    <3>5. GoesWell(Tip, fJob.scope, T, f)
      BY <3>3, <3>4, <2>1, <2>3, <1>4, OthersGoWell
    <3> QED
      BY <3>5, <2>1 DEF GoesWell
  <2> QED
    BY <2>6, <2>7 DEF T
<1>15. Proposal(Tip, KnownFacts, body', tree)
  BY <1>1, <1>8, <1>12, <1>13, <1>14 DEF Proposal, Described
<1>16. OneEach(body')
  BY <1>1 DEF OneEach
<1> QED
  BY <1>2, <1>15, <1>16, BranchKeeps DEF tree

\* Every step in governed mode.
LEMMA GovernedKeeps ==
  ASSUME GovernedInv, mode = "governed", Calm, Calm', Actions!Next PROVE GovernedInv'
<1>1. CASE \E q \in Actions!Files : \E S \in SUBSET wt["project"][q] : Actions!ForgetGoverned(S, q)
  BY <1>1, ForgetGovernedKeeps
<1>2. CASE Actions!RollbackGoverned
  BY <1>2, RollbackGovernedKeeps
<1>3. CASE Actions!Materialize
  BY <1>3, MaterializeKeeps
<1>4. CASE Actions!CommitBranch
  BY <1>4, CommitBranchKeeps
<1>5. CASE \E left \in SUBSET Actions!Place, staged \in BOOLEAN : Actions!CleanUp(left, staged)
  BY <1>5, CleanUpKeeps
<1>6. CASE Actions!BackToMain
  BY <1>6, BackToMainKeeps
<1>7. CASE Actions!StuckOnBranch
  BY <1>7 DEF Actions!StuckOnBranch, Actions!Blame, Calm
<1>8. CASE Actions!OpenProposal
  BY <1>8, OpenProposalKeeps
<1>9. CASE Actions!Merge
  BY <1>9, MergeKeeps
<1>10. CASE Actions!DropBranch
  BY <1>10, DropBranchKeeps
<1>11. CASE Actions!Die
  BY <1>11, DieKeepsGoverned
<1>12. CASE \E r \in Actions!Repo : Actions!OtherCommits(r)
  BY <1>12 DEF Actions!OtherCommits, Actions!Blame, Calm
<1>13. ~Actions!Direct /\ ~Actions!RunStep /\ ~Actions!StepFails
         /\ ~ \E fails \in SUBSET {"revert", "reset"}, left \in SUBSET Actions!Noted :
                Actions!Rollback(fails, left)
  <2>1. \A steps, scope : ~Actions!Begin(steps, scope)
    BY DEF Actions!Begin
  <2>2. ~Actions!Direct
    BY Zenon, <2>1 DEF Actions!Direct, Actions!Forget, Actions!Confirm, Actions!Edit, Actions!MoveWithin,
       Actions!MoveAcross
  <2>3. ~Actions!RunStep /\ ~Actions!StepFails /\ \A fails, left : ~Actions!Rollback(fails, left)
    BY Zenon DEF GovernedInv, Actions!RunStep, Actions!StepFails, Actions!Rollback
  <2> QED
    BY <2>2, <2>3
<1> QED
  BY <1>1, <1>2, <1>3, <1>4, <1>5, <1>6, <1>7, <1>8, <1>9, <1>10, <1>11, <1>12, <1>13
     DEF Actions!Next

\* At first each fact is in one file or is not there, and all of it is committed.
LEMMA ActionsStart == Actions!Init => ActionsInv
<1> SUFFICES ASSUME Actions!Init PROVE ActionsInv
  OBVIOUS
<1>1. PICK first \in [FactId -> {h \in Actions!Repo \X Actions!Files : h[1] = "user"
             => h[2] = "facts"} \union {<<"none", "facts">>}] :
        wt = [r \in Actions!Repo |-> [q \in Actions!Place |-> {<<f, "own">> : f \in {g \in FactId :
          first[g] = <<r, q>>}}]]
  BY DEF Actions!Init
<1>2. /\ log = [r \in Actions!Repo |-> <<wt[r]>>] /\ mode \in {"direct", "governed"}
      /\ branch = "main" /\ fSide = << >> /\ pr = "none" /\ body = {} /\ past = {}
      /\ fPc = "idle" /\ fJob = Actions!NoJob /\ fBreach = {}
  BY DEF Actions!Init
<1>3. \A r \in Actions!Repo, q \in Actions!Place, f \in FactId :
        /\ \A x \in wt[r][q] : x \in Actions!Item /\ x[1] = f => x = <<f, "own">>
             /\ first[f] = <<r, q>>
        /\ first[f] = <<r, q>> => <<f, "own">> \in wt[r][q]
  BY <1>1 DEF Actions!Item
<1>4. wt \in [Actions!Repo -> Actions!Tree]
  BY <1>1 DEF Actions!Tree, Actions!Item
<1>5. \A r \in Actions!Repo : wt[r]["tombs"] = {}
  <2> TAKE r \in Actions!Repo
  <2>1. \A f \in FactId : first[f] # <<r, "tombs">>
    BY DEF Actions!Files
  <2> QED
    BY <1>1, <2>1 DEF Actions!Place
<1>6. \A r \in Actions!Repo : Sane(wt[r])
  BY <1>4, <1>5 DEF Sane
<1>7. \A r \in Actions!Repo : log[r] \in Seq(Actions!Tree) /\ log[r] # << >> /\ DOMAIN log[r] = {1}
        /\ log[r][1] = wt[r] /\ Actions!Last(log[r]) = wt[r]
  BY <1>2, <1>4 DEF Actions!Last
<1>8. Tip = wt
  BY <1>4, <1>7 DEF Tip
<1>9. Shapes
  BY <1>2, <1>4, <1>6, <1>7 DEF Shapes
<1>10. Notes
  BY <1>2 DEF Notes, Actions!NoJob, Actions!Clean, Actions!Tree, Sane, Actions!Place
<1>11. \A r \in Actions!Repo, q \in Actions!Files, f \in FactId : Holds(wt, r, q, f)
         <=> first[f] = <<r, q>>
  <2> TAKE r \in Actions!Repo, q \in Actions!Files, f \in FactId
  <2>1. q \in Actions!Place
    BY DEF Actions!Files
  <2>2. \A x \in wt[r][q] : x \in Actions!Item
    BY <2>1, <1>4 DEF Actions!Tree
  <2>3. ASSUME Holds(wt, r, q, f) PROVE first[f] = <<r, q>>
    <3>1. PICK x \in wt[r][q] : x[1] = f
      BY <2>3 DEF Holds
    <3> QED
      BY <3>1, <2>1, <2>2, <1>3
  <2>4. first[f] = <<r, q>> => <<f, "own">> \in wt[r][q] /\ <<f, "own">>[1] = f
    BY <2>1, <1>3
  <2> QED
    BY <2>3, <2>4 DEF Holds
<1>12. ASSUME NEW f \in FactId, Actions!Known(f) PROVE Whole(wt, f) /\ Somewhere(wt, Tip, f)
  <2>1. PICK r \in Actions!Repo, q \in Actions!Files : Holds(wt, r, q, f)
    BY <1>7, <1>12 DEF Actions!Known, Actions!Has, Holds
  <2>2. ~Holds(wt, "project", "tombs", f)
    BY <1>5 DEF Holds, Actions!Repo
  <2>3. \A u \in Actions!Repo, p \in Actions!Files : Holds(wt, u, p, f) => u = r /\ p = q
    <3> TAKE u \in Actions!Repo, p \in Actions!Files
    <3> HAVE Holds(wt, u, p, f)
    <3>1. <<u, p>> = <<r, q>>
      BY <2>1, <1>11
    <3> QED
      BY <3>1
  <2>4. Whole(wt, f)
    BY <2>1, <2>2, <2>3, <1>6, WholeIs DEF Actions!Repo
  <2> QED
    BY <2>1, <2>4 DEF Somewhere, Within, Everywhere, Actions!Files
<1>13. AllWhole(Tip)
  BY <1>8, <1>12 DEF AllWhole
<1>14. OneItem(Tip["project"])
  <2>1. \A q \in Actions!Files : \A x \in wt["project"][q] : x[2] = "own" /\ x \in Actions!Item
    <3> TAKE q \in Actions!Files
    <3>1. wt["project"][q] = {<<f, "own">> : f \in {g \in FactId : first[g] = <<"project", q>>}}
      BY <1>1 DEF Actions!Repo, Actions!Files
    <3>2. \A f \in FactId : <<f, "own">> \in Actions!Item /\ <<f, "own">>[2] = "own"
      BY DEF Actions!Item
    <3> QED
      BY <3>1, <3>2
  <2> QED
    BY <2>1, <1>8 DEF OneItem, Actions!Item
<1>15. fSide \in Seq(Actions!Tree) /\ Len(fSide) = 0
  BY <1>2
<1>16. DirectInv
  BY <1>2, <1>8, <1>9, <1>10, <1>12, <1>13 DEF DirectInv
<1>17. GovernedInv
  BY <1>2, <1>8, <1>9, <1>10, <1>13, <1>14, <1>15 DEF GovernedInv, OneEach
<1> QED
  BY <1>2, <1>16, <1>17 DEF ActionsInv

\* Every step.
LEMMA ActionsStep == ActionsInv /\ [Actions!Next]_(Actions!vars) => ActionsInv'
<1> SUFFICES ASSUME ActionsInv, Actions!Next \/ UNCHANGED Actions!vars, Calm'
             PROVE  (IF mode = "direct" THEN DirectInv ELSE GovernedInv)'
                      /\ (mode \in {"direct", "governed"})'
  <2>1. ActionsInv /\ [Actions!Next]_(Actions!vars) => mode' = mode
    BY ZenonT(60) DEF Actions!Next, Actions!Direct, Actions!Forget, Actions!Confirm, Actions!Edit,
           Actions!MoveWithin, Actions!MoveAcross, Actions!Begin, Actions!RunStep,
           Actions!StepFails, Actions!Rollback,
       Actions!ForgetGoverned, Actions!RollbackGoverned, Actions!Branch, Actions!Materialize,
       Actions!CommitBranch, Actions!CleanUp, Actions!BackToMain, Actions!StuckOnBranch,
       Actions!OpenProposal, Actions!Merge, Actions!DropBranch, Actions!OtherCommits, Actions!Die,
       Actions!vars
  <2> QED
    BY SMTT(30), <2>1 DEF ActionsInv
<1>1. mode' = mode
  BY ZenonT(60) DEF Actions!Next, Actions!Direct, Actions!Forget, Actions!Confirm, Actions!Edit,
         Actions!MoveWithin, Actions!MoveAcross, Actions!Begin, Actions!RunStep, Actions!StepFails,
         Actions!Rollback,
     Actions!ForgetGoverned, Actions!RollbackGoverned, Actions!Branch, Actions!Materialize,
     Actions!CommitBranch, Actions!CleanUp, Actions!BackToMain, Actions!StuckOnBranch,
     Actions!OpenProposal, Actions!Merge, Actions!DropBranch, Actions!OtherCommits, Actions!Die,
     Actions!vars
<1>2. Calm
  BY CalmBefore
<1>3. CASE mode = "direct"
  <2>1. DirectInv
    BY <1>2, <1>3 DEF ActionsInv
  <2>2. CASE Actions!Next
    BY <2>1, <2>2, <1>1, <1>2, <1>3, DirectKeeps
  <2>3. CASE UNCHANGED Actions!vars
    BY <2>1, <2>3, <1>1, <1>3, DirectUnchanged DEF Actions!vars, Actions!git, Actions!github,
       DirectInv
  <2> QED
    BY <2>2, <2>3, <1>1, <1>3
<1>4. CASE mode = "governed"
  <2>1. GovernedInv
    BY <1>2, <1>4 DEF ActionsInv
  <2>2. CASE Actions!Next
    BY <2>1, <2>2, <1>1, <1>2, <1>4, GovernedKeeps
  <2>3. CASE UNCHANGED Actions!vars
    BY <2>1, <2>3, <1>1, <1>4, GovernedUnchanged
  <2> QED
    BY <2>2, <2>3, <1>1, <1>4
<1> QED
  BY <1>1, <1>3, <1>4 DEF ActionsInv

\* The invariant is one of the specification.
LEMMA ActionsHold == Actions!Spec => []ActionsInv
  BY ActionsStart, ActionsStep, PTL DEF Actions!Spec

\* A rollback leaves both repositories as they were.
LEMMA StepLeavesNoTrace == ActionsInv /\ [Actions!Next]_(Actions!vars) => Actions!LeavesNoTrace
<1> SUFFICES ASSUME ActionsInv, Actions!Next \/ UNCHANGED Actions!vars, fPc = "undo", fPc' = "idle",
               fBreach' = {}
             PROVE  \A r \in Actions!Repo : fJob.scope[r] # {} =>
                      Actions!Last(log'[r]) = log[r][fJob.before[r]] /\ wt'[r] = fJob.snap[r]
  BY DEF Actions!LeavesNoTrace
<1>1. Calm' /\ Calm
  <2>1. Calm'
    BY DEF Calm
  <2> QED
    BY <2>1, CalmBefore
<1>2. DirectInv
  BY <1>1 DEF ActionsInv, GovernedInv
<1>3. \E fails, left : Actions!Rollback(fails, left)
  <2>1. \A steps, scope : ~Actions!Begin(steps, scope)
    BY DEF Actions!Begin
  <2>2. ~Actions!Direct
    BY <2>1 DEF Actions!Direct, Actions!Forget, Actions!Confirm, Actions!Edit, Actions!MoveWithin,
       Actions!MoveAcross
  <2>3. /\ ~Actions!RunStep /\ ~Actions!StepFails /\ ~Actions!Materialize /\ ~Actions!CommitBranch
             /\ (\A left, staged : ~Actions!CleanUp(left, staged)) /\ ~Actions!BackToMain /\ ~Actions!StuckOnBranch
        /\ ~Actions!OpenProposal /\ ~Actions!Merge /\ ~Actions!DropBranch
             /\ ~Actions!RollbackGoverned
        /\ ~(\E q \in Actions!Files : \E S \in SUBSET wt["project"][q] :
             Actions!ForgetGoverned(S, q))
    BY DEF Actions!RunStep, Actions!StepFails, Actions!ForgetGoverned, Actions!RollbackGoverned,
           Actions!Branch, Actions!Materialize, Actions!CommitBranch, Actions!CleanUp,
       Actions!BackToMain, Actions!StuckOnBranch, Actions!OpenProposal, Actions!Merge,
       Actions!DropBranch
  <2>4. ~Actions!Die /\ ~ \E r \in Actions!Repo : Actions!OtherCommits(r)
    BY DEF Actions!Die, Actions!Blame, Actions!OtherCommits
  <2>5. ~UNCHANGED Actions!vars
    BY DEF Actions!vars
  <2> QED
    BY <2>2, <2>3, <2>4, <2>5 DEF Actions!Next
<1>4. wt' = fJob.snap /\ Tip' = Base
  BY <1>1, <1>2, <1>3, RollbackIs
<1> QED
  BY <1>4 DEF Tip, Base

\* What is somewhere is in a file or has a tombstone.
LEMMA SomewhereIs ==
  ASSUME Shapes, NEW f \in FactId, Somewhere(wt, Tip, f)
  PROVE  \E r \in Actions!Repo :
           \/ Actions!Has(wt[r], f) # {} \/ Actions!Tombed(wt[r], f)
           \/ Actions!Has(Actions!Last(log[r]), f) # {} \/ Actions!Tombed(Actions!Last(log[r]), f)
<1>1. PICK r \in Actions!Repo, q \in Actions!Place : Holds(wt, r, q, f) \/ Holds(Tip, r, q, f)
  BY DEF Somewhere, Within, Everywhere
<1>2. Sane(wt[r]) /\ Sane(Actions!Last(log[r])) /\ Tip[r] = Actions!Last(log[r])
  BY DEF Shapes, Actions!Last, Tip
<1>3. CASE q = "tombs"
  BY <1>1, <1>2, <1>3, TombIs DEF Holds, Actions!Tombed
<1>4. CASE q # "tombs"
  <2>1. q \in Actions!Has(wt[r], f) \/ q \in Actions!Has(Actions!Last(log[r]), f)
    BY <1>1, <1>2, <1>4 DEF Holds, Actions!Has, Actions!Files
  <2> QED
    BY <2>1
<1> QED
  BY <1>3, <1>4

\* The invariant says what an action promises.
LEMMA ActionsPromise ==
  ActionsInv => Actions!EachFactOnce /\ Actions!NothingLeftBehind /\ Actions!DeathLosesNothing
    /\ Actions!ProposalSaysWhatItDoes
<1> SUFFICES ASSUME ActionsInv
             PROVE  Actions!EachFactOnce /\ Actions!NothingLeftBehind /\ Actions!DeathLosesNothing
                      /\ Actions!ProposalSaysWhatItDoes
  OBVIOUS
<1>1. fBreach = {} => Calm
  BY DEF Calm
<1>2. Actions!EachFactOnce
  <2> SUFFICES ASSUME fBreach = {}, fPc = "idle", NEW f \in FactId, Actions!Known(f)
               PROVE  IF Actions!Tombed(Actions!Last(log["project"]), f) THEN Actions!Copies(f) = {}
                      ELSE Actions!Cardinality(Actions!Copies(f)) = 1
    BY DEF Actions!EachFactOnce
  <2>1. AllWhole(Tip)
    BY <1>1 DEF ActionsInv, DirectInv, GovernedInv
  <2> QED
    BY <2>1, WholeIsOnce DEF AllWhole
<1>3. Actions!NothingLeftBehind
  <2> SUFFICES ASSUME fBreach = {}, fPc = "idle", NEW r \in Actions!Repo
               PROVE wt[r] = Actions!Head0(r)
    BY DEF Actions!NothingLeftBehind
  <2>1. branch = "main" /\ wt[r] = Tip[r]
    BY <1>1 DEF ActionsInv, DirectInv, GovernedInv, Actions!Repo
  <2> QED
    BY <2>1 DEF Actions!Head0, Tip
<1>4. Actions!DeathLosesNothing
  <2> SUFFICES ASSUME Calm, NEW f \in FactId, Actions!Known(f)
               PROVE  \E r \in Actions!Repo :
                        \/ Actions!Has(wt[r], f) # {} \/ Actions!Has(Actions!Last(log[r]), f) # {}
                                      \/ Actions!Tombed(wt[r],
                                           f) \/ Actions!Tombed(Actions!Last(log[r]), f)
    BY DEF Actions!DeathLosesNothing, Calm
  <2>1. Shapes
    BY DEF ActionsInv, DirectInv, GovernedInv
  <2>2. CASE mode = "direct"
    BY <2>1, <2>2, SomewhereIs DEF ActionsInv, DirectInv
  <2>3. CASE mode # "direct"
    <3>1. Whole(Tip, f)
      BY <2>3 DEF ActionsInv, GovernedInv, AllWhole
    <3>2. CASE <<f, "tomb">> \in Tip["project"]["tombs"]
      BY <3>2 DEF Tip, Actions!Tombed, Actions!Repo
    <3>3. CASE <<f, "tomb">> \notin Tip["project"]["tombs"]
      <4>1. Homes(Tip, f) # {}
        BY <3>1, <3>3 DEF Whole
      <4>2. PICK r \in Actions!Repo, q \in Actions!Files : Holds(Tip, r, q, f)
        BY <4>1, HomesAre
      <4>3. q \in Actions!Has(Actions!Last(log[r]), f)
        BY <4>2 DEF Holds, Actions!Has, Tip
      <4> QED
        BY <4>3
    <3> QED
      BY <3>2, <3>3
  <2> QED
    BY <2>2, <2>3
<1>5. Actions!ProposalSaysWhatItDoes
  <2> SUFFICES ASSUME fBreach = {}, pr = "open", body # {}
               PROVE  Actions!Last(fSide) = [q \in Actions!Place |->
                        IF q = "tombs" THEN fSide[1][q] \union Actions!Tombs({e[1] : e \in body})
                        ELSE fSide[1][q] \ {x \in {e[1] : e \in body} : <<x, q>> \in body}]
    BY DEF Actions!ProposalSaysWhatItDoes
  <2>1. GovernedInv
    BY <1>1 DEF ActionsInv, DirectInv
  <2>2. fSide[1] = Tip["project"] /\ Actions!Last(fSide) = fSide[2]
          /\ Proposal(Tip, KnownFacts, body, fSide[2])
    <3>1. Len(fSide) = 2 /\ branch = "main"
      BY <2>1 DEF GovernedInv
    <3>2. fSide # << >> /\ Actions!Last(fSide) = fSide[2]
      BY <3>1 DEF Actions!Last
    <3> QED
      BY <2>1, <3>1, <3>2 DEF GovernedInv
  <2> QED
    BY <2>2 DEF Proposal, Described
<1> QED
  BY <1>2, <1>3, <1>4, <1>5

\* Actions on facts do what they say in both repositories or nothing, also when the process
\* dies, and one that fails leaves no trace (fact_actions.py).
THEOREM ActionsAreAllOrNothing ==
  Actions!Spec => /\ [](Actions!EachFactOnce /\ Actions!NothingLeftBehind
                       /\ Actions!DeathLosesNothing /\ Actions!ProposalSaysWhatItDoes)
          /\ [][Actions!LeavesNoTrace]_(Actions!vars)
<1>1. ActionsInv /\ ActionsInv' /\ [Actions!Next]_(Actions!vars)
        => [Actions!LeavesNoTrace]_(Actions!vars)
  BY StepLeavesNoTrace
<1> QED
  BY <1>1, ActionsHold, ActionsPromise, PTL DEF Actions!Spec
=============================================================================
