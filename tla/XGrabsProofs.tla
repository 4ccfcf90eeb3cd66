---------------------------- MODULE XGrabsProofs ----------------------------
(***************************************************************************)
(* Proofs about XWindows and XGrabs, for any set of windows and of clients. *)
(*                                                                          *)
(* Windows: whatever the clients create, reparent and destroy in which      *)
(* order, the tree stays rooted, nothing points at a window that is gone,   *)
(* and nothing is left of a client that is gone.  Above is a recursive      *)
(* function; AboveFacts and AboveLeast say all the rest needs: the          *)
(* ancestors of a window are the least set that holds its parent and the    *)
(* parents of its members.  What is said of the ancestors of a window after *)
(* a step is proved by naming such a set.                                   *)
(*                                                                          *)
(* Grabs: every grab is of a client that has not been removed and on a      *)
(* window that exists, automatic grabs end with the last button or key, and *)
(* a frozen pointer has an owner who can thaw it.  Input arrives between    *)
(* any two steps of the epoll thread.  The steps of XGrabs are steps of     *)
(* XWindows or leave its variables alone, so that its invariant holds here  *)
(* too, and the grabs lean on it: a window goes only with its listeners     *)
(* told, and the owner of a window that is not half made is connected.      *)
(***************************************************************************)
EXTENDS XGrabs, FiniteRecursion, FiniteSetTheorems, TLAPS

-----------------------------------------------------------------------------
(* The elements of a sequence that are kept.                                *)

LEMMA AppendSet ==
  ASSUME NEW X, NEW k \in Seq(X), NEW e \in X
  PROVE  Append(k, e) \in Seq(X) /\ ToSet(Append(k, e)) = ToSet(k) \cup {e}
PROOF
  <1>1. /\ Append(k, e) \in Seq(X) /\ Len(Append(k, e)) = Len(k) + 1
        /\ Append(k, e)[Len(k)+1] = e /\ \A i \in 1..Len(k) : Append(k, e)[i] = k[i]
    OBVIOUS
  <1>2. PICK n \in Nat : n = Len(k)
    OBVIOUS
  <1>3. DOMAIN k = 1..n /\ DOMAIN Append(k, e) = 1..n+1 /\ 1..n+1 = 1..n \cup {n+1}
    BY <1>1, <1>2
  <1>4. PICK g : g = Append(k, e)
    OBVIOUS
  <1>5. {g[i] : i \in 1..n+1} = {k[i] : i \in 1..n} \cup {e}
    BY <1>1, <1>2, <1>3, <1>4
  <1> QED
    BY <1>1, <1>3, <1>4, <1>5 DEF ToSet

LEMMA KeepProperties ==
  ASSUME NEW X, NEW s \in Seq(X), NEW some
  PROVE  /\ Keep(s, some) \in Seq(X)
         /\ ToSet(Keep(s, some)) = ToSet(s) \cap some
PROOF
  <1> DEFINE Is(f) == f = [n \in 0..Len(s) |->
                             IF n = 0 THEN <<>> ELSE KeepOne(f[n-1], s[n], some)]
             kept == CHOOSE f : Is(f)
  <1>1. PICK N : N = Len(s) /\ N \in Nat
    OBVIOUS
  <1>2. \A n \in 1..N : s[n] \in X
    BY <1>1
  <1>3. \A n \in 1..N, d \in Seq(X) : KeepOne(d, s[n], some) \in Seq(X)
    BY <1>2 DEF KeepOne
  <1>4. PICK D : D = Seq(X)
    OBVIOUS
  <1>5. PICK st : st = [n \in 1..N |-> [d \in D |-> KeepOne(d, s[n], some)]]
    OBVIOUS
  <1>6. st \in [1..N -> [D -> D]]
    BY <1>3, <1>4, <1>5
  <1>7. <<>> \in D
    BY <1>4
  <1>8. PICK f : Follows(N, D, <<>>, st, f)
    BY <1>1, <1>6, <1>7, Recursion
  <1>9. \A n \in 0..N : n # 0 => n \in 1..N /\ n - 1 \in 0..N
    BY <1>1
  <1>10. \A n \in 0..N : f[n] = IF n = 0 THEN <<>> ELSE KeepOne(f[n-1], s[n], some)
    BY <1>5, <1>8, <1>9 DEF Follows
  <1>11. Is(f)
    BY <1>1, <1>8, <1>10 DEF Follows
  <1>12. Is(kept)
    <2> HIDE DEF Is
    <2> QED
      BY <1>11
  <1>13. Keep(s, some) = kept[N]
    BY <1>1 DEF Keep
  <1> HIDE DEF kept
  <1>14. kept[0] = <<>> /\ \A n \in 1..N : kept[n] = KeepOne(kept[n-1], s[n], some)
    <2>1. \A n \in 0..N : kept[n] = IF n = 0 THEN <<>> ELSE KeepOne(kept[n-1], s[n], some)
      BY <1>1, <1>12
    <2> QED
      BY <1>1, <2>1
  <1> HIDE DEF Is
  <1> DEFINE Done(n) == kept[n] \in Seq(X) /\ ToSet(kept[n]) = {s[i] : i \in 1..n} \cap some
             S == {n \in 0..N : Done(n)}
  <1>15. 0 \in S
    <2>1. Done(0)
      BY <1>14 DEF ToSet
    <2> HIDE DEF Done
    <2> QED
      BY <1>1, <2>1
  <1>16. ASSUME NEW n \in 0..N-1, n \in S PROVE n + 1 \in S
    <2>1. n + 1 \in 1..N /\ n + 1 \in 0..N /\ n + 1 - 1 = n /\ n \in Nat
      BY <1>1
    <2>2. Done(n)
      BY <1>16
    <2>3. {s[i] : i \in 1..n+1} = {s[i] : i \in 1..n} \cup {s[n+1]}
      BY <2>1
    <2>4. kept[n+1] = KeepOne(kept[n], s[n+1], some) /\ s[n+1] \in X
      BY <1>2, <1>14, <2>1
    <2>5. Done(n+1)
      <3>1. PICK k, e : k = kept[n] /\ e = s[n+1]
        OBVIOUS
      <3>2. k \in Seq(X) /\ e \in X
        BY <2>2, <2>4, <3>1
      <3>3. ToSet(Append(k, e)) = ToSet(k) \cup {e} /\ Append(k, e) \in Seq(X)
        BY <3>2, AppendSet
      <3>4. CASE e \in some
        BY <2>2, <2>3, <2>4, <3>1, <3>3, <3>4 DEF KeepOne
      <3>5. CASE e \notin some
        BY <2>2, <2>3, <2>4, <3>1, <3>5 DEF KeepOne
      <3> QED
        BY <3>4, <3>5
    <2> HIDE DEF Done
    <2> QED
      BY <2>1, <2>5
  <1>17. N \in S
    <2>1. N \in 0..N
      BY <1>1
    <2> HIDE DEF S
    <2> QED
      BY <1>1, <1>15, <1>16, <2>1, CountUp
  <1>18. {s[i] : i \in 1..N} = ToSet(s)
    BY <1>1 DEF ToSet
  <1> QED
    BY <1>13, <1>17, <1>18

LEMMA KeepOfNothing ==
  ASSUME NEW some
  PROVE  Keep(<<>>, some) = <<>>
PROOF
  <1>1. <<>> \in Seq({})
    OBVIOUS
  <1>2. Keep(<<>>, some) \in Seq({})
    BY <1>1, KeepProperties
  <1> QED
    BY <1>2

-----------------------------------------------------------------------------
(* The ancestors of a window.                                               *)

Node == Win \cup {Root, Unborn, Dead}

Parents(tree) == tree.parent \in [Win -> Node]

\* S holds with a window its parent.
Closed(tree, S) == \A v \in S \cap Win : tree.parent[v] \in S

(* The ancestors of a window are the least set that holds its parent and    *)
(* the parents of its members: isAncestorOf climbs to the top.              *)
LEMMA AboveFacts ==
  ASSUME NEW tree, Parents(tree), NEW w \in Win
  PROVE  /\ Above(tree, w) \subseteq Node /\ tree.parent[w] \in Above(tree, w)
         /\ Closed(tree, Above(tree, w))
         /\ \A S : tree.parent[w] \in S /\ Closed(tree, S) => Above(tree, w) \subseteq S
PROOF
  <1> USE WindowsAssumption
  <1> DEFINE Next1(d) == d \cup {tree.parent[v] : v \in d \cap Win}
             Is(f) == f = [n \in 0..Cardinality(Win) |->
                             IF n = 0 THEN {tree.parent[w]}
                             ELSE f[n-1] \cup {tree.parent[v] : v \in f[n-1] \cap Win}]
             up == CHOOSE f : Is(f)
  <1>1. PICK N : N = Cardinality(Win) /\ N \in Nat
    BY FS_CardinalityType
  <1>2. \A v \in Win : tree.parent[v] \in Node
    BY DEF Parents
  <1>3. PICK D : D = SUBSET Node
    OBVIOUS
  <1>4. \A d \in D : Next1(d) \in D
    BY <1>2, <1>3
  <1>5. PICK st : st = [n \in 1..N |-> [d \in D |-> Next1(d)]]
    OBVIOUS
  <1>6. st \in [1..N -> [D -> D]]
    <2> HIDE DEF Next1
    <2> QED
      BY <1>4, <1>5
  <1>7. PICK a \in D : a = {tree.parent[w]}
    BY <1>2, <1>3
  <1>8. PICK f : Follows(N, D, a, st, f)
    BY <1>1, <1>6, Recursion
  <1>9. \A n \in 0..N : n # 0 => n \in 1..N /\ n - 1 \in 0..N
    BY <1>1
  <1>10. \A n \in 0..N : f[n] = IF n = 0 THEN a ELSE Next1(f[n-1])
    <2> HIDE DEF Next1
    <2> QED
      BY <1>5, <1>8, <1>9 DEF Follows
  <1>11. Is(f)
    BY <1>1, <1>7, <1>8, <1>10 DEF Follows
  <1>12. Is(up)
    <2> HIDE DEF Is
    <2> QED
      BY <1>11
  <1>13. Above(tree, w) = up[N]
    BY <1>1 DEF Above
  <1> HIDE DEF up
  <1>14. up[0] = {tree.parent[w]} /\ \A n \in 1..N : up[n] = Next1(up[n-1])
    <2>1. \A n \in 0..N : up[n] = IF n = 0 THEN {tree.parent[w]} ELSE Next1(up[n-1])
      BY <1>1, <1>12
    <2> HIDE DEF Next1
    <2> QED
      BY <1>1, <2>1
  <1> HIDE DEF Is
  <1>15. \A n \in 0..N-1 : n \in 0..N /\ n + 1 \in 1..N /\ n + 1 \in 0..N /\ n + 1 - 1 = n
    BY <1>1
  <1>16. \A n \in 0..N-1 : up[n+1] = Next1(up[n])
    <2> HIDE DEF Next1
    <2> QED
      BY <1>14, <1>15
  <1>17. 0 \in 0..N /\ N \in 0..N
    BY <1>1
  <1>18. \A n \in 0..N : up[n] \subseteq Node /\ tree.parent[w] \in up[n]
    <2> DEFINE T == {n \in 0..N : up[n] \subseteq Node /\ tree.parent[w] \in up[n]}
    <2>1. 0 \in T
      BY <1>2, <1>14, <1>17
    <2>2. ASSUME NEW n \in 0..N-1, n \in T PROVE n + 1 \in T
      BY <1>2, <1>15, <1>16, <2>2
    <2>3. \A n \in 0..N : n \in T
      <3> HIDE DEF T
      <3> QED
        BY <1>1, <2>1, <2>2, CountUp, Zenon
    <2> QED
      BY <2>3
  <1>19. ASSUME NEW S, tree.parent[w] \in S, Closed(tree, S) PROVE up[N] \subseteq S
    <2> DEFINE T == {n \in 0..N : up[n] \subseteq S}
    <2>1. 0 \in T
      BY <1>14, <1>17, <1>19
    <2>2. ASSUME NEW n \in 0..N-1, n \in T PROVE n + 1 \in T
      BY <1>15, <1>16, <1>19, <2>2 DEF Closed
    <2>3. \A n \in 0..N : n \in T
      <3> HIDE DEF T
      <3> QED
        BY <1>1, <2>1, <2>2, CountUp, Zenon
    <2> QED
      BY <1>17, <2>3
  <1>20. Closed(tree, up[N])
    <2> DEFINE Long(n) == Cardinality(up[n] \cap Win) \in Nat /\ Cardinality(up[n] \cap Win) > n
               T == {n \in 0..N : Closed(tree, up[n]) \/ Long(n)}
    <2>1. 0 \in T
      <3>1. CASE tree.parent[w] \in Win
        <4>1. up[0] \cap Win = {tree.parent[w]}
          BY <1>14, <3>1
        <4>2. Cardinality(up[0] \cap Win) = 1
          BY <4>1, FS_Singleton
        <4> QED
          BY <1>17, <4>2
      <3>2. CASE tree.parent[w] \notin Win
        BY <1>14, <1>17, <3>2 DEF Closed
      <3> QED
        BY <3>1, <3>2
    <2>2. ASSUME NEW n \in 0..N-1, n \in T PROVE n + 1 \in T
      <3>1. n + 1 \in 0..N /\ n \in 0..N /\ n \in Nat
        BY <1>1, <1>15
      <3>2. PICK u, v : u = up[n] /\ v = up[n+1]
        OBVIOUS
      <3>3. v = u \cup {tree.parent[x] : x \in u \cap Win}
        BY <1>16, <3>2
      <3>4. CASE Closed(tree, u)
        <4>1. v = u
          BY <3>3, <3>4 DEF Closed
        <4> QED
          BY <3>1, <3>2, <3>4, <4>1
      <3>5. CASE v \cap Win = u \cap Win
        <4>1. Closed(tree, v)
          BY <3>3, <3>5 DEF Closed
        <4> QED
          BY <3>1, <3>2, <4>1
      <3>6. CASE ~Closed(tree, u) /\ v \cap Win # u \cap Win
        <4>1. Cardinality(u \cap Win) \in Nat /\ Cardinality(u \cap Win) > n
          BY <2>2, <3>2, <3>6
        <4>2. IsFiniteSet(v \cap Win)
          BY FS_Intersection
        <4>3. u \cap Win \in SUBSET (v \cap Win)
          BY <3>3
        <4>4. /\ Cardinality(u \cap Win) <= Cardinality(v \cap Win)
              /\ Cardinality(v \cap Win) # Cardinality(u \cap Win)
          BY <3>6, <4>2, <4>3, FS_Subset
        <4>5. Cardinality(v \cap Win) \in Nat
          BY <4>2, FS_CardinalityType
        <4>6. Long(n+1)
          BY <3>1, <3>2, <4>1, <4>4, <4>5
        <4> QED
          BY <3>1, <4>6
      <3> QED
        BY <3>4, <3>5, <3>6
    <2>3. \A n \in 0..N : n \in T
      <3> HIDE DEF T
      <3> QED
        BY <1>1, <2>1, <2>2, CountUp, Zenon
    <2>4. ~Long(N)
      <3>1. up[N] \cap Win \in SUBSET Win
        OBVIOUS
      <3>2. Cardinality(up[N] \cap Win) <= N
        BY <1>1, <3>1, FS_Subset
      <3> QED
        BY <1>1, <3>2
    <2> QED
      BY <1>17, <2>3, <2>4
  <1>21. w # Root
    OBVIOUS
  <1>22. up[N] \subseteq Node /\ tree.parent[w] \in up[N]
    BY <1>17, <1>18
  <1> QED
    BY <1>13, <1>19, <1>20, <1>22

LEMMA AboveLeast ==
  ASSUME NEW tree, Parents(tree), NEW w \in Win,
         NEW S, tree.parent[w] \in S, Closed(tree, S)
  PROVE  Above(tree, w) \subseteq S
BY AboveFacts

\* A window is below its parent, and below what its parent is below.
LEMMA AboveStep ==
  ASSUME NEW tree, Parents(tree), NEW w \in Win
  PROVE  /\ tree.parent[w] \in Win => Above(tree, w) = {tree.parent[w]} \cup Above(tree, tree.parent[w])
         /\ tree.parent[w] \notin Win => Above(tree, w) = {tree.parent[w]}
PROOF
  <1>1. CASE tree.parent[w] \in Win
    <2> DEFINE p == tree.parent[w]
               S == {p} \cup Above(tree, p)
    <2>1. tree.parent[p] \in Above(tree, p) /\ Closed(tree, Above(tree, p))
      BY <1>1, AboveFacts
    <2>2. Closed(tree, S)
      BY <2>1 DEF Closed
    <2>3. Above(tree, w) \subseteq S
      BY <2>2, AboveLeast
    <2>4. p \in Above(tree, w) /\ Closed(tree, Above(tree, w))
      BY AboveFacts
    <2>5. tree.parent[p] \in Above(tree, w)
      BY <1>1, <2>4 DEF Closed
    <2>6. Above(tree, p) \subseteq Above(tree, w)
      BY <1>1, <2>4, <2>5, AboveLeast
    <2> QED
      BY <1>1, <2>3, <2>4, <2>6
  <1>2. CASE tree.parent[w] \notin Win
    <2>1. Closed(tree, {tree.parent[w]})
      BY <1>2 DEF Closed
    <2>2. Above(tree, w) \subseteq {tree.parent[w]}
      BY <2>1, AboveLeast
    <2> QED
      BY <1>2, <2>2, AboveFacts
  <1> QED
    BY <1>1, <1>2

LEMMA AboveTransitive ==
  ASSUME NEW tree, Parents(tree), NEW w \in Win, NEW v \in Above(tree, w) \cap Win
  PROVE  Above(tree, v) \subseteq Above(tree, w)
PROOF
  <1>1. Closed(tree, Above(tree, w))
    BY AboveFacts
  <1>2. tree.parent[v] \in Above(tree, w)
    BY <1>1 DEF Closed
  <1> QED
    BY <1>1, <1>2, AboveLeast

\* Of two ancestors of a window one is above the other.
LEMMA AboveLinear ==
  ASSUME NEW tree, Parents(tree), NEW w \in Win,
         NEW a \in Above(tree, w), NEW b \in Above(tree, w)
  PROVE  a = b \/ (b \in Win /\ a \in Above(tree, b)) \/ (a \in Win /\ b \in Above(tree, a))
PROOF
  <1> DEFINE Beside(x, y) == \/ x = y \/ (y \in Win /\ x \in Above(tree, y))
                             \/ (x \in Win /\ y \in Above(tree, x))
             S == {y \in Above(tree, w) : \A x \in Above(tree, w) : Beside(x, y)}
             p == tree.parent[w]
  <1>1. p \in S
    <2>1. p \in Above(tree, w)
      BY AboveFacts
    <2>2. ASSUME NEW x \in Above(tree, w) PROVE Beside(x, p)
      BY AboveStep
    <2> HIDE DEF Beside
    <2> QED
      BY <2>1, <2>2
  <1>2. Closed(tree, S)
    <2> SUFFICES ASSUME NEW y \in S \cap Win PROVE tree.parent[y] \in S
      BY DEF Closed
    <2> DEFINE q == tree.parent[y]
    <2>1. q \in Above(tree, w)
      BY AboveFacts DEF Closed
    <2>2. ASSUME NEW x \in Above(tree, w) PROVE Beside(x, q)
      <3>1. Beside(x, y)
        OBVIOUS
      <3>2. CASE x = y
        <4>1. q \in Above(tree, y)
          BY AboveFacts
        <4> QED
          BY <3>2, <4>1
      <3>3. CASE x \in Above(tree, y)
        BY <3>3, AboveStep
      <3>4. CASE x \in Win /\ y \in Above(tree, x)
        <4>1. q \in Above(tree, x)
          BY <3>4, AboveFacts DEF Closed
        <4> QED
          BY <3>4, <4>1
      <3> QED
        BY <3>1, <3>2, <3>3, <3>4
    <2> HIDE DEF Beside
    <2> QED
      BY <2>1, <2>2
  <1>3. Above(tree, w) \subseteq S
    <2> HIDE DEF S
    <2> QED
      BY <1>1, <1>2, AboveLeast
  <1> QED
    BY <1>3

-----------------------------------------------------------------------------
(* Trees.                                                                   *)

\* Every window is a child of a window or of the root window, and below the
\* root window.
Rooted(tree) ==
  /\ Parents(tree)
  /\ \A w \in Live(tree) : tree.parent[w] \in Live(tree) \cup {Root} /\ Root \in Above(tree, w)

\* What hangs below the root window is on no cycle.
LEMMA NoCycle ==
  ASSUME NEW tree, Parents(tree), NEW w \in Win, Root \in Above(tree, w)
  PROVE  w \notin Above(tree, w)
PROOF
  <1> USE WindowsAssumption
  <1> SUFFICES ASSUME w \in Above(tree, w) PROVE FALSE
    OBVIOUS
  <1> DEFINE S == {v \in Above(tree, w) \cap Win : w = v \/ w \in Above(tree, v)}
  <1>1. tree.parent[w] \in S
    <2>1. tree.parent[w] \in Above(tree, w)
      BY AboveFacts
    <2>2. tree.parent[w] \in Win
      BY AboveStep
    <2> QED
      BY <2>1, <2>2, AboveStep
  <1>2. Closed(tree, S)
    <2> SUFFICES ASSUME NEW v \in S PROVE tree.parent[v] \in S
      BY DEF Closed
    <2>1. w = v \/ w \in Above(tree, v)
      OBVIOUS
    <2>2. tree.parent[v] \in Above(tree, w)
      BY AboveFacts DEF Closed
    <2>3. CASE w = v
      BY <1>1, <2>3
    <2>4. CASE w # v
      <3>1. tree.parent[v] \in Win /\ (w = tree.parent[v] \/ w \in Above(tree, tree.parent[v]))
        BY <2>1, <2>4, AboveStep
      <3> QED
        BY <2>2, <3>1
    <2> QED
      BY <2>3, <2>4
  <1>3. Above(tree, w) \subseteq S
    <2> HIDE DEF S
    <2> QED
      BY <1>1, <1>2, AboveLeast
  <1> QED
    BY <1>3

LEMMA LiveAbove ==
  ASSUME NEW tree, Rooted(tree), NEW w \in Live(tree)
  PROVE  /\ w \in Win /\ Above(tree, w) \subseteq Live(tree) \cup {Root}
         /\ w \notin Above(tree, w) /\ Root \in Above(tree, w)
PROOF
  <1> USE WindowsAssumption
  <1>1. w \in Win /\ Parents(tree)
    BY DEF Live, Rooted
  <1>2. tree.parent[w] \in Live(tree) \cup {Root} /\ Root \in Above(tree, w)
    BY DEF Rooted
  <1>3. Closed(tree, Live(tree) \cup {Root})
    BY DEF Closed, Rooted
  <1>4. Above(tree, w) \subseteq Live(tree) \cup {Root}
    BY <1>1, <1>2, <1>3, AboveLeast
  <1> QED
    BY <1>1, <1>2, <1>4, NoCycle

\* Of some ancestors of a window one is the nearest.
LEMMA Nearest ==
  ASSUME NEW tree, Rooted(tree), NEW w \in Live(tree), NEW F, F \subseteq Above(tree, w), F # {}
  PROVE  \E a \in F : \A b \in F : b = a \/ b \in Above(tree, a)
PROOF
  <1> USE WindowsAssumption
  <1>1. w \in Win /\ Parents(tree) /\ Above(tree, w) \subseteq Live(tree) \cup {Root}
    BY LiveAbove DEF Rooted
  <1> SUFFICES ASSUME \A a \in F : \E b \in F : b # a /\ b \notin Above(tree, a)
               PROVE  FALSE
    OBVIOUS
  <1> DEFINE S == {v \in Above(tree, w) \cap Win : F \subseteq Above(tree, v)}
  <1>2. ASSUME NEW v \in Win, F \subseteq Above(tree, v)
        PROVE  tree.parent[v] \in Win /\ F \subseteq Above(tree, tree.parent[v])
    <2>1. CASE tree.parent[v] \in Win
      <3>1. Above(tree, v) = {tree.parent[v]} \cup Above(tree, tree.parent[v])
        BY <1>1, <2>1, AboveStep
      <3>2. tree.parent[v] \notin F
        BY <1>2, <3>1
      <3> QED
        BY <1>2, <2>1, <3>1, <3>2
    <2>2. CASE tree.parent[v] \notin Win
      <3>1. Above(tree, v) = {tree.parent[v]}
        BY <1>1, <2>2, AboveStep
      <3> QED
        BY <1>2, <3>1
    <2> QED
      BY <2>1, <2>2
  <1>3. tree.parent[w] \in S
    BY <1>1, <1>2, AboveFacts
  <1>4. Closed(tree, S)
    <2>1. Closed(tree, Above(tree, w))
      BY <1>1, AboveFacts
    <2> QED
      BY <1>2, <2>1 DEF Closed
  <1>5. Above(tree, w) \subseteq S
    <2> HIDE DEF S
    <2> QED
      BY <1>1, <1>3, <1>4, AboveLeast
  <1>6. PICK a \in F : TRUE
    OBVIOUS
  <1>7. a \in Live(tree) /\ F \subseteq Above(tree, a)
    BY <1>1, <1>5
  <1> QED
    BY <1>6, <1>7, LiveAbove

-----------------------------------------------------------------------------
(* The calls of WindowManager, each from a tree to a tree.                  *)

Trees == [parent : [Win -> Node], mapped : SUBSET Win,
          focus : Win \cup {Root, NoWindow, PointerRoot},
          revertTo : {NoWindow, PointerRoot, "Parent"}, hit : SUBSET Win]

\* A rooted tree with the focus in it.
Sound(tree) ==
  /\ tree \in Trees /\ Rooted(tree)
  /\ tree.focus \in Win => tree.focus \in Live(tree)

\* What u has lost of tree, its listeners have been told of.
Told(tree, u) == tree.hit \cup (Live(tree) \ Live(u)) \subseteq u.hit

LEMMA AboveAgrees ==
  ASSUME NEW tree, Parents(tree), NEW u, Parents(u), NEW w \in Win,
         u.parent[w] = tree.parent[w],
         \A v \in Above(tree, w) \cap Win : u.parent[v] = tree.parent[v]
  PROVE  Above(u, w) = Above(tree, w)
PROOF
  <1> DEFINE S == Above(tree, w) \cap Above(u, w)
  <1>1. tree.parent[w] \in Above(tree, w) /\ Closed(tree, Above(tree, w))
    BY AboveFacts
  <1>2. u.parent[w] \in Above(u, w) /\ Closed(u, Above(u, w))
    BY AboveFacts
  <1>3. tree.parent[w] \in S /\ Closed(tree, S)
    BY <1>1, <1>2 DEF Closed
  <1>4. u.parent[w] \in S /\ Closed(u, S)
    BY <1>1, <1>2 DEF Closed
  <1>5. Above(tree, w) \subseteq S
    <2> HIDE DEF S
    <2> QED
      BY <1>3, AboveLeast
  <1>6. Above(u, w) \subseteq S
    <2> HIDE DEF S
    <2> QED
      BY <1>4, AboveLeast
  <1> QED
    BY <1>5, <1>6

\* A tree with the same parents is as rooted.
LEMMA SameParents ==
  ASSUME NEW tree, Rooted(tree), NEW u, u.parent = tree.parent
  PROVE  /\ Rooted(u) /\ Live(u) = Live(tree)
         /\ \A w \in Win : Above(u, w) = Above(tree, w)
PROOF
  <1>1. Parents(tree) /\ Parents(u)
    BY DEF Rooted, Parents
  <1>2. \A w \in Win : Above(u, w) = Above(tree, w)
    BY <1>1, AboveAgrees
  <1>3. Live(u) = Live(tree)
    BY DEF Live
  <1> QED
    BY <1>1, <1>2, <1>3 DEF Rooted, Live

LEMMA RevertFocusShape ==
  ASSUME NEW tree \in Trees, Rooted(tree), tree.focus \in Live(tree),
         NEW u, u = RevertFocus(tree)
  PROVE  /\ u \in Trees /\ u = [tree EXCEPT !.focus = u.focus]
         /\ u.focus \in Win => u.focus \in Live(tree)
PROOF
  <1> USE WindowsAssumption
  <1>1. tree.focus \in Win /\ tree.parent[tree.focus] \in Live(tree) \cup {Root}
    BY DEF Rooted, Live
  <1>2. Live(tree) \subseteq Win
    BY DEF Live
  <1>3. CASE tree.revertTo = "Parent"
    <2>1. u = [tree EXCEPT !.focus = tree.parent[tree.focus]]
      BY <1>1, <1>3 DEF RevertFocus
    <2>2. tree.parent[tree.focus] \in Win \cup {Root, NoWindow, PointerRoot}
      BY <1>1, <1>2
    <2> QED
      BY <1>1, <1>2, <2>1, <2>2 DEF Trees
  <1>4. CASE tree.revertTo # "Parent"
    <2>1. u = [tree EXCEPT !.focus = tree.revertTo]
      BY <1>4 DEF RevertFocus
    <2>2. tree.revertTo \in {NoWindow, PointerRoot}
      BY <1>4 DEF Trees
    <2> QED
      BY <2>1, <2>2 DEF Trees
  <1> QED
    BY <1>3, <1>4

LEMMA UnmapShape ==
  ASSUME NEW tree, Sound(tree), NEW w \in Live(tree), NEW u, u = Unmap(tree, w)
  PROVE  /\ Sound(u) /\ u.parent = tree.parent /\ u.revertTo = tree.revertTo
         /\ Live(u) = Live(tree) /\ tree.hit \subseteq u.hit
         /\ u.mapped = tree.mapped \ {w}
PROOF
  <1>1. CASE w \notin tree.mapped
    BY <1>1 DEF Unmap, Sound, Trees
  <1>2. CASE w \in tree.mapped
    <2>1. PICK h : h = [tree EXCEPT !.mapped = @ \ {w}, !.hit = @ \cup {w}]
      OBVIOUS
    <2>2. w \in Win
      BY DEF Live
    <2>3. /\ h \in Trees /\ h.parent = tree.parent /\ h.focus = tree.focus
          /\ h.revertTo = tree.revertTo /\ tree.hit \subseteq h.hit
          /\ h.mapped = tree.mapped \ {w}
      BY <2>1, <2>2 DEF Sound, Trees
    <2>4. Rooted(h) /\ Live(h) = Live(tree)
      BY <2>3, SameParents DEF Sound
    <2>5. CASE tree.focus = w
      <3>1. u = RevertFocus(h)
        BY <1>2, <2>1, <2>5 DEF Unmap
      <3>2. h.focus \in Live(h)
        BY <2>3, <2>4, <2>5
      <3>3. /\ u \in Trees /\ u = [h EXCEPT !.focus = u.focus]
            /\ u.focus \in Win => u.focus \in Live(h)
        BY <2>3, <2>4, <3>1, <3>2, RevertFocusShape
      <3>4. /\ u.parent = h.parent /\ u.revertTo = h.revertTo /\ u.hit = h.hit
            /\ u.mapped = h.mapped
        BY <2>3, <3>3 DEF Trees
      <3>5. Rooted(u) /\ Live(u) = Live(h)
        BY <2>4, <3>4, SameParents
      <3> QED
        BY <2>3, <2>4, <3>3, <3>4, <3>5 DEF Sound
    <2>6. CASE tree.focus # w
      <3>1. u = h
        BY <1>2, <2>1, <2>6 DEF Unmap
      <3> QED
        BY <2>3, <2>4, <3>1 DEF Sound
    <2> QED
      BY <2>5, <2>6
  <1> QED
    BY <1>1, <1>2

LEMMA MapShape ==
  ASSUME NEW tree, Sound(tree), NEW w \in Win, NEW c, NEW u, u = Map(tree, w, c)
  PROVE  /\ Sound(u) /\ Live(u) = Live(tree) /\ u.hit = tree.hit
         /\ u.parent = tree.parent
         /\ u.mapped = tree.mapped \/ u.mapped = tree.mapped \cup {w}
         /\ w \in u.mapped \/ Redirected(u, w, c)
PROOF
  <1>1. CASE u = tree /\ Redirected(tree, w, c)
    BY <1>1 DEF Sound, Rooted
  <1>2. CASE u = [tree EXCEPT !.mapped = @ \cup {w}]
    <2>1. /\ u \in Trees /\ u.parent = tree.parent /\ u.focus = tree.focus /\ u.hit = tree.hit
          /\ u.mapped = tree.mapped \cup {w}
      BY <1>2 DEF Sound, Trees
    <2>2. Rooted(u) /\ Live(u) = Live(tree)
      BY <2>1, SameParents DEF Sound
    <2> QED
      BY <2>1, <2>2 DEF Sound
  <1> QED
    BY <1>1, <1>2 DEF Map

\* A window may hang where no cycle comes of it.
LEMMA Rehung ==
  ASSUME NEW tree, Rooted(tree), NEW w \in Win, NEW p \in Live(tree) \cup {Root},
         p # w, w \notin Above(tree, p),
         NEW u, Parents(u), u.parent[w] = p,
         \A v \in Win : v # w => u.parent[v] = tree.parent[v]
  PROVE  Rooted(u) /\ Live(u) = Live(tree) \cup {w}
PROOF
  <1> USE WindowsAssumption
  <1>1. p \in Node /\ p \notin {Unborn, Dead}
    BY DEF Live, Node
  <1>2. /\ Parents(tree) /\ Parents(u) /\ u.parent[w] = p
        /\ \A v \in Win : v # w => u.parent[v] = tree.parent[v]
    BY DEF Rooted
  <1>3. Live(u) = Live(tree) \cup {w}
    BY <1>1, <1>2 DEF Live
  <1>4. ASSUME NEW v \in Live(tree), v # w, w \notin Above(tree, v)
        PROVE  Above(u, v) = Above(tree, v)
    <2>1. v \in Win
      BY DEF Live
    <2> QED
      BY <1>2, <1>4, <2>1, AboveAgrees
  <1>5. Root \in Above(u, w)
    <2>1. CASE p = Root
      BY <1>2, <2>1, AboveFacts
    <2>2. CASE p \in Live(tree)
      <3>1. p \in Win /\ Root \in Above(tree, p)
        BY <2>2, LiveAbove
      <3>2. Above(u, p) = Above(tree, p)
        BY <1>4, <2>2
      <3> QED
        BY <1>2, <3>1, <3>2, AboveStep
    <2> QED
      BY <2>1, <2>2
  <1>6. ASSUME NEW v \in Live(tree), v # w, w \in Above(tree, v)
        PROVE  Root \in Above(u, v)
    <2>1. v \in Win /\ Above(tree, v) \subseteq Live(tree) \cup {Root}
      BY LiveAbove
    <2>2. w \in Live(tree)
      BY <1>6, <2>1
    <2>3. w \notin Above(tree, w)
      BY <2>2, LiveAbove
    <2> DEFINE S == Above(u, v) \cup Above(tree, w)
    <2>4. tree.parent[v] \in S
      BY <1>2, <1>6, <2>1, AboveFacts
    <2>5. Closed(tree, S)
      <3> SUFFICES ASSUME NEW x \in S \cap Win PROVE tree.parent[x] \in S
        BY DEF Closed
      <3>1. CASE x = w
        BY <1>2, <3>1, AboveFacts
      <3>2. CASE x # w /\ x \in Above(u, v)
        <4>1. u.parent[x] \in Above(u, v)
          BY <1>2, <2>1, <3>2, AboveFacts DEF Closed
        <4> QED
          BY <1>2, <3>2, <4>1
      <3>3. CASE x \in Above(tree, w)
        BY <1>2, <3>3, AboveFacts DEF Closed
      <3> QED
        BY <3>1, <3>2, <3>3
    <2>6. Above(tree, v) \subseteq S
      <3> HIDE DEF S
      <3> QED
        BY <1>2, <2>1, <2>4, <2>5, AboveLeast
    <2>7. w \in Above(u, v)
      BY <1>6, <2>3, <2>6
    <2> QED
      BY <1>2, <1>5, <2>1, <2>7, AboveTransitive
  <1>7. \A v \in Live(u) : Root \in Above(u, v)
    BY <1>3, <1>4, <1>5, <1>6 DEF Rooted
  <1>8. \A v \in Live(u) : u.parent[v] \in Live(u) \cup {Root}
    <2>1. Live(tree) \subseteq Win
      BY DEF Live
    <2> QED
      BY <1>2, <1>3, <2>1 DEF Rooted
  <1> QED
    BY <1>2, <1>3, <1>7, <1>8 DEF Rooted

\* Of the parents only that of w is another.
Moved(tree, u, w, p) ==
  u.parent[w] = p /\ \A v \in Win : v # w => u.parent[v] = tree.parent[v]

LEMMA ReparentShape ==
  ASSUME NEW tree, Sound(tree), NEW w \in Live(tree), NEW p \in Live(tree) \cup {Root},
         MayReparent(tree, w, p), NEW c, NEW u, u = Reparent(tree, w, p, c)
  PROVE  /\ Sound(u) /\ Live(u) = Live(tree) /\ tree.hit \subseteq u.hit
         /\ Moved(tree, u, w, p)
         /\ \A v \in Win : v # w => (v \in u.mapped <=> v \in tree.mapped)
PROOF
  <1> USE WindowsAssumption
  <1>1. PICK h : h = Unmap(tree, w)
    OBVIOUS
  <1>2. /\ Sound(h) /\ h.parent = tree.parent /\ Live(h) = Live(tree) /\ tree.hit \subseteq h.hit
        /\ h.mapped = tree.mapped \ {w}
    BY <1>1, UnmapShape
  <1>3. PICK m : m = [h EXCEPT !.parent[w] = p]
    OBVIOUS
  <1>4. w \in Win /\ p \in Node
    BY DEF Live, Node
  <1>5. /\ m \in Trees /\ m.parent = [h.parent EXCEPT ![w] = p] /\ m.hit = h.hit
        /\ m.mapped = h.mapped /\ m.focus = h.focus
    BY <1>2, <1>3, <1>4 DEF Sound, Trees
  <1>5a. Moved(tree, m, w, p)
    BY <1>2, <1>4, <1>5 DEF Moved, Sound, Trees
  <1>6. Rooted(m) /\ Live(m) = Live(tree) \cup {w}
    <2>1. Rooted(tree) /\ p # w /\ w \notin Above(tree, p)
      BY DEF Sound, MayReparent
    <2>2. Parents(m)
      BY <1>5 DEF Trees, Parents
    <2> QED
      BY <1>4, <1>5a, <2>1, <2>2, Rehung DEF Moved
  <1>7. Live(m) = Live(tree) /\ Sound(m)
    BY <1>2, <1>5, <1>6 DEF Sound
  <1>8. CASE w \notin tree.mapped
    <2>1. u = m
      BY <1>1, <1>3, <1>8 DEF Reparent
    <2> QED
      BY <1>2, <1>5, <1>7, <1>5a, <2>1 DEF Moved
  <1>9. CASE w \in tree.mapped
    <2>1. u = Map(m, w, c)
      BY <1>1, <1>3, <1>9 DEF Reparent
    <2>2. /\ Sound(u) /\ Live(u) = Live(m) /\ u.hit = m.hit /\ u.parent = m.parent
          /\ u.mapped = m.mapped \/ u.mapped = m.mapped \cup {w}
      BY <1>4, <1>7, <2>1, MapShape
    <2> QED
      BY <1>2, <1>5, <1>7, <1>5a, <2>2 DEF Moved
  <1> QED
    BY <1>8, <1>9

LEMMA SubtreeShape ==
  ASSUME NEW tree, Rooted(tree), NEW w \in Live(tree)
  PROVE  /\ w \in Subtree(tree, w) /\ Subtree(tree, w) \subseteq Live(tree)
         /\ tree.parent[w] \notin Subtree(tree, w)
         /\ \A v \in Live(tree) : tree.parent[v] \in Subtree(tree, w) => v \in Subtree(tree, w)
PROOF
  <1> USE WindowsAssumption
  <1>1. Parents(tree) /\ Live(tree) \subseteq Win
    BY DEF Rooted, Live
  <1>2. tree.parent[w] \notin Subtree(tree, w)
    <2> SUFFICES ASSUME tree.parent[w] \in Subtree(tree, w) PROVE FALSE
      OBVIOUS
    <2>1. tree.parent[w] \in Win /\ (tree.parent[w] = w \/ w \in Above(tree, tree.parent[w]))
      BY <1>1 DEF Subtree
    <2>2. w \in Above(tree, w)
      BY <1>1, <2>1, AboveStep
    <2> QED
      BY <2>2, LiveAbove
  <1>3. ASSUME NEW v \in Live(tree), tree.parent[v] \in Subtree(tree, w)
        PROVE  v \in Subtree(tree, w)
    <2>1. tree.parent[v] \in Win /\ (tree.parent[v] = w \/ w \in Above(tree, tree.parent[v]))
      BY <1>1, <1>3 DEF Subtree
    <2>2. w \in Above(tree, v)
      BY <1>1, <2>1, AboveStep
    <2> QED
      BY <2>2 DEF Subtree
  <1> QED
    BY <1>2, <1>3 DEF Subtree

LEMMA DestroyShape ==
  ASSUME NEW tree, Sound(tree), NEW w \in Win, NEW u, u = Destroy(tree, w)
  PROVE  /\ Sound(u) /\ Told(tree, u) /\ w \notin Live(u)
         /\ Live(u) = Live(tree) \ Subtree(tree, w)
         /\ \A v \in Live(u) : u.parent[v] = tree.parent[v]
         /\ \A v \in Live(u) : v \in u.mapped <=> v \in tree.mapped
PROOF
  <1> USE WindowsAssumption
  <1>1. CASE w \notin Live(tree)
    <2>1. u = tree
      BY <1>1 DEF Destroy
    <2>2. ASSUME NEW v \in Live(tree) PROVE v \notin Subtree(tree, w)
      BY <1>1, LiveAbove DEF Subtree, Sound
    <2> QED
      BY <1>1, <2>1, <2>2 DEF Told, Sound, Trees
  <1>2. CASE w \in Live(tree)
    <2>1. PICK gone : gone = Subtree(tree, w)
      OBVIOUS
    <2>2. /\ w \in gone /\ gone \subseteq Live(tree) /\ tree.parent[w] \notin gone
          /\ \A v \in Live(tree) : tree.parent[v] \in gone => v \in gone
      BY <1>2, <2>1, SubtreeShape DEF Sound
    <2>3. PICK h : h = Unmap(tree, w)
      OBVIOUS
    <2>4. /\ Sound(h) /\ h.parent = tree.parent /\ h.revertTo = tree.revertTo
          /\ Live(h) = Live(tree) /\ tree.hit \subseteq h.hit /\ h.mapped = tree.mapped \ {w}
      BY <1>2, <2>3, UnmapShape
    <2>5. PICK dead : dead = [v \in Win |-> IF v \in gone THEN Dead ELSE tree.parent[v]]
      OBVIOUS
    <2>6. PICK rest : rest = [h EXCEPT !.parent = dead, !.hit = @ \cup gone]
      OBVIOUS
    <2>7. /\ rest \in Trees /\ rest.parent = dead /\ rest.hit = h.hit \cup gone
          /\ rest.mapped = h.mapped /\ rest.focus = h.focus /\ rest.revertTo = tree.revertTo
      <3>1. Live(tree) \subseteq Win
        BY DEF Live
      <3>2. dead \in [Win -> Node]
        BY <2>5 DEF Sound, Trees, Node
      <3> QED
        BY <2>2, <2>4, <2>6, <3>1, <3>2 DEF Sound, Trees
    <2>8. Live(rest) = Live(tree) \ gone
      BY <2>2, <2>5, <2>7 DEF Live
    <2>9. /\ Parents(tree) /\ Parents(rest) /\ Live(tree) \subseteq Win
          /\ \A v \in Live(rest) : rest.parent[v] = tree.parent[v]
      <3>1. Live(tree) \subseteq Win
        BY DEF Live
      <3>2. Parents(tree) /\ Parents(rest)
        BY <2>7 DEF Sound, Trees, Parents
      <3> QED
        BY <2>5, <2>7, <2>8, <3>1, <3>2
    <2>10. Rooted(rest)
      <3> SUFFICES ASSUME NEW v \in Live(rest)
                   PROVE  /\ rest.parent[v] \in Live(rest) \cup {Root}
                          /\ Root \in Above(rest, v)
        BY <2>9 DEF Rooted
      <3>1. v \in Live(tree) /\ v \notin gone /\ v \in Win
        BY <2>8, <2>9
      <3>2. rest.parent[v] \in Live(rest) \cup {Root}
        BY <2>2, <2>8, <2>9, <3>1 DEF Sound, Rooted
      <3>3. /\ Root \in Above(tree, v) /\ Above(tree, v) \subseteq Live(tree) \cup {Root}
            /\ w \notin Above(tree, v)
        BY <2>1, <3>1, LiveAbove DEF Subtree, Sound
      <3>4. ASSUME NEW x \in Above(tree, v) \cap Win PROVE x \in Live(rest)
        <4>1. x \in Live(tree)
          BY <3>3, <3>4
        <4>2. x \notin gone
          <5> SUFFICES ASSUME x \in gone PROVE FALSE
            OBVIOUS
          <5>1. x = w \/ w \in Above(tree, x)
            BY <2>1 DEF Subtree
          <5>2. Above(tree, x) \subseteq Above(tree, v)
            BY <2>9, <3>1, AboveTransitive
          <5> QED
            BY <3>3, <5>1, <5>2
        <4> QED
          BY <2>8, <4>1, <4>2
      <3>5. Above(rest, v) = Above(tree, v)
        BY <2>9, <3>1, <3>4, AboveAgrees
      <3> QED
        BY <3>2, <3>3, <3>5
    <2>11. PICK focus : focus = IF tree.revertTo = "Parent" THEN tree.parent[w] ELSE tree.revertTo
      OBVIOUS
    <2>12. /\ focus \in Win \cup {Root, NoWindow, PointerRoot}
           /\ focus \in Win => focus \in Live(tree) \ gone
      BY <1>2, <2>2, <2>9, <2>11 DEF Sound, Rooted, Trees
    <2>13. u = IF rest.focus \notin gone THEN rest ELSE [rest EXCEPT !.focus = focus]
      BY <1>2, <2>1, <2>3, <2>4, <2>5, <2>6, <2>11 DEF Destroy
    <2>14. /\ u \in Trees /\ u.parent = rest.parent /\ u.hit = rest.hit /\ u.mapped = rest.mapped
           /\ u.focus \in Win => u.focus \in Live(rest)
      <3>1. CASE rest.focus \notin gone
        <4>1. rest.focus \in Win => rest.focus \in Live(tree) \ gone
          BY <2>4, <2>7, <3>1 DEF Sound
        <4> QED
          BY <2>7, <2>8, <2>13, <3>1, <4>1
      <3>2. CASE rest.focus \in gone
        <4>1. u = [rest EXCEPT !.focus = focus]
          BY <2>13, <3>2
        <4> QED
          BY <2>7, <2>8, <2>12, <4>1 DEF Trees
      <3> QED
        BY <3>1, <3>2
    <2>15. Rooted(u) /\ Live(u) = Live(rest)
      BY <2>10, <2>14, SameParents
    <2> QED
      BY <2>1, <2>2, <2>4, <2>7, <2>8, <2>9, <2>14, <2>15 DEF Sound, Told
  <1> QED
    BY <1>1, <1>2

-----------------------------------------------------------------------------
(* The windows of a client that ends: its save set is restored, then its    *)
(* own windows are destroyed.                                               *)

\* A set that is finite can be listed.
LEMMA Listed ==
  ASSUME NEW S, IsFiniteSet(S)
  PROVE  SetToSeq(S) \in Seq(S) /\ ToSet(SetToSeq(S)) = S
PROOF
  <1>1. PICK n \in Nat : n = Cardinality(S)
    BY FS_CardinalityType
  <1>2. PICK g : g \in Bijection(1..n, S)
    BY <1>1, FS_CardinalityType DEF ExistsBijection
  <1>3. g \in [1..n -> S] /\ IsInjective(g)
    BY <1>2 DEF Bijection, Injection, IsInjective
  <1>4. PICK f : f = SetToSeq(S)
    OBVIOUS
  <1>5. f \in [1..n -> S] /\ IsInjective(f)
    BY <1>1, <1>3, <1>4, Zenon DEF SetToSeq
  <1>6. f \in Injection(1..n, S)
    BY <1>5 DEF Injection, IsInjective
  <1>7. Cardinality(1..n) = n
    BY FS_Interval
  <1>8. f \in Surjection(1..n, S)
    BY <1>1, <1>6, <1>7, FS_Injection
  <1>9. ToSet(f) = S
    BY <1>5, <1>8 DEF ToSet, Surjection
  <1>10. f \in Seq(S)
    BY <1>5
  <1> QED
    BY <1>4, <1>9, <1>10

LEMMA ForeignShape ==
  ASSUME NEW tree, Sound(tree), NEW c, NEW w \in Live(tree), NEW p, p = ClosestForeign(tree, c, w)
  PROVE  /\ p \in Above(tree, w) /\ p \in Live(tree) \cup {Root}
         /\ MayReparent(tree, w, p)
         /\ p \in Win => Owner[p] # c
         /\ \A b \in Above(tree, w) : (b \in Win => Owner[b] # c) => b = p \/ b \in Above(tree, p)
PROOF
  <1> USE WindowsAssumption
  <1>1. PICK F : F = {a \in Above(tree, w) : a \in Win => Owner[a] # c}
    OBVIOUS
  <1>2. /\ w \in Win /\ Above(tree, w) \subseteq Live(tree) \cup {Root}
        /\ w \notin Above(tree, w) /\ Root \in Above(tree, w)
    BY LiveAbove DEF Sound
  <1>3. Root \in F
    BY <1>1, <1>2
  <1>4. \E a \in F : \A b \in F : b = a \/ b \in Above(tree, a)
    BY <1>1, <1>3, Nearest DEF Sound
  <1>5. p = CHOOSE a \in F : \A b \in F : b = a \/ b \in Above(tree, a)
    BY <1>1 DEF ClosestForeign
  <1>6. p \in F /\ \A b \in F : b = p \/ b \in Above(tree, p)
    BY <1>4, <1>5, Zenon
  <1>7. p \in Above(tree, w) /\ p \in Live(tree) \cup {Root} /\ p # w
    BY <1>1, <1>2, <1>6
  <1>8. w \notin Above(tree, p)
    <2>1. CASE p = Root
      BY <2>1 DEF Above
    <2>2. CASE p \in Live(tree)
      <3>1. p \in Win
        BY <2>2 DEF Live
      <3>2. Above(tree, p) \subseteq Above(tree, w)
        BY <1>2, <1>7, <3>1, AboveTransitive DEF Sound, Rooted
      <3> QED
        BY <1>2, <3>2
    <2> QED
      BY <1>7, <2>1, <2>2
  <1> QED
    BY <1>1, <1>6, <1>7, <1>8 DEF MayReparent

LEMMA RestoreWindowShape ==
  ASSUME NEW tree, Sound(tree), NEW c, NEW w \in Live(tree),
         NEW u, u = RestoreWindow(tree, c, w)
  PROVE  /\ Sound(u) /\ Live(u) = Live(tree) /\ tree.hit \subseteq u.hit
         /\ Moved(tree, u, w, ClosestForeign(tree, c, w))
         /\ \A v \in Win : v # w => (v \in u.mapped <=> v \in tree.mapped)
         /\ w \in u.mapped \/ Redirected(u, w, c)
PROOF
  <1>1. PICK p : p = ClosestForeign(tree, c, w)
    OBVIOUS
  <1>2. p \in Live(tree) \cup {Root} /\ MayReparent(tree, w, p)
    BY <1>1, ForeignShape
  <1>3. PICK h : h = Reparent(tree, w, p, c)
    OBVIOUS
  <1>4. /\ Sound(h) /\ Live(h) = Live(tree) /\ tree.hit \subseteq h.hit
        /\ Moved(tree, h, w, p)
        /\ \A v \in Win : v # w => (v \in h.mapped <=> v \in tree.mapped)
    BY <1>2, <1>3, ReparentShape
  <1>5. u = Map(h, w, c) /\ w \in Win
    BY <1>1, <1>3 DEF RestoreWindow, Live
  <1>6. /\ Sound(u) /\ Live(u) = Live(h) /\ u.hit = h.hit
        /\ u.parent = h.parent
        /\ u.mapped = h.mapped \/ u.mapped = h.mapped \cup {w}
        /\ w \in u.mapped \/ Redirected(u, w, c)
    BY <1>4, <1>5, MapShape
  <1> QED
    BY <1>1, <1>4, <1>6 DEF Moved

\* The trees a restored save set goes through.
Restores(tree, c, s, h) ==
  /\ RestoreSaveSet(tree, c) = h[Len(s)] /\ h[0] = tree
  /\ \A n \in 0..Len(s) : Sound(h[n]) /\ Live(h[n]) = Live(tree) /\ tree.hit \subseteq h[n].hit
  /\ \A n \in 1..Len(s) : h[n] = RestoreWindow(h[n-1], c, s[n])

LEMMA RestoreSteps ==
  ASSUME NEW tree, Sound(tree), NEW c, NEW s \in Seq(Win), saveSet[c] = s,
         ToSet(s) \subseteq Live(tree)
  PROVE  \E h : Restores(tree, c, s, h)
PROOF
  <1> DEFINE Is(f) == f = [n \in 0..Len(saveSet[c]) |->
                             IF n = 0 THEN tree ELSE RestoreWindow(f[n-1], c, saveSet[c][n])]
             after == CHOOSE f : Is(f)
             Ok(tr) == Sound(tr) /\ Live(tr) = Live(tree) /\ tree.hit \subseteq tr.hit
  <1>1. PICK N : N = Len(s) /\ N \in Nat
    OBVIOUS
  <1>2. \A n \in 1..N : s[n] \in Live(tree)
    BY <1>1 DEF ToSet
  <1>3. ASSUME NEW n \in 1..N, NEW tr, Ok(tr) PROVE Ok(RestoreWindow(tr, c, s[n]))
    <2>1. PICK w \in Live(tr) : w = s[n]
      BY <1>2, <1>3
    <2>2. PICK u : u = RestoreWindow(tr, c, w)
      OBVIOUS
    <2>3. Sound(u) /\ Live(u) = Live(tr) /\ tr.hit \subseteq u.hit
      <3>1. Sound(tr)
        BY <1>3
      <3> QED
        BY <2>2, <3>1, RestoreWindowShape, Zenon
    <2>4. tr.hit \subseteq u.hit /\ tree.hit \subseteq tr.hit
      BY <1>3, <2>3
    <2> QED
      BY <1>3, <2>1, <2>2, <2>3, <2>4
  <1>4. Ok(tree)
    OBVIOUS
  <1> DEFINE D == {tr \in Trees : Ok(tr)}
  <1>5. \A n \in 1..N, d \in D : RestoreWindow(d, c, s[n]) \in D
    BY <1>3 DEF Sound
  <1>6. PICK E : E = D
    OBVIOUS
  <1>7. PICK st : st = [n \in 1..N |-> [d \in E |-> RestoreWindow(d, c, s[n])]]
    OBVIOUS
  <1>8. st \in [1..N -> [E -> E]] /\ tree \in E
    <2>1. tree \in E
      BY <1>4, <1>6 DEF Sound
    <2> HIDE DEF D
    <2> QED
      BY <1>5, <1>6, <1>7, <2>1
  <1>9. PICK f : Follows(N, E, tree, st, f)
    BY <1>1, <1>8, Recursion
  <1> HIDE DEF Ok, D
  <1>10. \A n \in 0..N : n # 0 => n \in 1..N /\ n - 1 \in 0..N
    BY <1>1
  <1>11. \A n \in 0..N : f[n] = IF n = 0 THEN tree ELSE RestoreWindow(f[n-1], c, s[n])
    BY <1>7, <1>9, <1>10 DEF Follows
  <1>12. Is(f)
    BY <1>1, <1>9, <1>11 DEF Follows
  <1>13. Is(after)
    <2> HIDE DEF Is
    <2> QED
      BY <1>12
  <1>14. RestoreSaveSet(tree, c) = after[N]
    BY <1>1 DEF RestoreSaveSet
  <1> HIDE DEF after
  <1>15. \A n \in 0..N : after[n] = IF n = 0 THEN tree ELSE RestoreWindow(after[n-1], c, s[n])
    BY <1>1, <1>13
  <1>16. after[0] = tree /\ \A n \in 1..N : after[n] = RestoreWindow(after[n-1], c, s[n])
    BY <1>1, <1>15
  <1> HIDE DEF Is
  <1>17. \A n \in 0..N : Ok(after[n])
    <2> DEFINE S == {n \in 0..N : Ok(after[n])}
    <2>1. 0 \in S
      BY <1>1, <1>4, <1>16
    <2>2. ASSUME NEW n \in 0..N-1, n \in S PROVE n + 1 \in S
      <3>1. n + 1 \in 1..N /\ n + 1 \in 0..N /\ n + 1 - 1 = n
        BY <1>1
      <3> QED
        BY <1>3, <1>16, <2>2, <3>1
    <2>3. \A n \in 0..N : n \in S
      <3> HIDE DEF S
      <3> QED
        BY <1>1, <2>1, <2>2, CountUp, Zenon
    <2> QED
      BY <2>3
  <1>18. Restores(tree, c, s, after)
    BY <1>1, <1>14, <1>16, <1>17 DEF Ok, Restores
  <1> QED
    BY <1>18

\* What the destruction of a client's windows leaves.
LEMMA DestroyResourcesShape ==
  ASSUME NEW tree, Sound(tree), NEW c, NEW u, u = DestroyResources(tree, c)
  PROVE  /\ Sound(u) /\ Told(tree, u) /\ Live(u) \subseteq Live(tree)
         /\ \A v \in Live(u) \ halfMade : Owner[v] # c
         /\ \A v \in Live(u) : u.parent[v] = tree.parent[v] /\ (v \in u.mapped <=> v \in tree.mapped)
         /\ \A v \in Live(tree) \ Live(u) :
              \E f \in Live(tree) \ halfMade : Owner[f] = c /\ (v = f \/ f \in Above(tree, v))
PROOF
  <1> USE WindowsAssumption
  <1> DEFINE M == {w \in Live(tree) \ halfMade : Owner[w] = c}
             mine == SetToSeq(M)
             Is(f) == f = [n \in 0..Len(mine) |->
                             IF n = 0 THEN tree ELSE Destroy(f[n-1], mine[n])]
             after == CHOOSE f : Is(f)
             Ok(tr) ==
               /\ Sound(tr) /\ Told(tree, tr) /\ Live(tr) \subseteq Live(tree)
               /\ \A v \in Live(tr) : tr.parent[v] = tree.parent[v] /\ (v \in tr.mapped <=> v \in tree.mapped)
               /\ \A v \in Live(tree) \ Live(tr) :
                    \E f \in M : v = f \/ f \in Above(tree, v)
  <1>1. M \subseteq Win /\ Live(tree) \subseteq Win
    BY DEF Live
  <1>2. IsFiniteSet(M)
    BY <1>1, FS_Subset
  <1>3. mine \in Seq(M) /\ ToSet(mine) = M
    <2> HIDE DEF M
    <2> QED
      BY <1>2, Listed
  <1>4. PICK s, N : s = mine /\ N = Len(s) /\ N \in Nat
    <2>1. PICK s : s = mine
      OBVIOUS
    <2>2. Len(s) \in Nat
      BY <1>3, <2>1
    <2> HIDE DEF mine
    <2> QED
      BY <2>1, <2>2
  <1>5. (\A n \in 1..N : s[n] \in M) /\ \A w \in M : \E n \in 1..N : s[n] = w
    <2> HIDE DEF M, mine
    <2> QED
      BY <1>3, <1>4 DEF ToSet
  <1>6. ASSUME NEW n \in 1..N, NEW tr, Ok(tr) 
        PROVE  Ok(Destroy(tr, s[n])) /\ Live(Destroy(tr, s[n])) \subseteq Live(tr) \ {s[n]}
    <2>1. PICK w : w = s[n] /\ w \in M /\ w \in Win
      BY <1>1, <1>5
    <2>2. PICK x : x = Destroy(tr, w)
      OBVIOUS
    <2>3. /\ Sound(x) /\ Told(tr, x) /\ w \notin Live(x)
          /\ Live(x) = Live(tr) \ Subtree(tr, w)
          /\ \A v \in Live(x) : x.parent[v] = tr.parent[v]
          /\ \A v \in Live(x) : v \in x.mapped <=> v \in tr.mapped
      BY <1>6, <2>1, <2>2, DestroyShape
    <2>4. Told(tree, x)
      BY <1>6, <2>3 DEF Told
    <2>5. ASSUME NEW v \in Live(tree) \ Live(x) PROVE \E f \in M : v = f \/ f \in Above(tree, v)
      <3>1. CASE v \notin Live(tr)
        BY <1>6, <3>1
      <3>2. CASE v \in Live(tr)
        <4>1. v = w \/ w \in Above(tr, v)
          BY <2>3, <3>2 DEF Subtree
        <4>2. Above(tr, v) = Above(tree, v)
          <5>1. /\ Parents(tr) /\ Parents(tree) /\ v \in Win /\ Above(tr, v) \subseteq Live(tr) \cup {Root}
            BY <1>6, <3>2, LiveAbove DEF Sound, Rooted
          <5>2. \A y \in Above(tr, v) \cap Win : y \in Live(tr)
            BY <5>1
          <5>3. tree.parent[v] = tr.parent[v] /\ \A y \in Above(tr, v) \cap Win : tree.parent[y] = tr.parent[y]
            BY <1>6, <3>2, <5>2
          <5> QED
            BY <5>1, <5>3, AboveAgrees
        <4> QED
          BY <2>1, <4>1, <4>2
      <3> QED
        BY <3>1, <3>2
    <2>6. Live(x) \subseteq Live(tr) \ {w}
      BY <2>3
    <2>7. Live(x) \subseteq Live(tree)
      BY <1>6, <2>6
    <2>8. \A v \in Live(x) : x.parent[v] = tree.parent[v] /\ (v \in x.mapped <=> v \in tree.mapped)
      BY <1>6, <2>3, <2>6
    <2> HIDE DEF M
    <2> QED
      BY <2>1, <2>2, <2>3, <2>4, <2>5, <2>6, <2>7, <2>8
  <1>7. Ok(tree)
    BY DEF Told, Sound, Trees
  <1> DEFINE D == {tr \in Trees : Ok(tr)}
  <1>8. PICK E : E = D
    OBVIOUS
  <1>9. (\A tr \in E : Ok(tr)) /\ (\A tr : Ok(tr) => tr \in E)
    BY <1>8 DEF Sound
  <1> HIDE DEF Ok, D
  <1>10. PICK st : st = [n \in 1..N |-> [d \in E |-> Destroy(d, s[n])]]
    OBVIOUS
  <1>11. st \in [1..N -> [E -> E]] /\ tree \in E
    BY <1>6, <1>7, <1>9, <1>10
  <1>12. PICK f : Follows(N, E, tree, st, f)
    BY <1>4, <1>11, Recursion
  <1>13. \A n \in 0..N : n # 0 => n \in 1..N /\ n - 1 \in 0..N
    BY <1>4
  <1>14. \A n \in 0..N : f[n] = IF n = 0 THEN tree ELSE Destroy(f[n-1], s[n])
    BY <1>10, <1>12, <1>13 DEF Follows
  <1>15. Is(f)
    <2> HIDE DEF mine, M
    <2> QED
      BY <1>4, <1>12, <1>14 DEF Follows
  <1>16. Is(after)
    <2> HIDE DEF Is
    <2> QED
      BY <1>15
  <1>17. u = after[N]
    BY <1>4 DEF DestroyResources
  <1> HIDE DEF after
  <1>18. \A n \in 0..N : after[n] = IF n = 0 THEN tree ELSE Destroy(after[n-1], s[n])
    <2> HIDE DEF mine, M
    <2> QED
      BY <1>4, <1>16
  <1>19. after[0] = tree /\ \A n \in 1..N : after[n] = Destroy(after[n-1], s[n])
    BY <1>4, <1>18
  <1> HIDE DEF Is, M, mine
  <1>20. \A n \in 0..N : Ok(after[n]) /\ \A i \in 1..n : s[i] \notin Live(after[n])
    <2> DEFINE Done(n) == Ok(after[n]) /\ \A i \in 1..n : s[i] \notin Live(after[n])
               S == {n \in 0..N : Done(n)}
    <2>1. 0 \in S
      <3>1. Done(0)
        BY <1>7, <1>19
      <3> HIDE DEF Done
      <3> QED
        BY <1>4, <3>1
    <2>2. ASSUME NEW n \in 0..N-1, n \in S PROVE n + 1 \in S
      <3>1. n + 1 \in 1..N /\ n + 1 \in 0..N /\ n + 1 - 1 = n /\ \A i \in 1..n+1 : i = n + 1 \/ i \in 1..n
        BY <1>4
      <3>2. after[n+1] = Destroy(after[n], s[n+1])
        BY <1>19, <3>1
      <3>3. Ok(after[n+1]) /\ Live(after[n+1]) \subseteq Live(after[n]) \ {s[n+1]}
        BY <1>6, <2>2, <3>1, <3>2
      <3> QED
        BY <2>2, <3>1, <3>3
    <2>3. \A n \in 0..N : n \in S
      <3> HIDE DEF S
      <3> QED
        BY <1>4, <2>1, <2>2, CountUp, Zenon
    <2> QED
      BY <2>3
  <1>21. Ok(u) /\ \A w \in M : w \notin Live(u)
    BY <1>4, <1>5, <1>17, <1>20
  <1>22. \A v \in Live(u) \ halfMade : Owner[v] # c
    <2>1. Live(u) \subseteq Live(tree)
      BY <1>21 DEF Ok
    <2> QED
      BY <1>21, <2>1 DEF M
  <1> QED
    BY <1>21, <1>22 DEF Ok, M

-----------------------------------------------------------------------------
(* The invariant.                                                           *)

Typed ==
  /\ halfMade \subseteq Win
  /\ saveSet \in [Client -> Seq(Win)]
  /\ listener \in [Client -> {"none", "redirect", "stale"}]
  /\ selection \in [owner : Win \cup {NoWindow}, client : Client \cup {None}]
  /\ connected \subseteq Client
  /\ leaving \in Client \cup {None}

WindowsInv == Typed /\ Sound(t) /\ NothingDangles /\ NobodyGone

LEMMA InitHolds == Init => WindowsInv
PROOF
  <1> USE WindowsAssumption
  <1> SUFFICES ASSUME Init PROVE WindowsInv
    OBVIOUS
  <1>1. t.parent = [w \in Win |-> Unborn] /\ t \in Trees /\ t.focus = PointerRoot
    BY DEF Init, Trees, Node
  <1>2. Live(t) = {}
    BY <1>1 DEF Live
  <1>3. Sound(t)
    BY <1>1, <1>2 DEF Sound, Rooted, Parents, Trees
  <1>4. /\ halfMade = {} /\ saveSet = [c \in Client |-> <<>>] /\ listener = [c \in Client |-> "none"]
        /\ selection = [owner |-> NoWindow, client |-> None] /\ grabber = None
        /\ connected = Client /\ leaving = None
    BY DEF Init, NoSelection
  <1>5. Typed
    <2>1. <<>> \in Seq(Win)
      OBVIOUS
    <2> QED
      BY <1>4, <2>1 DEF Typed
  <1>6. NothingDangles
    <2>1. ToSet(<<>>) = {}
      BY DEF ToSet
    <2>2. \A c \in Client : ToSet(saveSet[c]) = {}
      BY <1>4, <2>1
    <2> QED
      BY <1>1, <1>4, <2>2 DEF NothingDangles
  <1>7. NobodyGone
    BY <1>2, <1>4 DEF NobodyGone
  <1> QED
    BY <1>3, <1>5, <1>6, <1>7 DEF WindowsInv

LEMMA TreeShape ==
  ASSUME WindowsInv, NEW u, u = Tree
  PROVE  /\ Sound(u) /\ Live(u) = Live(t) /\ u.parent = t.parent /\ u.hit = {}
         /\ u.mapped = t.mapped /\ u.focus = t.focus /\ u.revertTo = t.revertTo
         /\ \A w \in Win : Above(u, w) = Above(t, w)
PROOF
  <1>1. /\ u \in Trees /\ u.parent = t.parent /\ u.hit = {}
        /\ u.mapped = t.mapped /\ u.focus = t.focus /\ u.revertTo = t.revertTo
    BY DEF Tree, WindowsInv, Sound, Trees
  <1>2. Rooted(u) /\ Live(u) = Live(t) /\ \A w \in Win : Above(u, w) = Above(t, w)
    BY <1>1, SameParents DEF WindowsInv, Sound
  <1> QED
    BY <1>1, <1>2 DEF WindowsInv, Sound

\* No window goes without its listeners being told.
Tells == Live(t) \ Live(t') \subseteq t'.hit

\* A request that destroys nothing.
LEMMA SameWindows ==
  ASSUME WindowsInv, Sound(t'), Live(t') = Live(t),
         UNCHANGED <<halfMade, saveSet, listener, selection, grabber, connected, leaving>>
  PROVE  WindowsInv' /\ Tells
PROOF
  <1>1. Typed'
    BY DEF WindowsInv, Typed
  <1>2. NothingDangles'
    BY DEF WindowsInv, NothingDangles, Sound
  <1>3. NobodyGone'
    BY DEF WindowsInv, NobodyGone
  <1> QED
    BY <1>1, <1>2, <1>3 DEF WindowsInv, Tells

\* A window more in the tree, of a client that is connected or half made.
LEMMA OneMore ==
  ASSUME WindowsInv, NEW c \in Client, NEW w \in Win, NEW p \in Live(t) \cup {Root},
         t.parent[w] = Unborn, Owner[w] = c, c \in connected, t' = [Tree EXCEPT !.parent[w] = p],
         halfMade' \in {halfMade, halfMade \cup {w}},
         UNCHANGED <<saveSet, listener, selection, grabber, connected, leaving>>
  PROVE  WindowsInv' /\ Tells
PROOF
  <1> USE WindowsAssumption
  <1>1. PICK u : u = Tree
    OBVIOUS
  <1>2. /\ Sound(u) /\ Live(u) = Live(t) /\ u.parent = t.parent
        /\ \A x \in Win : Above(u, x) = Above(t, x)
    BY <1>1, TreeShape
  <1>3. PICK v : v = t'
    OBVIOUS
  <1>4. p \in Node /\ Live(t) \subseteq Win
    BY DEF Node, Live
  <1>5. /\ v \in Trees /\ v.parent = [u.parent EXCEPT ![w] = p] /\ v.focus = u.focus
    BY <1>1, <1>2, <1>3, <1>4 DEF Sound, Trees
  <1>6. Parents(v) /\ v.parent[w] = p /\ \A x \in Win : x # w => v.parent[x] = u.parent[x]
    BY <1>2, <1>5 DEF Sound, Rooted, Parents, Trees
  <1>7. p # w /\ w \notin Live(t)
    BY DEF Live
  <1>8. w \notin Above(u, p)
    <2>1. CASE p = Root
      BY <2>1 DEF Above
    <2>2. CASE p \in Live(t)
      BY <1>2, <1>7, <2>2, LiveAbove DEF Sound
    <2> QED
      BY <2>1, <2>2
  <1>9. Rooted(v) /\ Live(v) = Live(t) \cup {w}
    BY <1>2, <1>6, <1>7, <1>8, Rehung DEF Sound
  <1>10. Sound(v)
    BY <1>2, <1>5, <1>9 DEF Sound
  <1>11. Sound(t') /\ Live(t') = Live(t) \cup {w}
    BY <1>3, <1>9, <1>10
  <1>12. Typed'
    BY DEF WindowsInv, Typed
  <1>13. NothingDangles'
    BY <1>11 DEF WindowsInv, NothingDangles, Sound
  <1>14. NobodyGone'
    BY <1>11 DEF WindowsInv, NobodyGone
  <1> QED
    BY <1>11, <1>12, <1>13, <1>14 DEF WindowsInv, Tells

LEMMA SaveSetKept ==
  ASSUME WindowsInv, NEW c \in Client, NEW gone
  PROVE  /\ Keep(saveSet[c], Win \ gone) \in Seq(Win)
         /\ ToSet(Keep(saveSet[c], Win \ gone)) \subseteq Live(t) \ gone
         /\ saveSet[c] = <<>> => Keep(saveSet[c], Win \ gone) = <<>>
PROOF
  <1>1. saveSet[c] \in Seq(Win) /\ ToSet(saveSet[c]) \subseteq Live(t)
    BY DEF WindowsInv, Typed, NothingDangles
  <1>2. /\ Keep(saveSet[c], Win \ gone) \in Seq(Win)
        /\ ToSet(Keep(saveSet[c], Win \ gone)) = ToSet(saveSet[c]) \cap (Win \ gone)
    BY <1>1, KeepProperties
  <1>3. saveSet[c] = <<>> => Keep(saveSet[c], Win \ gone) = <<>>
    BY KeepOfNothing
  <1> QED
    BY <1>1, <1>2, <1>3

LEMMA AfterDestruction ==
  ASSUME WindowsInv, NEW tree, Sound(tree), Live(tree) \subseteq Live(t),
         Live(t) \ Live(tree) \subseteq tree.hit, After(tree),
         UNCHANGED <<listener, grabber, connected, leaving>>
  PROVE  WindowsInv' /\ Tells
PROOF
  <1> USE WindowsAssumption
  <1>1. PICK gone : gone = Live(t) \ Live(tree)
    OBVIOUS
  <1>2. /\ t' = tree /\ halfMade' = halfMade \ gone
        /\ saveSet' = [c \in Client |-> Keep(saveSet[c], Win \ gone)]
        /\ selection' = IF selection.owner \in gone THEN NoSelection ELSE selection
    BY <1>1 DEF After
  <1>3. \A c \in Client : /\ saveSet'[c] \in Seq(Win) /\ ToSet(saveSet'[c]) \subseteq Live(t) \ gone
                          /\ saveSet[c] = <<>> => saveSet'[c] = <<>>
    BY <1>2, SaveSetKept
  <1>4. Live(t) \ gone = Live(t')
    BY <1>1, <1>2
  <1>5. Typed'
    <2>1. saveSet' \in [Client -> Seq(Win)]
      BY <1>2, <1>3
    <2> QED
      BY <1>2, <2>1 DEF WindowsInv, Typed, NoSelection
  <1>6. NothingDangles'
    <2>1. selection'.owner \in Win => selection'.owner \in Live(t')
      BY <1>2, <1>4 DEF WindowsInv, NothingDangles, NoSelection
    <2> QED
      BY <1>2, <1>3, <1>4, <2>1 DEF NothingDangles, Sound
  <1>7. NobodyGone'
    <2>1. selection'.client \in connected' \cup {None}
      BY <1>2 DEF WindowsInv, NobodyGone, NoSelection
    <2>2. \A c \in Client \ connected' : listener'[c] = "none" /\ saveSet'[c] = <<>>
      BY <1>3 DEF WindowsInv, NobodyGone
    <2>3. \A w \in Live(t') \ halfMade' : Owner[w] \in connected'
      BY <1>2, <1>4 DEF WindowsInv, NobodyGone
    <2> QED
      BY <2>1, <2>2, <2>3 DEF WindowsInv, NobodyGone
  <1> QED
    BY <1>2, <1>5, <1>6, <1>7 DEF WindowsInv, Tells

-----------------------------------------------------------------------------
(* The requests.                                                            *)

LEMMA ServeFacts ==
  ASSUME NEW c, NEW op, Serve(c, op)
  PROVE  c \in connected
BY DEF Serve

LEMMA CreateWindowStep ==
  ASSUME WindowsInv, NEW c \in Client, NEW w \in Win, NEW p,
         CreateWindow(c, w, p) \/ CreateWindowFails(c, w, p)
  PROVE  WindowsInv' /\ Tells
PROOF
  <1>1. /\ c \in connected /\ t.parent[w] = Unborn /\ Owner[w] = c
        /\ p \in Live(t) \cup {Root} /\ t' = [Tree EXCEPT !.parent[w] = p]
        /\ halfMade' \in {halfMade, halfMade \cup {w}}
        /\ UNCHANGED <<saveSet, listener, selection, grabber, connected, leaving>>
    BY DEF CreateWindow, CreateWindowFails, Serve
  <1> QED
    BY <1>1, OneMore

LEMMA MapWindowStep ==
  ASSUME WindowsInv, NEW c \in Client, NEW w \in Win, MapWindow(c, w)
  PROVE  WindowsInv' /\ Tells
PROOF
  <1>1. PICK u : u = Tree
    OBVIOUS
  <1>2. PICK v : v = Map(u, w, c)
    OBVIOUS
  <1>3. Sound(u) /\ Live(u) = Live(t)
    BY <1>1, TreeShape
  <1>4. Sound(v) /\ Live(v) = Live(u)
    BY <1>2, <1>3, MapShape
  <1>5. t' = v /\ UNCHANGED <<halfMade, saveSet, listener, selection, grabber, connected, leaving>>
    BY <1>1, <1>2 DEF MapWindow
  <1> QED
    BY <1>3, <1>4, <1>5, SameWindows

LEMMA UnmapWindowStep ==
  ASSUME WindowsInv, NEW c \in Client, NEW w \in Win, UnmapWindow(c, w)
  PROVE  WindowsInv' /\ Tells
PROOF
  <1>1. PICK u : u = Tree
    OBVIOUS
  <1>2. PICK v : v = Unmap(u, w)
    OBVIOUS
  <1>3. Sound(u) /\ Live(u) = Live(t)
    BY <1>1, TreeShape
  <1>4. w \in Live(t) /\ t' = v
        /\ UNCHANGED <<halfMade, saveSet, listener, selection, grabber, connected, leaving>>
    BY <1>1, <1>2 DEF UnmapWindow
  <1>5. Sound(v) /\ Live(v) = Live(u)
    BY <1>2, <1>3, <1>4, UnmapShape
  <1> QED
    BY <1>3, <1>4, <1>5, SameWindows

LEMMA DestroyWindowStep ==
  ASSUME WindowsInv, NEW c \in Client, NEW w \in Win, DestroyWindow(c, w)
  PROVE  WindowsInv' /\ Tells
PROOF
  <1>1. PICK u : u = Tree
    OBVIOUS
  <1>2. PICK v : v = Destroy(u, w)
    OBVIOUS
  <1>3. Sound(u) /\ Live(u) = Live(t)
    BY <1>1, TreeShape
  <1>4. Sound(v) /\ Told(u, v) /\ Live(v) = Live(u) \ Subtree(u, w)
    BY <1>2, <1>3, DestroyShape
  <1>5. After(v) /\ UNCHANGED <<listener, grabber, connected, leaving>>
    BY <1>1, <1>2 DEF DestroyWindow
  <1>6. Live(v) \subseteq Live(t) /\ Live(t) \ Live(v) \subseteq v.hit
    BY <1>3, <1>4 DEF Told
  <1> QED
    BY <1>4, <1>5, <1>6, AfterDestruction

LEMMA ReparentWindowStep ==
  ASSUME WindowsInv, NEW c \in Client, NEW w \in Win, NEW p, ReparentWindow(c, w, p)
  PROVE  WindowsInv' /\ Tells
PROOF
  <1>1. PICK u : u = Tree
    OBVIOUS
  <1>2. PICK v : v = Reparent(u, w, p, c)
    OBVIOUS
  <1>3. Sound(u) /\ Live(u) = Live(t) /\ \A x \in Win : Above(u, x) = Above(t, x)
    BY <1>1, TreeShape
  <1>4. /\ w \in Live(t) /\ p \in Live(t) \cup {Root} /\ MayReparent(t, w, p) /\ t' = v
        /\ UNCHANGED <<halfMade, saveSet, listener, selection, grabber, connected, leaving>>
    BY <1>1, <1>2 DEF ReparentWindow
  <1>5. MayReparent(u, w, p)
    <2>1. CASE p = Root
      <3>1. Above(u, p) = {}
        BY <2>1, WindowsAssumption DEF Above
      <3> QED
        BY <1>4, <3>1 DEF MayReparent
    <2>2. CASE p \in Live(t)
      <3>1. p \in Win
        BY <2>2 DEF Live
      <3> QED
        BY <1>3, <1>4, <3>1 DEF MayReparent
    <2> QED
      BY <1>4, <2>1, <2>2
  <1>6. Sound(v) /\ Live(v) = Live(u)
    <2>1. w \in Live(u) /\ p \in Live(u) \cup {Root} /\ Sound(u)
      BY <1>3, <1>4
    <2> QED
      BY <1>2, <1>5, <2>1, ReparentShape
  <1> QED
    BY <1>3, <1>4, <1>6, SameWindows

LEMMA SetInputFocusStep ==
  ASSUME WindowsInv, NEW c \in Client, NEW w, NEW revertTo \in {NoWindow, PointerRoot, "Parent"},
         SetInputFocus(c, w, revertTo)
  PROVE  WindowsInv' /\ Tells
PROOF
  <1> USE WindowsAssumption
  <1>1. PICK u : u = Tree
    OBVIOUS
  <1>2. PICK v : v = [u EXCEPT !.focus = w, !.revertTo = revertTo]
    OBVIOUS
  <1>3. Sound(u) /\ Live(u) = Live(t)
    BY <1>1, TreeShape
  <1>4. /\ w \in Live(t) \cup {Root, NoWindow, PointerRoot} /\ t' = v
        /\ UNCHANGED <<halfMade, saveSet, listener, selection, grabber, connected, leaving>>
    BY <1>1, <1>2 DEF SetInputFocus
  <1>5. Live(t) \subseteq Win
    BY DEF Live
  <1>6. v \in Trees /\ v.parent = u.parent /\ v.focus = w
    BY <1>2, <1>3, <1>4, <1>5 DEF Sound, Trees
  <1>7. Rooted(v) /\ Live(v) = Live(u)
    BY <1>3, <1>6, SameParents DEF Sound
  <1>8. Sound(v)
    BY <1>3, <1>4, <1>6, <1>7 DEF Sound
  <1> QED
    BY <1>3, <1>4, <1>7, <1>8, SameWindows

\* The requests that leave the tree as it is.
LEMMA SameTree ==
  ASSUME WindowsInv, t' = Tree
  PROVE  Sound(t') /\ Live(t') = Live(t) /\ t'.focus = t.focus
PROOF
  <1>1. PICK u : u = Tree
    OBVIOUS
  <1> QED
    BY <1>1, TreeShape

LEMMA ChangeSaveSetStep ==
  ASSUME WindowsInv, NEW c \in Client, NEW w \in Win, ChangeSaveSet(c, w)
  PROVE  WindowsInv' /\ Tells
PROOF
  <1>1. /\ c \in connected /\ w \in Live(t) /\ t' = Tree
        /\ UNCHANGED <<halfMade, listener, selection, grabber, connected, leaving>>
    BY DEF ChangeSaveSet, Serve
  <1>2. Sound(t') /\ Live(t') = Live(t) /\ t'.focus = t.focus
    BY <1>1, SameTree
  <1>3. PICK s : s = saveSet[c] /\ s \in Seq(Win) /\ ToSet(s) \subseteq Live(t)
    BY DEF WindowsInv, Typed, NothingDangles
  <1>4. PICK r : r = IF w \in ToSet(s) THEN Keep(s, Win \ {w}) ELSE Append(s, w)
    OBVIOUS
  <1>5. r \in Seq(Win) /\ ToSet(r) \subseteq Live(t)
    <2>1. CASE w \in ToSet(s)
      <3>1. Keep(s, Win \ {w}) \in Seq(Win) /\ ToSet(Keep(s, Win \ {w})) = ToSet(s) \cap (Win \ {w})
        BY <1>3, KeepProperties
      <3> QED
        BY <1>3, <1>4, <2>1, <3>1
    <2>2. CASE w \notin ToSet(s)
      <3>1. Append(s, w) \in Seq(Win) /\ ToSet(Append(s, w)) = ToSet(s) \cup {w}
        BY <1>3, AppendSet
      <3> QED
        BY <1>1, <1>3, <1>4, <2>2, <3>1
    <2> QED
      BY <2>1, <2>2
  <1>6. saveSet' = [saveSet EXCEPT ![c] = r]
    BY <1>3, <1>4 DEF ChangeSaveSet
  <1>7. /\ saveSet' \in [Client -> Seq(Win)]
        /\ \A d \in Client : saveSet'[d] = IF d = c THEN r ELSE saveSet[d]
    BY <1>5, <1>6 DEF WindowsInv, Typed
  <1>8. Typed'
    BY <1>1, <1>7 DEF WindowsInv, Typed
  <1>9. NothingDangles'
    BY <1>1, <1>2, <1>5, <1>7 DEF WindowsInv, NothingDangles
  <1>10. NobodyGone'
    BY <1>1, <1>2, <1>7 DEF WindowsInv, NobodyGone
  <1> QED
    BY <1>2, <1>8, <1>9, <1>10 DEF WindowsInv, Tells

LEMMA SelectInputStep ==
  ASSUME WindowsInv, NEW c \in Client, NEW redirect \in BOOLEAN, SelectInput(c, redirect)
  PROVE  WindowsInv' /\ Tells
PROOF
  <1>1. /\ c \in connected /\ t' = Tree
        /\ UNCHANGED <<halfMade, saveSet, selection, grabber, connected, leaving>>
    BY DEF SelectInput, Serve
  <1>2. Sound(t') /\ Live(t') = Live(t) /\ t'.focus = t.focus
    BY <1>1, SameTree
  <1>3. /\ listener' \in [Client -> {"none", "redirect", "stale"}]
        /\ \A d \in Client : d # c => listener'[d] = listener[d]
    BY DEF SelectInput, WindowsInv, Typed
  <1>4. Typed'
    BY <1>1, <1>3 DEF WindowsInv, Typed
  <1>5. NothingDangles'
    BY <1>1, <1>2 DEF WindowsInv, NothingDangles
  <1>6. NobodyGone'
    BY <1>1, <1>2, <1>3 DEF WindowsInv, NobodyGone
  <1> QED
    BY <1>2, <1>4, <1>5, <1>6 DEF WindowsInv, Tells

LEMMA SetSelectionOwnerStep ==
  ASSUME WindowsInv, NEW c \in Client, NEW w, SetSelectionOwner(c, w)
  PROVE  WindowsInv' /\ Tells
PROOF
  <1> USE WindowsAssumption
  <1>1. /\ c \in connected /\ t' = Tree /\ w \in Live(t) \cup {NoWindow}
        /\ selection' = IF w = NoWindow THEN NoSelection ELSE [owner |-> w, client |-> c]
        /\ UNCHANGED <<halfMade, saveSet, listener, grabber, connected, leaving>>
    BY DEF SetSelectionOwner, Serve
  <1>2. Sound(t') /\ Live(t') = Live(t) /\ t'.focus = t.focus
    BY <1>1, SameTree
  <1>3. Live(t) \subseteq Win
    BY DEF Live
  <1>4. Typed'
    BY <1>1, <1>3 DEF WindowsInv, Typed, NoSelection
  <1>5. NothingDangles'
    BY <1>1, <1>2 DEF WindowsInv, NothingDangles, NoSelection
  <1>6. NobodyGone'
    BY <1>1, <1>2 DEF WindowsInv, NobodyGone, NoSelection
  <1> QED
    BY <1>2, <1>4, <1>5, <1>6 DEF WindowsInv, Tells

LEMMA GrabServerStep ==
  ASSUME WindowsInv, NEW c \in Client, GrabServer(c) \/ UngrabServer(c)
  PROVE  WindowsInv' /\ Tells
PROOF
  <1>1. /\ c \in connected /\ t' = Tree /\ grabber' \in {c, None}
        /\ UNCHANGED <<halfMade, saveSet, listener, selection, connected, leaving>>
    BY DEF GrabServer, UngrabServer, Serve
  <1>2. Sound(t') /\ Live(t') = Live(t) /\ t'.focus = t.focus
    BY <1>1, SameTree
  <1>3. Typed'
    BY <1>1 DEF WindowsInv, Typed
  <1>4. NothingDangles'
    BY <1>1, <1>2 DEF WindowsInv, NothingDangles
  <1>5. NobodyGone'
    BY <1>1, <1>2 DEF WindowsInv, NobodyGone
  <1> QED
    BY <1>2, <1>3, <1>4, <1>5 DEF WindowsInv, Tells

LEMMA RemoveClientStep ==
  ASSUME WindowsInv, RemoveClient
  PROVE  WindowsInv' /\ Tells
PROOF
  <1>1. /\ t' = Tree /\ leaving' = None /\ grabber' = IF grabber = leaving THEN None ELSE grabber
        /\ UNCHANGED <<halfMade, saveSet, listener, selection, connected>>
    BY DEF RemoveClient
  <1>2. Sound(t') /\ Live(t') = Live(t) /\ t'.focus = t.focus
    BY <1>1, SameTree
  <1>3. Typed'
    BY <1>1 DEF WindowsInv, Typed
  <1>4. NothingDangles'
    BY <1>1, <1>2 DEF WindowsInv, NothingDangles
  <1>5. NobodyGone'
    BY <1>1, <1>2 DEF WindowsInv, NobodyGone
  <1> QED
    BY <1>2, <1>3, <1>4, <1>5 DEF WindowsInv, Tells

\* The trees of the end of a client: before, with its save set restored, and
\* with its windows destroyed.
LEMMA FreeResourcesShape ==
  ASSUME WindowsInv, NEW c \in Client, FreeResources(c), NEW u, u = Tree
  PROVE  /\ Sound(t') /\ Live(t') \subseteq Live(t) /\ Live(t) \ Live(t') \subseteq t'.hit
         /\ \A v \in Live(t') \ halfMade : Owner[v] # c
PROOF
  <1>1. Sound(u) /\ Live(u) = Live(t)
    BY TreeShape
  <1>2. PICK s : s = saveSet[c] /\ s \in Seq(Win) /\ ToSet(s) \subseteq Live(u)
    BY <1>1 DEF WindowsInv, Typed, NothingDangles
  <1>3. PICK r : r = RestoreSaveSet(u, c)
    OBVIOUS
  <1>4. Sound(r) /\ Live(r) = Live(u) /\ u.hit \subseteq r.hit
    <2>1. Len(s) \in 0..Len(s)
      BY <1>2
    <2>2. PICK h : Restores(u, c, s, h)
      BY <1>1, <1>2, RestoreSteps
    <2> QED
      BY <1>3, <2>1, <2>2 DEF Restores
  <1>5. PICK v : v = DestroyResources(r, c)
    OBVIOUS
  <1>6. /\ Sound(v) /\ Told(r, v) /\ Live(v) \subseteq Live(r)
        /\ \A x \in Live(v) \ halfMade : Owner[x] # c
    BY <1>4, <1>5, DestroyResourcesShape
  <1>7. t' = v
    BY <1>3, <1>5 DEF FreeResources
  <1> QED
    BY <1>1, <1>4, <1>6, <1>7 DEF Told

LEMMA FreeResourcesStep ==
  ASSUME WindowsInv, NEW c \in Client, FreeResources(c)
  PROVE  WindowsInv' /\ Tells
PROOF
  <1> USE WindowsAssumption
  <1>1. /\ Sound(t') /\ Live(t') \subseteq Live(t) /\ Live(t) \ Live(t') \subseteq t'.hit
        /\ \A v \in Live(t') \ halfMade : Owner[v] # c
    <2>1. PICK u : u = Tree
      OBVIOUS
    <2> QED
      BY <2>1, FreeResourcesShape
  <1>2. PICK gone, kept : /\ gone = Live(t) \ Live(t') /\ kept = ReleaseClientSelections(c)
    OBVIOUS
  <1>3. /\ leaving = None /\ c \in connected /\ halfMade' = halfMade \ gone
        /\ saveSet' = [d \in Client |-> IF d = c THEN <<>> ELSE Keep(saveSet[d], Win \ gone)]
        /\ selection' = IF kept.owner \in gone THEN NoSelection ELSE kept
        /\ listener' = [listener EXCEPT ![c] = "none"]
        /\ connected' = connected \ {c} /\ leaving' = c /\ grabber' = grabber
    BY <1>2 DEF FreeResources, FreeListeners
  <1>4. \A d \in Client : /\ saveSet'[d] \in Seq(Win) /\ ToSet(saveSet'[d]) \subseteq Live(t) \ gone
                          /\ d = c \/ saveSet[d] = <<>> => saveSet'[d] = <<>>
    <2>1. <<>> \in Seq(Win) /\ ToSet(<<>>) = {}
      BY DEF ToSet
    <2> QED
      BY <1>3, <2>1, SaveSetKept
  <1>5. Live(t) \ gone = Live(t')
    BY <1>1, <1>2
  <1>6. /\ kept \in [owner : Win \cup {NoWindow}, client : Client \cup {None}]
        /\ kept.owner \in Win => kept.owner \in Live(t)
        /\ kept.client \in (connected \ {c}) \cup {None}
    BY <1>2 DEF ReleaseClientSelections, WindowsInv, Typed, NothingDangles, NobodyGone, NoSelection
  <1>7. Typed'
    <2>1. saveSet' \in [Client -> Seq(Win)]
      BY <1>3, <1>4
    <2>2. selection' \in [owner : Win \cup {NoWindow}, client : Client \cup {None}]
      BY <1>3, <1>6 DEF NoSelection
    <2> QED
      BY <1>3, <2>1, <2>2 DEF WindowsInv, Typed
  <1>8. NothingDangles'
    <2>1. selection'.owner \in Win => selection'.owner \in Live(t')
      BY <1>3, <1>5, <1>6 DEF NoSelection
    <2> QED
      BY <1>1, <1>4, <1>5, <2>1 DEF NothingDangles, Sound
  <1>9. NobodyGone'
    <2>1. selection'.client \in connected' \cup {None}
      BY <1>3, <1>6 DEF NoSelection
    <2>2. \A d \in Client \ connected' : listener'[d] = "none" /\ saveSet'[d] = <<>>
      BY <1>3, <1>4 DEF WindowsInv, NobodyGone, Typed
    <2>3. \A w \in Live(t') \ halfMade' : Owner[w] \in connected'
      BY <1>1, <1>2, <1>3 DEF WindowsInv, NobodyGone
    <2>4. grabber' \in connected' \cup {leaving', None}
      BY <1>3 DEF WindowsInv, NobodyGone
    <2> QED
      BY <2>1, <2>2, <2>3, <2>4 DEF NobodyGone
  <1> QED
    BY <1>1, <1>7, <1>8, <1>9 DEF WindowsInv, Tells

LEMMA NextHolds ==
  ASSUME WindowsInv, Next
  PROVE  WindowsInv' /\ Tells
PROOF
  <1>1. CASE \E c \in Client, w \in Win, p \in Win \cup {Root} :
               CreateWindow(c, w, p) \/ CreateWindowFails(c, w, p)
    BY <1>1, CreateWindowStep
  <1>2. CASE \E c \in Client, w \in Win, p \in Win \cup {Root} : ReparentWindow(c, w, p)
    BY <1>2, ReparentWindowStep
  <1>3. CASE \E c \in Client, w \in Win : MapWindow(c, w)
    BY <1>3, MapWindowStep
  <1>4. CASE \E c \in Client, w \in Win : UnmapWindow(c, w)
    BY <1>4, UnmapWindowStep
  <1>5. CASE \E c \in Client, w \in Win : DestroyWindow(c, w)
    BY <1>5, DestroyWindowStep
  <1>6. CASE \E c \in Client, w \in Win : ChangeSaveSet(c, w)
    BY <1>6, ChangeSaveSetStep
  <1>7. CASE \E c \in Client, w \in Win \cup {Root, NoWindow, PointerRoot},
                revertTo \in {NoWindow, PointerRoot, "Parent"} : SetInputFocus(c, w, revertTo)
    BY <1>7, SetInputFocusStep
  <1>8. CASE \E c \in Client, w \in Win \cup {NoWindow} : SetSelectionOwner(c, w)
    BY <1>8, SetSelectionOwnerStep
  <1>9. CASE \E c \in Client, redirect \in BOOLEAN : SelectInput(c, redirect)
    BY <1>9, SelectInputStep
  <1>10. CASE \E c \in Client : GrabServer(c) \/ UngrabServer(c)
    BY <1>10, GrabServerStep
  <1>11. CASE \E c \in Client : FreeResources(c)
    BY <1>11, FreeResourcesStep
  <1>12. CASE RemoveClient
    BY <1>12, RemoveClientStep
  <1> QED
    BY <1>1, <1>2, <1>3, <1>4, <1>5, <1>6, <1>7, <1>8, <1>9, <1>10, <1>11, <1>12 DEF Next

-----------------------------------------------------------------------------
(* The theorems.                                                            *)

THEOREM WindowsCorrect == Spec => []WindowsInv
PROOF
  <1>1. ASSUME WindowsInv, [Next]_windowVars PROVE WindowsInv'
    <2>1. CASE Next
      BY <1>1, <2>1, NextHolds
    <2>2. CASE UNCHANGED windowVars
      BY <1>1, <2>2 DEF windowVars, WindowsInv, Typed, NothingDangles, NobodyGone
    <2> QED
      BY <1>1, <2>1, <2>2
  <1> QED
    BY <1>1, InitHolds, PTL DEF Spec

LEMMA InvRooted == WindowsInv => TreeRooted
PROOF
  <1> USE WindowsAssumption
  <1> SUFFICES ASSUME WindowsInv, NEW w \in Live(t)
               PROVE  Root \in Above(t, w) /\ Above(t, w) \cap Win \subseteq Live(t)
    BY DEF TreeRooted
  <1>1. Root \in Above(t, w) /\ Above(t, w) \subseteq Live(t) \cup {Root}
    BY LiveAbove DEF WindowsInv, Sound
  <1> QED
    BY <1>1

(* TreeRooted: whatever is created, reparented and destroyed, by requests   *)
(* or by the end of a client, every window hangs below the root window.     *)
THEOREM TreeStaysRooted == Spec => []TreeRooted
BY WindowsCorrect, InvRooted, PTL

(* NothingDangles: the focus, the owner of the selection and the save sets  *)
(* are windows that exist, however destroyWindow reverts the focus.         *)
THEOREM NothingEverDangles == Spec => []NothingDangles
PROOF
  <1>1. WindowsInv => NothingDangles
    BY DEF WindowsInv
  <1> QED
    BY <1>1, WindowsCorrect, PTL

(* NobodyGone: freeResources and removeClient leave nothing of a client but *)
(* the windows its CreateWindow left half made.                             *)
THEOREM NothingIsLeftOfTheGone == Spec => []NobodyGone
PROOF
  <1>1. WindowsInv => NobodyGone
    BY DEF WindowsInv
  <1> QED
    BY <1>1, WindowsCorrect, PTL

-----------------------------------------------------------------------------
(* The save sets.                                                           *)

\* changeSaveSet takes the windows of other clients only.
SavedAreForeign == \A c \in Client : \A w \in ToSet(saveSet[c]) : Owner[w] # c

LEMMA SavedNext ==
  ASSUME WindowsInv, SavedAreForeign, [Next]_windowVars
  PROVE  SavedAreForeign'
PROOF
  <1>1. \A c \in Client : \A gone :
          ToSet(Keep(saveSet[c], Win \ gone)) \subseteq ToSet(saveSet[c])
    BY KeepProperties DEF WindowsInv, Typed
  <1>2. CASE UNCHANGED saveSet
    BY <1>2 DEF SavedAreForeign
  <1>3. CASE \E c \in Client, w \in Win : DestroyWindow(c, w)
    <2>1. PICK gone : saveSet' = [d \in Client |-> Keep(saveSet[d], Win \ gone)]
      BY <1>3 DEF DestroyWindow, After
    <2> QED
      BY <1>1, <2>1 DEF SavedAreForeign
  <1>4. CASE \E c \in Client, w \in Win : ChangeSaveSet(c, w)
    <2>1. PICK c \in Client, w \in Win : ChangeSaveSet(c, w)
      BY <1>4
    <2>2. PICK s : s = saveSet[c] /\ s \in Seq(Win)
      BY DEF WindowsInv, Typed
    <2>3. PICK r : r = IF w \in ToSet(s) THEN Keep(s, Win \ {w}) ELSE Append(s, w)
      OBVIOUS
    <2>4. ToSet(r) \subseteq ToSet(s) \cup {w}
      BY <2>2, <2>3, KeepProperties, AppendSet
    <2>5. saveSet' = [saveSet EXCEPT ![c] = r] /\ Owner[w] # c
      BY <2>1, <2>2, <2>3 DEF ChangeSaveSet
    <2>6. \A d \in Client : saveSet'[d] = IF d = c THEN r ELSE saveSet[d]
      BY <2>5 DEF WindowsInv, Typed
    <2> QED
      BY <2>2, <2>4, <2>5, <2>6 DEF SavedAreForeign
  <1>5. CASE \E c \in Client : FreeResources(c)
    <2>1. PICK c \in Client : FreeResources(c)
      BY <1>5
    <2>3. PICK gone : gone = Live(t) \ Live(DestroyResources(RestoreSaveSet(Tree, c), c))
      OBVIOUS
    <2>4. saveSet' = [d \in Client |-> IF d = c THEN <<>> ELSE Keep(saveSet[d], Win \ gone)]
      BY <2>1, <2>3 DEF FreeResources
    <2>2. ToSet(<<>>) = {}
      BY DEF ToSet
    <2> QED
      BY <1>1, <2>2, <2>4 DEF SavedAreForeign
  <1>6. \/ UNCHANGED saveSet
        \/ \E c \in Client, w \in Win : DestroyWindow(c, w)
        \/ \E c \in Client, w \in Win : ChangeSaveSet(c, w)
        \/ \E c \in Client : FreeResources(c)
    BY DEF Next, windowVars, CreateWindow, CreateWindowFails, ReparentWindow, MapWindow, UnmapWindow,
           SetInputFocus, SetSelectionOwner, SelectInput, GrabServer, UngrabServer, RemoveClient
  <1> QED
    BY <1>2, <1>3, <1>4, <1>5, <1>6

\* Nothing of c above x, and nothing of c above what is not c's above x.
Free(tree, c, x) == \A a \in Above(tree, x) \cap Win : Owner[a] # c
Lifts(tree, c, x) == \A a \in Above(tree, x) \cap Win : Owner[a] # c => Free(tree, c, a)

LEMMA FreeLifts ==
  ASSUME NEW tree, Parents(tree), NEW c, NEW w \in Win, Free(tree, c, w)
  PROVE  Lifts(tree, c, w)
BY AboveTransitive DEF Free, Lifts

\* A window that is restored is lifted out of all windows of c, and the
\* windows above it that are restored too stay where they are.
LEMMA RestoreLifts ==
  ASSUME NEW tree, Sound(tree), NEW c, NEW x \in Live(tree), Owner[x] # c,
         NEW w \in Live(tree), Lifts(tree, c, w), NEW u, u = RestoreWindow(tree, c, x)
  PROVE  /\ Lifts(u, c, w)
         /\ Free(tree, c, w) \/ x = w => Free(u, c, w)
         /\ x # w => u.parent[w] = tree.parent[w] /\ (w \in u.mapped <=> w \in tree.mapped)
PROOF
  <1>1. PICK p : p = ClosestForeign(tree, c, x)
    OBVIOUS
  <1>2. /\ p \in Above(tree, x) /\ p \in Live(tree) \cup {Root} /\ MayReparent(tree, x, p)
        /\ p \in Win => Owner[p] # c
        /\ \A b \in Above(tree, x) : (b \in Win => Owner[b] # c) => b = p \/ b \in Above(tree, p)
    BY <1>1, ForeignShape
  <1>3. /\ Sound(u) /\ Live(u) = Live(tree) /\ Moved(tree, u, x, p)
        /\ \A v \in Win : v # x => (v \in u.mapped <=> v \in tree.mapped)
    BY <1>1, RestoreWindowShape
  <1>4. w \in Win /\ x \in Win /\ Parents(tree) /\ Parents(u)
    BY <1>3 DEF Live, Sound, Rooted
  <1>5. u.parent[x] = p /\ \A v \in Win : v # x => u.parent[v] = tree.parent[v]
    BY <1>3 DEF Moved
  <1>6. \A v \in Win : v # x /\ x \notin Above(tree, v) => Above(u, v) = Above(tree, v)
    <2> SUFFICES ASSUME NEW v \in Win, v # x, x \notin Above(tree, v)
                 PROVE  Above(u, v) = Above(tree, v)
      OBVIOUS
    <2>1. u.parent[v] = tree.parent[v] /\ \A a \in Above(tree, v) \cap Win : u.parent[a] = tree.parent[a]
      BY <1>5
    <2> QED
      BY <1>4, <2>1, AboveAgrees
  <1>7. CASE x # w /\ x \notin Above(tree, w)
    <2>1. Above(u, w) = Above(tree, w)
      BY <1>4, <1>6, <1>7
    <2>2. ASSUME NEW a \in Above(tree, w) \cap Win PROVE Above(u, a) = Above(tree, a)
      <3>1. Above(tree, a) \subseteq Above(tree, w)
        BY <1>4, AboveTransitive
      <3> QED
        BY <1>6, <1>7, <3>1
    <2> QED
      BY <1>3, <1>4, <1>5, <1>7, <2>1, <2>2 DEF Free, Lifts
  <1>8. CASE x = w
    <2>1. x # p /\ x \notin Above(tree, p)
      BY <1>2 DEF MayReparent
    <2>2. Free(u, c, w)
      <3>1. CASE p \in Win
        <4>1. Above(u, p) = Above(tree, p)
          BY <1>6, <2>1, <3>1
        <4>2. Above(u, w) = {p} \cup Above(tree, p)
          BY <1>4, <1>5, <1>8, <3>1, <4>1, AboveStep
        <4>3. Free(tree, c, p)
          BY <1>2, <1>8, <3>1 DEF Lifts
        <4> QED
          BY <1>2, <4>2, <4>3 DEF Free
      <3>2. CASE p \notin Win
        <4>1. Above(u, w) = {p}
          BY <1>4, <1>5, <1>8, <3>2, AboveStep
        <4> QED
          BY <3>2, <4>1 DEF Free
      <3> QED
        BY <3>1, <3>2
    <2> QED
      BY <1>4, <1>8, <2>2, FreeLifts
  <1>9. CASE x # w /\ x \in Above(tree, w)
    <2>1. Free(tree, c, x)
      BY <1>4, <1>9 DEF Lifts
    <2>2. PICK b : b = tree.parent[x]
      OBVIOUS
    <2>3. b \in Above(tree, x) /\ (b \in Win => Owner[b] # c)
      BY <1>4, <2>1, <2>2, AboveFacts DEF Free
    <2>4. b = p
      <3> SUFFICES ASSUME b # p PROVE FALSE
        OBVIOUS
      <3>1. b \in Above(tree, p)
        BY <1>2, <2>3
      <3>2. b \in Win /\ p \in Above(tree, b)
        BY <1>2, <1>4, <2>2, AboveStep
      <3>3. CASE p = Root
        BY <3>1, <3>3, WindowsAssumption DEF Above
      <3>4. CASE p \in Live(tree)
        <4>1. Above(tree, p) \subseteq Above(tree, b)
          BY <1>4, <3>2, <3>4, AboveTransitive DEF Live
        <4>2. b \in Live(tree)
          BY <1>4, <2>3, <3>2, LiveAbove, WindowsAssumption DEF Sound
        <4> QED
          BY <3>1, <4>1, <4>2, LiveAbove DEF Sound
      <3> QED
        BY <1>2, <3>3, <3>4
    <2>5. u.parent[w] = tree.parent[w] /\ \A v \in Win : u.parent[v] = tree.parent[v]
      BY <1>4, <1>5, <2>2, <2>4
    <2>6. \A v \in Win : Above(u, v) = Above(tree, v)
      BY <1>4, <2>5, AboveAgrees
    <2> QED
      BY <1>3, <1>4, <1>9, <2>5, <2>6 DEF Free, Lifts
  <1> QED
    BY <1>7, <1>8, <1>9

LEMMA EndIsFreeing ==
  ASSUME [Next]_windowVars, NEW c \in Client, leaving' = c, leaving = None
  PROVE  FreeResources(c)
PROOF
  <1>1. leaving' # leaving /\ leaving' # None
    BY WindowsAssumption
  <1>2. Next
    BY <1>1 DEF windowVars
  <1>3. ~RemoveClient
    BY DEF RemoveClient
  <1>4. ASSUME NEW d \in Client, NEW w \in Win, NEW p \in Win \cup {Root}
        PROVE  ~(CreateWindow(d, w, p) \/ CreateWindowFails(d, w, p) \/ ReparentWindow(d, w, p))
    BY <1>1 DEF CreateWindow, CreateWindowFails, ReparentWindow
  <1>5. ASSUME NEW d \in Client, NEW w \in Win
        PROVE  ~(MapWindow(d, w) \/ UnmapWindow(d, w) \/ DestroyWindow(d, w) \/ ChangeSaveSet(d, w))
    BY <1>1 DEF MapWindow, UnmapWindow, DestroyWindow, ChangeSaveSet
  <1>6. ASSUME NEW d \in Client, NEW w, NEW r
        PROVE  ~(SetInputFocus(d, w, r) \/ SetSelectionOwner(d, w) \/ SelectInput(d, r))
    BY <1>1 DEF SetInputFocus, SetSelectionOwner, SelectInput
  <1>7. ASSUME NEW d \in Client PROVE ~(GrabServer(d) \/ UngrabServer(d))
    BY <1>1 DEF GrabServer, UngrabServer
  <1>8. PICK d \in Client : FreeResources(d)
    BY <1>2, <1>3, <1>4, <1>5, <1>6, <1>7 DEF Next
  <1>9. d = c
    BY <1>8 DEF FreeResources
  <1> QED
    BY <1>8, <1>9

\* A window of a save set that no frame of the client carries away.
LEMMA RestoredWindow ==
  ASSUME WindowsInv, SavedAreForeign, NEW c \in Client, FreeResources(c),
         NEW w \in ToSet(saveSet[c]), Lifts(t, c, w)
  PROVE  w \in Live(t') /\ (w \in t'.mapped \/ Redirected(t, w, c)')
PROOF
  <1>1. PICK u : u = Tree
    OBVIOUS
  <1>2. Sound(u) /\ Live(u) = Live(t) /\ \A x \in Win : Above(u, x) = Above(t, x)
    BY <1>1, TreeShape
  <1>3. PICK s : s = saveSet[c] /\ s \in Seq(Win) /\ ToSet(s) \subseteq Live(u)
    BY <1>2 DEF WindowsInv, Typed, NothingDangles
  <1>4. w \in Live(u) /\ w \in Win /\ Owner[w] # c /\ \A x \in ToSet(s) : Owner[x] # c
    BY <1>3 DEF SavedAreForeign, Live
  <1>5. PICK h : Restores(u, c, s, h)
    BY <1>2, <1>3, RestoreSteps
  <1>6. /\ RestoreSaveSet(u, c) = h[Len(s)] /\ h[0] = u
        /\ \A n \in 0..Len(s) : Sound(h[n]) /\ Live(h[n]) = Live(u)
        /\ \A n \in 1..Len(s) : h[n] = RestoreWindow(h[n-1], c, s[n])
    BY <1>5 DEF Restores
  <1>7. PICK N \in Nat : N = Len(s)
    BY <1>3
  <1>8. \A n \in 1..N : s[n] \in Live(u) /\ Owner[s[n]] # c
    BY <1>3, <1>4, <1>7 DEF ToSet
  <1>9. Lifts(u, c, w)
    <2>1. Above(u, w) = Above(t, w)
      BY <1>2, <1>4
    <2> QED
      BY <1>2, <2>1 DEF Lifts, Free
  <1> DEFINE Shown(tr) == w \in tr.mapped \/ Redirected(tr, w, c)
             Done(n) == /\ Lifts(h[n], c, w)
                        /\ (\E i \in 1..n : s[i] = w) => Free(h[n], c, w) /\ Shown(h[n])
             S == {n \in 0..N : Done(n)}
  <1>10. 0 \in S
    <2>1. Done(0)
      BY <1>6, <1>9
    <2> HIDE DEF Done
    <2> QED
      BY <1>7, <2>1
  <1>11. ASSUME NEW n \in 0..N-1, n \in S PROVE n + 1 \in S
    <2>1. /\ n + 1 \in 1..N /\ n + 1 \in 0..N /\ n \in 0..N /\ n + 1 - 1 = n
          /\ \A i \in 1..n+1 : i = n + 1 \/ i \in 1..n
      BY <1>7
    <2>2. PICK tr, v, x : tr = h[n] /\ v = h[n+1] /\ x = s[n+1]
      OBVIOUS
    <2>3. Sound(tr) /\ Live(tr) = Live(u) /\ v = RestoreWindow(tr, c, x)
      BY <1>6, <1>7, <2>1, <2>2
    <2>4. x \in Live(tr) /\ w \in Live(tr) /\ Owner[x] # c
      BY <1>4, <1>8, <2>1, <2>2, <2>3
    <2>5. Done(n)
      BY <1>11
    <2>6. Lifts(tr, c, w)
      BY <2>2, <2>5
    <2>7. /\ Lifts(v, c, w)
          /\ Free(tr, c, w) \/ x = w => Free(v, c, w)
          /\ x # w => v.parent[w] = tr.parent[w] /\ (w \in v.mapped <=> w \in tr.mapped)
      BY <2>3, <2>4, <2>6, RestoreLifts
    <2>8. x = w => Shown(v)
      BY <2>3, <2>4, RestoreWindowShape
    <2>9. x # w /\ Shown(tr) => Shown(v)
      BY <2>7 DEF Redirected
    <2>10. ASSUME NEW i \in 1..n+1, s[i] = w PROVE Free(v, c, w) /\ Shown(v)
      <3>1. CASE i = n + 1
        BY <2>2, <2>7, <2>8, <2>10, <3>1
      <3>2. CASE i \in 1..n /\ x # w
        <4>1. Free(tr, c, w) /\ Shown(tr)
          BY <2>2, <2>5, <2>10, <3>2
        <4> QED
          BY <2>7, <2>9, <3>2, <4>1
      <3>3. CASE x = w
        BY <2>7, <2>8, <3>3
      <3> QED
        BY <2>1, <3>1, <3>2, <3>3
    <2> HIDE DEF Shown
    <2>11. Done(n+1)
      BY <2>2, <2>7, <2>10
    <2> HIDE DEF Done
    <2> QED
      BY <2>1, <2>11
  <1>12. N \in S
    <2>1. \A n \in 0..N : n \in S
      <3> HIDE DEF S
      <3> QED
        BY <1>7, <1>10, <1>11, CountUp, Zenon
    <2> QED
      BY <1>7, <2>1
  <1>13. PICK r : r = h[N] /\ Free(r, c, w) /\ Shown(r)
    <2>1. \E i \in 1..N : s[i] = w
      BY <1>3, <1>7 DEF ToSet
    <2> QED
      BY <1>12, <2>1
  <1>14. Sound(r) /\ Live(r) = Live(u) /\ r = RestoreSaveSet(u, c)
    BY <1>6, <1>7, <1>13
  <1>15. PICK v : v = DestroyResources(r, c)
    OBVIOUS
  <1>16. /\ \A x \in Live(v) : v.parent[x] = r.parent[x] /\ (x \in v.mapped <=> x \in r.mapped)
         /\ \A x \in Live(r) \ Live(v) :
              \E f \in Live(r) \ halfMade : Owner[f] = c /\ (x = f \/ f \in Above(r, x))
    BY <1>14, <1>15, DestroyResourcesShape
  <1>17. w \in Live(v)
    <2> SUFFICES ASSUME w \notin Live(v) PROVE FALSE
      OBVIOUS
    <2>1. PICK f \in Live(r) : Owner[f] = c /\ (w = f \/ f \in Above(r, w))
      BY <1>4, <1>14, <1>16
    <2>2. f \in Win
      BY DEF Live
    <2> QED
      BY <1>4, <1>13, <2>1, <2>2 DEF Free
  <1>18. t' = v /\ listener' = [listener EXCEPT ![c] = "none"]
    BY <1>1, <1>14, <1>15 DEF FreeResources, FreeListeners
  <1>19. w \in v.mapped \/ (Redirected(r, w, c) /\ v.parent[w] = r.parent[w])
    BY <1>13, <1>16, <1>17
  <1>20. Redirected(r, w, c) /\ v.parent[w] = r.parent[w] => Redirected(t, w, c)'
    <2>1. \A d \in Client \ {c} : listener'[d] = listener[d]
      BY <1>18 DEF WindowsInv, Typed
    <2> QED
      BY <1>18, <2>1 DEF Redirected
  <1> QED
    BY <1>17, <1>18, <1>19, <1>20

LEMMA RestoredStep ==
  ASSUME WindowsInv, SavedAreForeign, [Next]_windowVars
  PROVE  \A c \in Client : leaving' = c /\ leaving = None =>
           \A w \in ToSet(saveSet[c]) :
             Carried(c, w) \/ (w \in Live(t)' /\ (w \in t'.mapped \/ Redirected(t, w, c)'))
PROOF
  <1> SUFFICES ASSUME NEW c \in Client, leaving' = c, leaving = None,
                      NEW w \in ToSet(saveSet[c]), ~Carried(c, w)
               PROVE  w \in Live(t)' /\ (w \in t'.mapped \/ Redirected(t, w, c)')
    OBVIOUS
  <1>1. FreeResources(c)
    BY EndIsFreeing
  <1>2. Lifts(t, c, w)
    BY DEF Carried, Lifts, Free
  <1>3. w \in Live(t') /\ (w \in t'.mapped \/ Redirected(t, w, c)')
    BY <1>1, <1>2, RestoredWindow
  <1> QED
    BY <1>3 DEF Live

LEMMA SavedInit == Init => SavedAreForeign
PROOF
  <1>1. ToSet(<<>>) = {}
    BY DEF ToSet
  <1> QED
    BY <1>1 DEF Init, SavedAreForeign

LEMMA SavedHolds == Spec => []SavedAreForeign
PROOF
  <1>1. WindowsInv /\ SavedAreForeign /\ [Next]_windowVars => SavedAreForeign'
    BY SavedNext
  <1> QED
    BY <1>1, SavedInit, WindowsCorrect, PTL DEF Spec

(* SaveSetRestored: restoreSaveSet brings back every window of the save set *)
(* but those in the windows of others within frames of the client, however  *)
(* the saved windows were nested, and freeResources spares them.            *)
THEOREM SavedWindowsSurvive == Spec => SaveSetRestored
PROOF
  <1>1. WindowsInv /\ SavedAreForeign /\ [Next]_windowVars =>
          [\A c \in Client : leaving' = c /\ leaving = None =>
             \A w \in ToSet(saveSet[c]) :
               Carried(c, w) \/ (w \in Live(t)' /\ (w \in t'.mapped \/ Redirected(t, w, c)'))]_windowVars
    BY RestoredStep
  <1> QED
    BY <1>1, WindowsCorrect, SavedHolds, PTL DEF Spec, SaveSetRestored

-----------------------------------------------------------------------------
(* Windows along a path to the root window.                                 *)

LEMMA ChainFacts ==
  ASSUME WindowsInv, NEW x
  PROVE  /\ Chain(x) \subseteq Live(t) \cup {Root} /\ Chain(x) # {}
         /\ Chain(x) \cap Win \subseteq Live(t)
         /\ \A ws : ws \subseteq Chain(x) /\ ws # {} => Deepest(ws) \in ws
PROOF
  <1>1. Rooted(t) /\ Root \notin Win /\ Live(t) \subseteq Win /\ Chain(Root) = {Root}
    BY WindowsAssumption DEF WindowsInv, Sound, Live, Chain
  <1>2. Chain(x) \subseteq Live(t) \cup {Root} /\ Chain(x) # {}
    BY <1>1, LiveAbove DEF Chain
  <1>3. ASSUME NEW ws, ws \subseteq Chain(x), ws # {}
        PROVE  \E w \in ws : ws \subseteq Chain(w)
    <2>1. CASE x \notin Live(t) \/ x \in ws
      BY <1>1, <1>3, <2>1 DEF Chain
    <2>2. CASE x \in Live(t) /\ x \notin ws
      <3>1. ws \subseteq Above(t, x)
        BY <1>3, <2>2 DEF Chain
      <3>2. PICK a \in ws : \A b \in ws : b = a \/ b \in Above(t, a)
        BY <1>1, <1>3, <2>2, <3>1, Nearest
      <3>3. CASE a \in Live(t)
        BY <3>2, <3>3 DEF Chain
      <3>4. CASE a = Root
        <4>1. Above(t, Root) = {}
          BY DEF Above
        <4> QED
          BY <1>1, <3>2, <3>4, <4>1
      <3> QED
        BY <1>2, <1>3, <3>3, <3>4
    <2> QED
      BY <2>1, <2>2
  <1>4. \A ws : ws \subseteq Chain(x) /\ ws # {} => Deepest(ws) \in ws
    BY <1>3 DEF Deepest
  <1> QED
    BY <1>1, <1>2, <1>4

-----------------------------------------------------------------------------
(* Grabs as values.                                                         *)

PointerGrab == [window : Win \cup {NoWindow}, client : Client \cup {None}, sync : BOOLEAN,
                auto : BOOLEAN, confine : Win \cup {NoWindow}, frozen : BOOLEAN]
ButtonGrab == [window : Win, client : Client, button : Button \cup {AnyButton},
               sync : BOOLEAN, confine : Win \cup {NoWindow}]
KeyboardGrab == [window : Win \cup {NoWindow}, client : Client \cup {None}, key : Key \cup {None}]
KeyGrab == [window : Win, client : Client]

\* A grab that is of somebody, and on a window.
Alive(g) == g.window \in Live(t) /\ g.client \in Client \cap (connected \cup {leaving})
Real(g) == g.window # NoWindow => Alive(g)

\* What a pointer grab is while the buttons `down' are pressed.
PointerOk(g, down) ==
  /\ g \in PointerGrab /\ Real(g)
  /\ g.sync => g.auto /\ g.window # NoWindow /\ g.client \in Xi
  /\ g.frozen => g.window # NoWindow
  /\ g.auto /\ "SetRelativeMouseMovement" \notin session.ops => down # {} \/ g.frozen

PassiveOk ==
  /\ passive \in Seq(ButtonGrab) /\ passiveKeys \subseteq KeyGrab
  /\ \A p \in ToSet(passive) \cup passiveKeys : Alive(p)

KeyboardOk == /\ kg \in KeyboardGrab /\ Real(kg)
              /\ kg.key # None => keys # {}

GrabsInv ==
  /\ WindowsInv
  /\ PointerOk(pg, buttons) /\ PassiveOk /\ KeyboardOk
  /\ relative => "SetRelativeMouseMovement" \in session.ops
  /\ session \in Sessions

LEMMA NoGrabs ==
  /\ \A down : PointerOk(NoPointerGrab, down)
  /\ NoKeyboardGrab \in KeyboardGrab /\ Real(NoKeyboardGrab) /\ NoKeyboardGrab.key = None
BY DEF PointerOk, NoPointerGrab, NoKeyboardGrab, PointerGrab, KeyboardGrab, Real

\* The grab of a press by a window that selects it.
LEMMA ImplicitShape ==
  ASSUME WindowsInv, GrabsAssumption, NEW g \in PointerGrab, Real(g), NEW u, u = ActivateImplicit(g)
  PROVE  /\ u \in PointerGrab /\ Real(u) /\ u.frozen = g.frozen /\ u.sync = g.sync
         /\ u = g \/ (g.window = NoWindow /\ u.window # NoWindow /\ u.auto)
PROOF
  <1>1. PICK ws : ws = Chain(PointWindow) \cap (Selects \ halfMade)
    OBVIOUS
  <1>2. PICK w : w = Deepest(ws)
    OBVIOUS
  <1>3. u = IF g.window # NoWindow \/ ws = {} THEN g
            ELSE [g EXCEPT !.window = w, !.client = Owner[w], !.auto = TRUE]
    BY <1>1, <1>2 DEF ActivateImplicit
  <1>4. CASE g.window # NoWindow \/ ws = {}
    BY <1>3, <1>4
  <1>5. CASE g.window = NoWindow /\ ws # {}
    <2>1. w \in ws
      BY <1>1, <1>2, <1>5, ChainFacts
    <2>2. w \in Live(t) \ halfMade /\ w \in Win /\ w # NoWindow
      BY <1>1, <2>1, ChainFacts, WindowsAssumption DEF GrabsAssumption
    <2>3. Owner[w] \in Client \cap connected
      BY <2>2, WindowsAssumption DEF WindowsInv, NobodyGone
    <2>4. u = [g EXCEPT !.window = w, !.client = Owner[w], !.auto = TRUE]
      BY <1>3, <1>5
    <2>5. /\ u \in PointerGrab /\ u.window = w /\ u.client = Owner[w] /\ u.auto
          /\ u.frozen = g.frozen /\ u.sync = g.sync
      BY <2>2, <2>3, <2>4 DEF PointerGrab
    <2> QED
      BY <1>5, <2>2, <2>3, <2>5 DEF Real, Alive
  <1> QED
    BY <1>4, <1>5

\* The grab of a press that somebody has asked for beforehand.
LEMMA PassiveShape ==
  ASSUME WindowsInv, PassiveOk, NEW g \in PointerGrab, Real(g), NEW b,
         NEW u, u = ActivatePassiveButtonGrab(g, b)
  PROVE  /\ u \in PointerGrab /\ Real(u) /\ u.frozen = g.frozen
         /\ u = g \/ (g.window = NoWindow /\ u.window # NoWindow /\ u.auto)
PROOF
  <1>1. PICK fits : fits = {p \in ToSet(passive) : p.button \in {b, AnyButton}
                                                     /\ p.window \in Chain(PointWindow)}
    OBVIOUS
  <1>2. PICK ws : ws = {p.window : p \in fits}
    OBVIOUS
  <1>3. PICK w : w = Deepest(ws)
    OBVIOUS
  <1>4. PICK s : s = Keep(passive, {p \in fits : p.window = w})
    OBVIOUS
  <1>5. PICK q : q = Head(s)
    OBVIOUS
  <1>6. u = IF g.window # NoWindow \/ fits = {} THEN g
            ELSE [g EXCEPT !.window = w, !.client = q.client, !.sync = q.sync,
                           !.auto = TRUE, !.confine = Confined(q.confine)]
    BY <1>1, <1>2, <1>3, <1>4, <1>5 DEF ActivatePassiveButtonGrab
  <1>7. CASE g.window # NoWindow \/ fits = {}
    BY <1>6, <1>7
  <1>8. CASE g.window = NoWindow /\ fits # {}
    <2>1. w \in ws
      <3>1. ws \subseteq Chain(PointWindow) /\ ws # {}
        BY <1>1, <1>2, <1>8
      <3> QED
        BY <1>3, <3>1, ChainFacts
    <2>2. s \in Seq(ButtonGrab) /\ ToSet(s) = ToSet(passive) \cap {p \in fits : p.window = w}
      BY <1>4, KeepProperties DEF PassiveOk
    <2>3. PICK p \in ToSet(s) : TRUE
      BY <1>1, <1>2, <2>1, <2>2
    <2>4. q \in ToSet(s)
      <3>1. 1 \in DOMAIN s /\ q = s[1]
        BY <1>5, <2>2, <2>3 DEF ToSet
      <3> QED
        BY <3>1 DEF ToSet
    <2>5. q \in ButtonGrab /\ q.window = w /\ Alive(q)
      <3>1. q \in ToSet(passive) /\ q.window = w
        BY <2>2, <2>4
      <3>2. q \in ButtonGrab
        BY <2>2, <2>4 DEF ToSet
      <3> QED
        BY <3>1, <3>2 DEF PassiveOk
    <2>6. Confined(q.confine) \in Win \cup {NoWindow}
      BY <2>5 DEF Confined, ButtonGrab
    <2>7. u = [g EXCEPT !.window = w, !.client = q.client, !.sync = q.sync,
                        !.auto = TRUE, !.confine = Confined(q.confine)]
      BY <1>6, <1>8
    <2>8. PICK cf \in Win \cup {NoWindow} : cf = Confined(q.confine)
      BY <2>6
    <2>9. q.window \in Win /\ q.client \in Client /\ q.sync \in BOOLEAN
      BY <2>5 DEF ButtonGrab
    <2>10. /\ u \in PointerGrab /\ u.window = w /\ u.client = q.client /\ u.auto
           /\ u.frozen = g.frozen
      BY <2>5, <2>7, <2>8, <2>9 DEF PointerGrab
    <2> QED
      BY <1>8, <2>5, <2>9, <2>10, WindowsAssumption DEF Real, Alive
  <1> QED
    BY <1>7, <1>8

\* Held back releases let go.
LEMMA FlushShape ==
  ASSUME NEW g \in PointerGrab, Real(g), ~g.sync, NEW down,
         g.auto /\ "SetRelativeMouseMovement" \notin session.ops => down # {} \/ g.frozen
  PROVE  PointerOk(FlushFrozen(g, down), down) /\ ~FlushFrozen(g, down).sync
PROOF
  <1>1. PICK h : h = [g EXCEPT !.frozen = FALSE]
    OBVIOUS
  <1>2. /\ h \in PointerGrab /\ h.window = g.window /\ h.client = g.client
        /\ h.sync = g.sync /\ h.auto = g.auto /\ ~h.frozen
    BY <1>1 DEF PointerGrab
  <1>3. FlushFrozen(g, down) = IF g.frozen THEN DeliverButtonRelease(h, down) ELSE g
    BY <1>1 DEF FlushFrozen
  <1>4. CASE ~g.frozen
    BY <1>3, <1>4 DEF PointerOk
  <1>5. CASE g.frozen /\ down = {} /\ h.auto
    <2>1. FlushFrozen(g, down) = NoPointerGrab
      BY <1>3, <1>5 DEF DeliverButtonRelease, DeactivatePointerGrab
    <2>2. PointerOk(NoPointerGrab, down) /\ ~NoPointerGrab.sync
      <3>1. ~NoPointerGrab.sync
        BY DEF NoPointerGrab
      <3> QED
        BY <3>1, NoGrabs
    <2> QED
      BY <2>1, <2>2
  <1>6. CASE g.frozen /\ ~(down = {} /\ h.auto)
    <2>1. FlushFrozen(g, down) = h
      BY <1>3, <1>6 DEF DeliverButtonRelease
    <2> QED
      BY <1>2, <1>6, <2>1 DEF PointerOk, Real, Alive
  <1> QED
    BY <1>2, <1>4, <1>5, <1>6 DEF PointerGrab

\* The press again, for those below the grab.
LEMMA ReplayShape ==
  ASSUME WindowsInv, GrabsAssumption, NEW g \in PointerGrab, NEW down,
         "SetRelativeMouseMovement" \notin session.ops => down # {} \/ g.frozen
  PROVE  PointerOk(ReplayButtonPress(g, down), down)
PROOF
  <1>1. PICK h : h = DeactivateForReplay(g)
    OBVIOUS
  <1>2. h \in PointerGrab /\ Real(h) /\ h.frozen = g.frozen /\ ~h.sync
    BY <1>1 DEF DeactivateForReplay, NoPointerGrab, PointerGrab, Real
  <1>3. PICK u : u = ActivateImplicit(h)
    OBVIOUS
  <1>4. u \in PointerGrab /\ Real(u) /\ u.frozen = h.frozen /\ u.sync = h.sync
    BY <1>2, <1>3, ImplicitShape
  <1>5. PointerOk(FlushFrozen(u, down), down)
    BY <1>2, <1>4, FlushShape
  <1> QED
    BY <1>1, <1>3, <1>5 DEF ReplayButtonPress

-----------------------------------------------------------------------------
(* The steps of XWindows, and GrabManager's listeners for them.             *)

\* A client is removed in two steps; no other step loses one.
LEMMA Departures ==
  ASSUME WindowsInv, Next
  PROVE  /\ session' = session
         /\ \/ /\ leaving \in Client /\ leaving' = None
               /\ Live(t') = Live(t) /\ connected' = connected
            \/ leaving = None /\ leaving' \in Client /\ connected' \cup {leaving'} = connected
            \/ leaving = None /\ leaving' = None /\ connected' = connected
PROOF
  <1>1. leaving \in Client \cup {None} /\ None \notin Client
    BY WindowsAssumption DEF WindowsInv, Typed
  <1>2. CASE RemoveClient
    <2>1. PICK u : u = Tree
      OBVIOUS
    <2>2. Live(u) = Live(t) /\ t' = u
      BY <1>2, <2>1, TreeShape DEF RemoveClient
    <2> QED
      BY <1>1, <1>2, <2>2 DEF RemoveClient
  <1>3. ASSUME NEW c \in Client, FreeResources(c)
        PROVE  session' = session /\ leaving = None /\ leaving' \in Client
               /\ connected' \cup {leaving'} = connected
    BY <1>3 DEF FreeResources
  <1> DEFINE Stays == session' = session /\ leaving = None /\ leaving' = None /\ connected' = connected
  <1>4. ASSUME NEW c \in Client, NEW w \in Win, NEW p \in Win \cup {Root},
               CreateWindow(c, w, p) \/ CreateWindowFails(c, w, p) \/ ReparentWindow(c, w, p)
        PROVE  Stays
    BY <1>4 DEF CreateWindow, CreateWindowFails, ReparentWindow, Serve
  <1>5. ASSUME NEW c \in Client, NEW w \in Win,
               MapWindow(c, w) \/ UnmapWindow(c, w) \/ DestroyWindow(c, w) \/ ChangeSaveSet(c, w)
        PROVE  Stays
    BY <1>5 DEF MapWindow, UnmapWindow, DestroyWindow, ChangeSaveSet, Serve
  <1>6. ASSUME NEW c \in Client, NEW w, NEW r,
               SetInputFocus(c, w, r) \/ SetSelectionOwner(c, w) \/ SelectInput(c, r)
        PROVE  Stays
    BY <1>6 DEF SetInputFocus, SetSelectionOwner, SelectInput, Serve
  <1>7. ASSUME NEW c \in Client, GrabServer(c) \/ UngrabServer(c) PROVE Stays
    BY <1>7 DEF GrabServer, UngrabServer, Serve
  <1> HIDE DEF Stays
  <1>8. \/ RemoveClient
        \/ \E c \in Client : FreeResources(c)
        \/ Stays
    BY <1>4, <1>5, <1>6, <1>7 DEF Next
  <1> QED
    BY <1>2, <1>3, <1>8 DEF Stays

\* Of a grab that no window takes along.
LEMMA GrabOutlives ==
  ASSUME WindowsInv, Next, ~(leaving' # leaving /\ leaving' = None),
         NEW g, Alive(g), g.window \in Live(t')
  PROVE  Alive(g)'
PROOF
  <1>1. connected \cup {leaving} \subseteq connected' \cup {leaving', None}
    BY Departures, WindowsAssumption
  <1>2. g.window \in Live(t)'
    BY DEF Live
  <1> QED
    BY <1>1, <1>2, WindowsAssumption DEF Alive

LEMMA HitStep ==
  ASSUME GrabsInv, Next, ~(leaving' # leaving /\ leaving' = None), OnUnmapOrFree,
         UNCHANGED <<buttons, keys, pos, relative>>
  PROVE  PointerOk(pg, buttons)' /\ PassiveOk' /\ KeyboardOk'
PROOF
  <1>1. /\ WindowsInv /\ PointerOk(pg, buttons) /\ PassiveOk /\ KeyboardOk
        /\ session' = session /\ Tells /\ Live(t) = {w \in Win : w \in Live(t)}
    BY NextHolds, Departures DEF GrabsInv, Live
  <1>2. PICK gone : gone = Live(t) \ Live(t')
    OBVIOUS
  <1>3. gone \subseteq t'.hit
    BY <1>1, <1>2 DEF Tells
  <1>4. /\ pg' = IF {pg.window, pg.confine} \cap t'.hit = {} THEN pg ELSE NoPointerGrab
        /\ kg' = IF kg.window \in t'.hit THEN NoKeyboardGrab ELSE kg
        /\ passive' = Keep(passive, {p \in ToSet(passive) : p.window \notin gone})
        /\ passiveKeys' = {k \in passiveKeys : k.window \notin gone}
    BY <1>2 DEF OnUnmapOrFree, OnFreePassive, DeactivatePointerGrab
  <1>5. PointerOk(pg, buttons)'
    <2>1. CASE pg' = NoPointerGrab
      BY <2>1 DEF PointerOk, NoPointerGrab, PointerGrab, Real
    <2>2. CASE pg' = pg /\ pg.window \notin t'.hit
      <3>1. Real(pg)'
        <4>1. CASE pg.window = NoWindow
          BY <2>2, <4>1 DEF Real
        <4>2. CASE pg.window # NoWindow
          <5>1. Alive(pg) /\ pg.window \in Live(t')
            BY <1>1, <1>2, <1>3, <2>2, <4>2 DEF PointerOk, Real, Alive
          <5>2. PICK g : g = pg
            OBVIOUS
          <5>3. Alive(g)'
            BY <1>1, <5>1, <5>2, GrabOutlives
          <5> QED
            BY <2>2, <5>2, <5>3 DEF Real, Alive
        <4> QED
          BY <4>1, <4>2
      <3> QED
        BY <1>1, <2>2, <3>1 DEF PointerOk
    <2> QED
      BY <1>4, <2>1, <2>2
  <1>6. KeyboardOk'
    <2>1. CASE kg' = NoKeyboardGrab
      BY <2>1 DEF KeyboardOk, NoKeyboardGrab, KeyboardGrab, Real
    <2>2. CASE kg' = kg /\ kg.window \notin t'.hit
      <3>1. Real(kg)'
        <4>1. CASE kg.window = NoWindow
          BY <2>2, <4>1 DEF Real
        <4>2. CASE kg.window # NoWindow
          <5>1. Alive(kg) /\ kg.window \in Live(t')
            BY <1>1, <1>2, <1>3, <2>2, <4>2 DEF KeyboardOk, Real, Alive
          <5>2. PICK g : g = kg
            OBVIOUS
          <5>3. Alive(g)'
            BY <1>1, <5>1, <5>2, GrabOutlives
          <5> QED
            BY <2>2, <5>2, <5>3 DEF Real, Alive
        <4> QED
          BY <4>1, <4>2
      <3> QED
        BY <1>1, <2>2, <3>1 DEF KeyboardOk
    <2> QED
      BY <1>4, <2>1, <2>2
  <1>7. PassiveOk'
    <2>1. passive \in Seq(ButtonGrab) /\ passiveKeys \subseteq KeyGrab
      BY <1>1 DEF PassiveOk
    <2>2. /\ passive' \in Seq(ButtonGrab)
          /\ ToSet(passive') = ToSet(passive) \cap {p \in ToSet(passive) : p.window \notin gone}
      BY <1>4, <2>1, KeepProperties
    <2>3. ASSUME NEW p \in ToSet(passive') \cup passiveKeys' PROVE Alive(p)'
      <3>1. p \in ToSet(passive) \cup passiveKeys /\ p.window \notin gone
        BY <1>4, <2>2
      <3>2. Alive(p) /\ p.window \in Live(t')
        BY <1>1, <1>2, <3>1 DEF PassiveOk, Alive
      <3> QED
        BY <1>1, <3>2, GrabOutlives
    <2> QED
      BY <1>4, <2>1, <2>2, <2>3 DEF PassiveOk
  <1> QED
    BY <1>5, <1>6, <1>7

LEMMA ReleaseStep ==
  ASSUME GrabsInv, Next, leaving' # leaving, leaving' = None, ReleaseGrabs(leaving),
         UNCHANGED <<buttons, keys, pos, relative>>
  PROVE  PointerOk(pg, buttons)' /\ PassiveOk' /\ KeyboardOk'
PROOF
  <1>1. /\ WindowsInv /\ PointerOk(pg, buttons) /\ PassiveOk /\ KeyboardOk
        /\ session' = session /\ Live(t') = Live(t) /\ connected' = connected
    BY Departures, WindowsAssumption DEF GrabsInv
  <1>2. ASSUME NEW g, Alive(g), g.client # leaving PROVE Alive(g)'
    <2>1. Live(t)' = Live(t)
      BY <1>1 DEF Live
    <2> QED
      BY <1>1, <1>2, <2>1 DEF Alive
  <1>3. /\ pg' = IF pg.client = leaving THEN NoPointerGrab ELSE pg
        /\ kg' = IF kg.client = leaving THEN NoKeyboardGrab ELSE kg
        /\ passive' = Keep(passive, {p \in ToSet(passive) : p.client # leaving})
        /\ passiveKeys' = {k \in passiveKeys : k.client # leaving}
    BY DEF ReleaseGrabs, DeactivatePointerGrab
  <1>4. PointerOk(pg, buttons)'
    <2>1. CASE pg' = NoPointerGrab
      BY <2>1 DEF PointerOk, NoPointerGrab, PointerGrab, Real
    <2>2. CASE pg' = pg /\ pg.client # leaving
      <3>1. PICK g : g = pg
        OBVIOUS
      <3>2. pg.window # NoWindow => Alive(g)'
        BY <1>1, <1>2, <2>2, <3>1 DEF PointerOk, Real
      <3>3. Real(pg)'
        BY <2>2, <3>1, <3>2 DEF Real, Alive
      <3> QED
        BY <1>1, <2>2, <3>3 DEF PointerOk
    <2> QED
      BY <1>3, <2>1, <2>2
  <1>5. KeyboardOk'
    <2>1. CASE kg' = NoKeyboardGrab
      BY <2>1 DEF KeyboardOk, NoKeyboardGrab, KeyboardGrab, Real
    <2>2. CASE kg' = kg /\ kg.client # leaving
      <3>1. PICK g : g = kg
        OBVIOUS
      <3>2. kg.window # NoWindow => Alive(g)'
        BY <1>1, <1>2, <2>2, <3>1 DEF KeyboardOk, Real
      <3>3. Real(kg)'
        BY <2>2, <3>1, <3>2 DEF Real, Alive
      <3> QED
        BY <1>1, <2>2, <3>3 DEF KeyboardOk
    <2> QED
      BY <1>3, <2>1, <2>2
  <1>6. PassiveOk'
    <2>1. passive \in Seq(ButtonGrab) /\ passiveKeys \subseteq KeyGrab
      BY <1>1 DEF PassiveOk
    <2>2. /\ passive' \in Seq(ButtonGrab)
          /\ ToSet(passive') = ToSet(passive) \cap {p \in ToSet(passive) : p.client # leaving}
      BY <1>3, <2>1, KeepProperties
    <2>3. ASSUME NEW p \in ToSet(passive') \cup passiveKeys' PROVE Alive(p)'
      <3>1. p \in ToSet(passive) \cup passiveKeys /\ p.client # leaving
        BY <1>3, <2>2
      <3> QED
        BY <1>1, <1>2, <3>1 DEF PassiveOk
    <2> QED
      BY <1>3, <2>1, <2>2, <2>3 DEF PassiveOk
  <1> QED
    BY <1>4, <1>5, <1>6

LEMMA WindowStepHolds ==
  ASSUME GrabsInv, WindowStep
  PROVE  GrabsInv'
PROOF
  <1>1. WindowsInv' /\ session' = session /\ relative' = relative
    BY NextHolds, Departures DEF GrabsInv, WindowStep
  <1>2. PointerOk(pg, buttons)' /\ PassiveOk' /\ KeyboardOk'
    BY HitStep, ReleaseStep DEF WindowStep
  <1> QED
    BY <1>1, <1>2 DEF GrabsInv

-----------------------------------------------------------------------------
(* The requests, and the input, which leave the windows alone.              *)

\* What one of them may change of the grabs.
LEMMA GrabsOnly ==
  ASSUME GrabsInv, UNCHANGED windowVars
  PROVE  /\ WindowsInv' /\ session' = session
         /\ \A g, down : PointerOk(g, down) => PointerOk(g, down)'
         /\ \A g : Real(g) => Real(g)'
         /\ \A g : Alive(g) => Alive(g)'
PROOF
  <1>1. /\ UNCHANGED <<session, t, halfMade, saveSet, listener, selection, grabber>>
        /\ UNCHANGED <<connected, leaving>>
    BY DEF windowVars
  <1>2. WindowsInv'
    BY DEF GrabsInv, windowVars, WindowsInv, Typed, NothingDangles, NobodyGone
  <1>3. Live(t)' = Live(t)
    BY <1>1 DEF Live
  <1> QED
    BY <1>1, <1>2, <1>3 DEF PointerOk, Real, Alive

LEMMA SamePassive == ASSUME GrabsInv, UNCHANGED <<windowVars, passive, passiveKeys>> PROVE PassiveOk'
PROOF
  <1>1. \A g : Alive(g) => Alive(g)'
    BY GrabsOnly
  <1> QED
    BY <1>1 DEF GrabsInv, PassiveOk

LEMMA SameKeyboard == ASSUME GrabsInv, UNCHANGED <<windowVars, kg, keys>> PROVE KeyboardOk'
PROOF
  <1>1. \A g : Real(g) => Real(g)'
    BY GrabsOnly
  <1>2. PICK g : g = kg /\ Real(g)
    BY DEF GrabsInv, KeyboardOk
  <1>3. Real(kg)'
    <2>1. Real(g)'
      BY <1>1, <1>2
    <2> QED
      BY <1>2, <2>1 DEF Real, Alive
  <1> QED
    BY <1>3 DEF GrabsInv, KeyboardOk

\* A step that changes the pointer grab only, and perhaps the buttons.
LEMMA PointerStep ==
  ASSUME GrabsInv, UNCHANGED <<windowVars, passive, passiveKeys, kg, keys>>,
         relative' => "SetRelativeMouseMovement" \in session.ops,
         NEW u, u = pg', NEW down, down = buttons', PointerOk(u, down)
  PROVE  GrabsInv'
PROOF
  <1>1. WindowsInv' /\ session' = session /\ PointerOk(u, down)'
    BY GrabsOnly
  <1>2. PointerOk(pg, buttons)'
    BY <1>1 DEF PointerOk, Real, Alive
  <1> QED
    BY <1>1, <1>2, SamePassive, SameKeyboard DEF GrabsInv

LEMMA SamePointer == ASSUME GrabsInv, UNCHANGED <<windowVars, pg, buttons>> PROVE PointerOk(pg, buttons)'
PROOF
  <1>1. PICK g, down : g = pg /\ down = buttons /\ PointerOk(g, down)
    BY DEF GrabsInv
  <1>2. PointerOk(g, down)'
    BY <1>1, GrabsOnly
  <1> QED
    BY <1>1, <1>2 DEF PointerOk, Real, Alive

LEMMA ServedIsConnected ==
  ASSUME NEW c, NEW op, GrabRequest(c, op)
  PROVE  c \in connected /\ UNCHANGED windowVars
BY DEF GrabRequest, Serve

LEMMA GrabPointerStep ==
  ASSUME GrabsInv, NEW c \in Client, NEW w \in Win, NEW cf \in Confining, GrabPointer(c, w, cf)
  PROVE  GrabsInv'
PROOF
  <1>1. c \in connected /\ UNCHANGED windowVars /\ w \in Live(t) /\ cf \in Win \cup {NoWindow}
    BY ServedIsConnected, WindowsAssumption DEF GrabPointer, GrabsInv, Confining
  <1>2. PointerOk(pg, buttons)
    BY DEF GrabsInv
  <1>3. PICK u : u = [pg EXCEPT !.window = w, !.client = c, !.sync = FALSE, !.auto = FALSE,
                                !.confine = cf]
    OBVIOUS
  <1>4. /\ u \in PointerGrab /\ u.window = w /\ u.client = c /\ ~u.sync /\ ~u.auto
        /\ w # NoWindow
    BY <1>1, <1>2, <1>3, WindowsAssumption DEF PointerOk, PointerGrab
  <1>5. PointerOk(u, buttons)
    BY <1>1, <1>4 DEF PointerOk, Real, Alive
  <1>6. /\ pg' = u /\ UNCHANGED <<passive, passiveKeys, kg, keys, buttons, relative>>
    BY <1>3 DEF GrabPointer, keyVars
  <1> QED
    BY <1>1, <1>5, <1>6, PointerStep DEF GrabsInv

LEMMA UngrabPointerStep ==
  ASSUME GrabsInv, NEW c \in Client, UngrabPointer(c)
  PROVE  GrabsInv'
PROOF
  <1>1. /\ UNCHANGED windowVars /\ pg' = NoPointerGrab
        /\ UNCHANGED <<passive, passiveKeys, kg, keys, buttons, relative>>
    BY ServedIsConnected DEF UngrabPointer, DeactivatePointerGrab, keyVars
  <1>2. PointerOk(NoPointerGrab, buttons)
    BY NoGrabs
  <1> QED
    BY <1>1, <1>2, PointerStep DEF GrabsInv

LEMMA AllowEventsStep ==
  ASSUME GrabsInv, GrabsAssumption, NEW c \in Client, NEW replay \in BOOLEAN, AllowEvents(c, replay)
  PROVE  GrabsInv'
PROOF
  <1>1. /\ UNCHANGED windowVars /\ WindowsInv /\ PointerOk(pg, buttons)
        /\ UNCHANGED <<passive, passiveKeys, kg, keys, buttons, relative>>
    BY ServedIsConnected DEF AllowEvents, keyVars, GrabsInv
  <1>2. PICK g : g = pg
    OBVIOUS
  <1>3. PointerOk(pg', buttons)
    <2>1. CASE replay /\ g.sync
      BY <1>1, <1>2, <2>1, ReplayShape DEF AllowEvents, PointerOk
    <2>2. CASE replay /\ ~g.sync
      BY <1>1, <1>2, <2>2 DEF AllowEvents
    <2>3. CASE ~replay
      <3>1. PICK h : h = [g EXCEPT !.sync = FALSE]
        OBVIOUS
      <3>2. /\ h \in PointerGrab /\ Real(h) /\ ~h.sync /\ h.auto = g.auto /\ h.frozen = g.frozen
        BY <1>1, <1>2, <3>1 DEF PointerOk, PointerGrab, Real, Alive
      <3>3. pg' = FlushFrozen(h, buttons)
        BY <1>2, <2>3, <3>1 DEF AllowEvents, Thaw
      <3> QED
        BY <1>1, <1>2, <3>2, <3>3, FlushShape DEF PointerOk
    <2> QED
      BY <2>1, <2>2, <2>3
  <1> QED
    BY <1>1, <1>3, PointerStep DEF GrabsInv

LEMMA PressButtonStep ==
  ASSUME GrabsInv, GrabsAssumption, NEW b \in Button, PressButton(b)
  PROVE  GrabsInv'
PROOF
  <1>1. /\ UNCHANGED windowVars /\ WindowsInv /\ PassiveOk /\ PointerOk(pg, buttons)
        /\ UNCHANGED <<passive, passiveKeys, kg, keys, relative>> /\ buttons' = buttons \cup {b}
    BY DEF PressButton, InputEvent, keyVars, GrabsInv
  <1>2. PICK g, down : g = pg /\ down = buttons' /\ down # {}
    BY <1>1
  <1>3. PointerOk(pg', down)
    <2>1. CASE relative
      BY <1>1, <1>2, <2>1 DEF PressButton, PointerOk
    <2>2. CASE ~relative
      <3>1. PICK h : h = ActivatePassiveButtonGrab(g, b)
        OBVIOUS
      <3>2. /\ h \in PointerGrab /\ Real(h) /\ h.frozen = g.frozen
            /\ h = g \/ (g.window = NoWindow /\ h.window # NoWindow /\ h.auto)
        BY <1>1, <1>2, <3>1, PassiveShape DEF PointerOk
      <3>3. PICK u : u = ActivateImplicit(h)
        OBVIOUS
      <3>4. /\ u \in PointerGrab /\ Real(u) /\ u.frozen = h.frozen /\ u.sync = h.sync
            /\ u = h \/ (h.window = NoWindow /\ u.window # NoWindow /\ u.auto)
        BY <1>1, <3>2, <3>3, ImplicitShape
      <3>5. pg' = CoreReplay(u, down)
        BY <1>2, <2>2, <3>1, <3>3 DEF PressButton
      <3>6. CASE u.sync /\ u.client \notin Xi
        <4>1. pg' = ReplayButtonPress(u, down)
          BY <3>5, <3>6 DEF CoreReplay
        <4> QED
          BY <1>1, <1>2, <3>4, <4>1, ReplayShape
      <3>7. CASE ~u.sync \/ u.client \in Xi
        <4>1. pg' = u
          BY <3>5, <3>7 DEF CoreReplay
        <4>2. /\ u.sync => u.auto /\ u.window # NoWindow
              /\ u.frozen => u.window # NoWindow
          BY <1>1, <1>2, <3>2, <3>4 DEF PointerOk
        <4> QED
          BY <1>2, <3>4, <3>7, <4>1, <4>2 DEF PointerOk
      <3> QED
        BY <3>6, <3>7
    <2> QED
      BY <2>1, <2>2
  <1> QED
    BY <1>1, <1>2, <1>3, PointerStep DEF GrabsInv

LEMMA ReleaseButtonStep ==
  ASSUME GrabsInv, NEW b \in Button, ReleaseButton(b)
  PROVE  GrabsInv'
PROOF
  <1>1. /\ UNCHANGED windowVars /\ PointerOk(pg, buttons)
        /\ relative => "SetRelativeMouseMovement" \in session.ops
        /\ UNCHANGED <<passive, passiveKeys, kg, keys, relative>>
    BY DEF ReleaseButton, InputEvent, keyVars, GrabsInv
  <1>2. PICK g, down : g = pg /\ down = buttons'
    OBVIOUS
  <1>3. PointerOk(pg', down)
    <2>1. CASE relative
      BY <1>1, <1>2, <2>1 DEF ReleaseButton, PointerOk
    <2>2. CASE ~relative /\ g.sync
      <3>1. PICK h : h = [g EXCEPT !.frozen = TRUE]
        OBVIOUS
      <3>2. /\ h \in PointerGrab /\ h.window = g.window /\ h.client = g.client
            /\ h.sync = g.sync /\ h.auto = g.auto /\ h.frozen
        BY <1>1, <1>2, <3>1 DEF PointerOk, PointerGrab
      <3>3. pg' = h
        BY <1>2, <2>2, <3>1 DEF ReleaseButton
      <3> QED
        BY <1>1, <1>2, <2>2, <3>2, <3>3 DEF PointerOk, Real, Alive
    <2>3. CASE ~relative /\ ~g.sync
      <3>1. pg' = DeliverButtonRelease(g, down)
        BY <1>2, <2>3 DEF ReleaseButton
      <3>2. CASE down = {} /\ g.auto
        BY <3>1, <3>2, NoGrabs DEF DeliverButtonRelease, DeactivatePointerGrab
      <3>3. CASE ~(down = {} /\ g.auto)
        BY <1>1, <1>2, <3>1, <3>3 DEF DeliverButtonRelease, PointerOk
      <3> QED
        BY <3>2, <3>3
    <2> QED
      BY <2>1, <2>2, <2>3
  <1> QED
    BY <1>1, <1>2, <1>3, PointerStep DEF GrabsInv

LEMMA MovementSteps ==
  ASSUME GrabsInv, SetRelativeMouseMovement \/ \E p \in Win \cup {Root} : MovePointer(p)
  PROVE  GrabsInv'
PROOF
  <1>1. /\ UNCHANGED windowVars /\ PointerOk(pg, buttons)
        /\ UNCHANGED <<pg, passive, passiveKeys, kg, keys, buttons>>
        /\ relative' => "SetRelativeMouseMovement" \in session.ops
    BY DEF MovePointer, SetRelativeMouseMovement, InputEvent, keyVars, GrabsInv
  <1> QED
    BY <1>1, PointerStep

\* A step that changes the passive button grabs only.
LEMMA PassiveStep ==
  ASSUME GrabsInv, UNCHANGED <<windowVars, pg, buttons, relative, passiveKeys, kg, keys>>,
         passive' \in Seq(ButtonGrab),
         \A p \in ToSet(passive') : p \in ToSet(passive) \/ Alive(p)
  PROVE  GrabsInv'
PROOF
  <1>1. WindowsInv' /\ session' = session /\ \A g : Alive(g) => Alive(g)'
    BY GrabsOnly
  <1>2. PassiveOk'
    <2>1. ASSUME NEW p \in ToSet(passive') \cup passiveKeys PROVE Alive(p)'
      <3>1. Alive(p)
        BY DEF GrabsInv, PassiveOk
      <3> QED
        BY <1>1, <3>1
    <2> QED
      BY <2>1 DEF GrabsInv, PassiveOk
  <1> QED
    BY <1>1, <1>2, SamePointer, SameKeyboard DEF GrabsInv

LEMMA GrabButtonStep ==
  ASSUME GrabsInv, NEW c \in Client, NEW w \in Win, NEW b \in Button \cup {AnyButton},
         NEW s \in BOOLEAN, NEW cf \in Confining, NEW p,
         p = [window |-> w, client |-> c, button |-> b, sync |-> s, confine |-> cf],
         GrabButton(c, p)
  PROVE  GrabsInv'
PROOF
  <1>1. cf \in Win \cup {NoWindow}
    BY WindowsAssumption DEF GrabsInv, Confining
  <1>2. p \in ButtonGrab /\ p.window = w /\ p.client = c
    BY <1>1 DEF ButtonGrab
  <1>3. /\ c \in connected /\ UNCHANGED windowVars /\ w \in Live(t)
        /\ UNCHANGED <<pg, buttons, relative, passiveKeys, kg, keys>>
    BY <1>2, ServedIsConnected DEF GrabButton, keyVars
  <1>4. PICK others : others = {q \in ToSet(passive) : ~(/\ q.client = c /\ q.window = p.window
                                                         /\ p.button \in {AnyButton, q.button})}
    OBVIOUS
  <1>5. PICK k : k = Keep(passive, others)
    OBVIOUS
  <1>6. k \in Seq(ButtonGrab) /\ ToSet(k) \subseteq ToSet(passive)
    BY <1>5, KeepProperties DEF GrabsInv, PassiveOk
  <1>7. passive' = Append(k, p)
    BY <1>4, <1>5 DEF GrabButton
  <1>8. passive' \in Seq(ButtonGrab) /\ ToSet(passive') = ToSet(k) \cup {p}
    BY <1>2, <1>6, <1>7, AppendSet
  <1>9. Alive(p)
    BY <1>2, <1>3 DEF Alive
  <1>10. \A q \in ToSet(passive') : q \in ToSet(passive) \/ Alive(q)
    BY <1>6, <1>8, <1>9
  <1> QED
    BY <1>3, <1>8, <1>10, PassiveStep

LEMMA UngrabButtonStep ==
  ASSUME GrabsInv, NEW c \in Client, NEW w \in Win, NEW b, UngrabButton(c, w, b)
  PROVE  GrabsInv'
PROOF
  <1>1. UNCHANGED <<windowVars, pg, buttons, relative, passiveKeys, kg, keys>>
    BY ServedIsConnected DEF UngrabButton, keyVars
  <1>2. PICK others : passive' = Keep(passive, others)
    BY DEF UngrabButton
  <1>3. passive' \in Seq(ButtonGrab) /\ ToSet(passive') \subseteq ToSet(passive)
    BY <1>2, KeepProperties DEF GrabsInv, PassiveOk
  <1> QED
    BY <1>1, <1>3, PassiveStep

\* A step that changes the keyboard's grabs only.
LEMMA KeyboardStep ==
  ASSUME GrabsInv, UNCHANGED <<windowVars, pg, buttons, relative, passive>>,
         passiveKeys' \subseteq KeyGrab, \A k \in passiveKeys' : Alive(k),
         NEW u, u = kg', u \in KeyboardGrab, Real(u), u.key # None => keys' # {}
  PROVE  GrabsInv'
PROOF
  <1>1. /\ WindowsInv' /\ session' = session
        /\ \A g : Alive(g) => Alive(g)'
        /\ \A g : Real(g) => Real(g)'
    BY GrabsOnly
  <1>2. KeyboardOk'
    <2>1. Real(kg)'
      BY <1>1 DEF Real, Alive
    <2> QED
      BY <2>1 DEF KeyboardOk
  <1>3. PassiveOk'
    <2>1. ASSUME NEW p \in ToSet(passive) \cup passiveKeys' PROVE Alive(p)'
      <3>1. Alive(p)
        BY DEF GrabsInv, PassiveOk
      <3> QED
        BY <1>1, <3>1
    <2> QED
      BY <2>1 DEF GrabsInv, PassiveOk
  <1> QED
    BY <1>1, <1>2, <1>3, SamePointer DEF GrabsInv

LEMMA GrabKeyboardStep ==
  ASSUME GrabsInv, NEW c \in Client, NEW w \in Win, GrabKeyboard(c, w)
  PROVE  GrabsInv'
PROOF
  <1>1. /\ c \in connected /\ w \in Live(t)
        /\ UNCHANGED <<windowVars, pg, buttons, relative, passive, passiveKeys>>
    BY ServedIsConnected DEF GrabKeyboard, pointerVars
  <1>2. PICK u : u = [window |-> w, client |-> c, key |-> None]
    OBVIOUS
  <1>3. u \in KeyboardGrab /\ Real(u) /\ u.key = None /\ kg' = u
    BY <1>1, <1>2 DEF KeyboardGrab, Real, Alive, GrabKeyboard
  <1> QED
    BY <1>1, <1>3, KeyboardStep DEF GrabsInv, PassiveOk

LEMMA UngrabKeyboardStep ==
  ASSUME GrabsInv, NEW c \in Client, UngrabKeyboard(c)
  PROVE  GrabsInv'
PROOF
  <1>1. /\ UNCHANGED <<windowVars, pg, buttons, relative, passive, passiveKeys>>
        /\ kg' = NoKeyboardGrab
    BY ServedIsConnected DEF UngrabKeyboard, pointerVars
  <1> QED
    BY <1>1, NoGrabs, KeyboardStep DEF GrabsInv, PassiveOk

LEMMA KeyGrabSteps ==
  ASSUME GrabsInv, NEW c \in Client, NEW w \in Win, GrabKey(c, w) \/ UngrabKey(c, w)
  PROVE  GrabsInv'
PROOF
  <1>1. /\ c \in connected /\ w \in Live(t)
        /\ UNCHANGED <<windowVars, pg, buttons, relative, passive, kg, keys>>
    BY ServedIsConnected DEF GrabKey, UngrabKey, pointerVars
  <1>2. PICK k : k = [window |-> w, client |-> c]
    OBVIOUS
  <1>3. k \in KeyGrab /\ Alive(k)
    BY <1>1, <1>2 DEF KeyGrab, Alive
  <1>4. passiveKeys' \subseteq passiveKeys \cup {k}
    BY <1>2 DEF GrabKey, UngrabKey
  <1>5. passiveKeys' \subseteq KeyGrab /\ \A q \in passiveKeys' : Alive(q)
    BY <1>3, <1>4 DEF GrabsInv, PassiveOk
  <1> QED
    BY <1>1, <1>5, KeyboardStep DEF GrabsInv, KeyboardOk

\* The keyboard's grab by a key that somebody has asked for beforehand.
LEMMA PressKeyStep ==
  ASSUME GrabsInv, NEW k \in Key, PressKey(k)
  PROVE  GrabsInv'
PROOF
  <1>1. /\ UNCHANGED <<windowVars, pg, buttons, relative, passive, passiveKeys>>
        /\ keys' = keys \cup {k}
    BY DEF PressKey, InputEvent, pointerVars
  <1>2. PICK fits : fits = {p \in passiveKeys : p.window \in Chain(KeyFocus)}
    OBVIOUS
  <1>3. PICK ws : ws = {p.window : p \in fits}
    OBVIOUS
  <1>4. PICK w : w = Deepest(ws)
    OBVIOUS
  <1>5. PICK p : p = CHOOSE q \in fits : q.window = w
    OBVIOUS
  <1>6. PICK u : u = IF kg.client # None \/ t.focus = NoWindow \/ fits = {} THEN kg
                     ELSE [window |-> w, client |-> p.client, key |-> k]
    OBVIOUS
  <1>7. kg' = u
    BY <1>2, <1>3, <1>4, <1>5, <1>6 DEF PressKey, ActivatePassiveKeyGrab
  <1>8. u \in KeyboardGrab /\ Real(u)
    <2>1. CASE u = kg
      BY <2>1 DEF GrabsInv, KeyboardOk
    <2>2. CASE u = [window |-> w, client |-> p.client, key |-> k] /\ fits # {}
      <3>1. w \in ws
        <4>1. ws \subseteq Chain(KeyFocus) /\ ws # {}
          BY <1>2, <1>3, <2>2
        <4> QED
          BY <1>4, <4>1, ChainFacts DEF GrabsInv
      <3>2. p \in fits /\ p.window = w
        BY <1>3, <1>5, <3>1
      <3>3. p \in KeyGrab /\ Alive(p)
        BY <1>2, <3>2 DEF GrabsInv, PassiveOk
      <3> QED
        BY <2>2, <3>2, <3>3 DEF KeyGrab, KeyboardGrab, Real, Alive
    <2> QED
      BY <1>6, <2>1, <2>2
  <1> QED
    BY <1>1, <1>7, <1>8, KeyboardStep DEF GrabsInv, PassiveOk

LEMMA ReleaseKeyStep ==
  ASSUME GrabsInv, NEW k \in Key, ReleaseKey(k)
  PROVE  GrabsInv'
PROOF
  <1>1. /\ UNCHANGED <<windowVars, pg, buttons, relative, passive, passiveKeys>>
        /\ k \in keys /\ keys' = keys \ {k}
        /\ kg' = IF kg.key # None /\ keys = {k} THEN NoKeyboardGrab ELSE kg
    BY DEF ReleaseKey, InputEvent, pointerVars, AllReleasedAfter
  <1>2. PICK u : u = kg'
    OBVIOUS
  <1>3. u \in KeyboardGrab /\ Real(u) /\ (u.key # None => keys' # {})
    BY <1>1, <1>2, NoGrabs DEF GrabsInv, KeyboardOk
  <1> QED
    BY <1>1, <1>2, <1>3, KeyboardStep DEF GrabsInv, PassiveOk

-----------------------------------------------------------------------------
(* The theorems.                                                            *)

LEMMA GrabInitHolds == GrabInit => GrabsInv
PROOF
  <1> SUFFICES ASSUME GrabInit PROVE GrabsInv
    OBVIOUS
  <1>1. WindowsInv /\ session \in Sessions
    BY InitHolds DEF GrabInit, Init
  <1>2. PointerOk(pg, buttons) /\ KeyboardOk
    BY NoGrabs DEF GrabInit, KeyboardOk
  <1>3. PassiveOk
    BY DEF GrabInit, PassiveOk, ToSet
  <1>4. relative = FALSE
    BY DEF GrabInit
  <1> QED
    BY <1>1, <1>2, <1>3, <1>4 DEF GrabsInv

LEMMA GrabNextHolds ==
  ASSUME GrabsInv, GrabNext
  PROVE  GrabsInv'
PROOF
  <1>1. CASE WindowStep
    BY <1>1, WindowStepHolds
  <1>2. CASE \E c \in Client, w \in Win, cf \in Confining : GrabPointer(c, w, cf)
    BY <1>2, GrabPointerStep
  <1>3. CASE \E c \in Client, w \in Win, b \in Button \cup {AnyButton} : UngrabButton(c, w, b)
    BY <1>3, UngrabButtonStep
  <1>4. CASE \E c \in Client, w \in Win, b \in Button \cup {AnyButton}, s \in BOOLEAN,
                cf \in Confining :
               GrabButton(c, [window |-> w, client |-> c, button |-> b, sync |-> s, confine |-> cf])
    BY <1>4, GrabButtonStep
  <1>5. CASE \E c \in Client, w \in Win : GrabKeyboard(c, w)
    BY <1>5, GrabKeyboardStep
  <1>6. CASE \E c \in Client, w \in Win : GrabKey(c, w) \/ UngrabKey(c, w)
    BY <1>6, KeyGrabSteps
  <1>7. CASE \E c \in Client : UngrabPointer(c)
    BY <1>7, UngrabPointerStep
  <1>8. CASE \E c \in Client : UngrabKeyboard(c)
    BY <1>8, UngrabKeyboardStep
  <1>9. CASE \E c \in Client, replay \in BOOLEAN : AllowEvents(c, replay)
    BY <1>9, AllowEventsStep, GrabsAssumption
  <1>10. CASE \E b \in Button : PressButton(b)
    BY <1>10, PressButtonStep, GrabsAssumption
  <1>11. CASE \E b \in Button : ReleaseButton(b)
    BY <1>11, ReleaseButtonStep
  <1>12. CASE \E k \in Key : PressKey(k)
    BY <1>12, PressKeyStep
  <1>13. CASE \E k \in Key : ReleaseKey(k)
    BY <1>13, ReleaseKeyStep
  <1>14. CASE SetRelativeMouseMovement \/ \E p \in Win \cup {Root} : MovePointer(p)
    BY <1>14, MovementSteps
  <1> QED
    BY <1>1, <1>2, <1>3, <1>4, <1>5, <1>6, <1>7, <1>8, <1>9, <1>10, <1>11, <1>12, <1>13, <1>14
    DEF GrabNext

(* The inductive invariant of XGrabs: the window tree is sound and names    *)
(* nothing that is gone (WindowsInv), every grab is of the living, a        *)
(* synchronous grab is automatic and of a client that sends AllowEvents,    *)
(* and relative movement is on only where it can be switched on.            *)
THEOREM GrabsCorrect == GrabSpec => []GrabsInv
PROOF
  <1>1. ASSUME GrabsInv, [GrabNext]_vars PROVE GrabsInv'
    <2>1. CASE GrabNext
      BY <1>1, <2>1, GrabNextHolds
    <2>2. CASE UNCHANGED vars
      BY <1>1, <2>2, PointerStep DEF vars, pointerVars, keyVars, GrabsInv
    <2> QED
      BY <1>1, <2>1, <2>2
  <1> QED
    BY <1>1, GrabInitHolds, PTL DEF GrabSpec

(* GrabsOfTheLiving: the cleanup of grabs reaches every grab, active or     *)
(* passive, with input between the two steps of the end of a client.        *)
THEOREM GrabsAreOfTheLiving == GrabSpec => []GrabsOfTheLiving
PROOF
  <1>1. GrabsInv => GrabsOfTheLiving
    BY DEF GrabsInv, GrabsOfTheLiving, PointerOk, KeyboardOk, PassiveOk, Real, Alive
  <1> QED
    BY <1>1, GrabsCorrect, PTL

(* AutoGrabEnds: a grab that a button or a key has activated is over once   *)
(* all are up, whatever was thawed, replayed or grabbed meanwhile.          *)
THEOREM AutomaticGrabsEnd == GrabSpec => []AutoGrabEnds
PROOF
  <1>1. GrabsInv => AutoGrabEnds
    BY DEF GrabsInv, AutoGrabEnds, PointerOk, KeyboardOk
  <1> QED
    BY <1>1, GrabsCorrect, PTL

(* FreezeHasOwner: the pointer is never frozen for nobody, or for a client  *)
(* that cannot send AllowEvents.                                            *)
THEOREM FrozenPointerHasOwner == GrabSpec => []FreezeHasOwner
PROOF
  <1>1. GrabsInv => FreezeHasOwner
    BY DEF GrabsInv, FreezeHasOwner, PointerOk
  <1> QED
    BY <1>1, GrabsCorrect, PTL

(* The steps of XGrabs are steps of XWindows or leave the windows alone:    *)
(* what is proved of XWindows holds with grabs and input too.               *)
THEOREM GrabsImplementWindows == GrabSpec => Spec
PROOF
  <1>1. GrabInit => Init
    BY DEF GrabInit
  <1>2. ASSUME [GrabNext]_vars PROVE [Next]_windowVars
    <2>1. CASE WindowStep
      BY <2>1 DEF WindowStep
    <2>2. CASE UNCHANGED vars
      BY <2>2 DEF vars
    <2>3. CASE GrabNext /\ ~WindowStep
      <3>1. ASSUME NEW c \in Client, NEW w, NEW x, NEW q,
                   \/ GrabPointer(c, w, x) \/ UngrabButton(c, w, x) \/ GrabButton(c, q)
                   \/ GrabKeyboard(c, w) \/ GrabKey(c, w) \/ UngrabKey(c, w)
                   \/ UngrabPointer(c) \/ UngrabKeyboard(c) \/ AllowEvents(c, x)
            PROVE  UNCHANGED windowVars
        BY <3>1 DEF GrabPointer, UngrabPointer, GrabButton, UngrabButton, AllowEvents,
                    GrabKeyboard, UngrabKeyboard, GrabKey, UngrabKey, GrabRequest
      <3>2. ASSUME NEW x,
                   \/ PressButton(x) \/ ReleaseButton(x) \/ PressKey(x) \/ ReleaseKey(x)
                   \/ MovePointer(x) \/ SetRelativeMouseMovement
            PROVE  UNCHANGED windowVars
        BY <3>2 DEF PressButton, ReleaseButton, MovePointer, SetRelativeMouseMovement,
                    PressKey, ReleaseKey, InputEvent
      <3>3. UNCHANGED windowVars
        BY <2>3, <3>1, <3>2, Zenon DEF GrabNext
      <3> QED
        BY <3>3
    <2> QED
      BY <1>2, <2>1, <2>2, <2>3
  <1> QED
    BY <1>1, <1>2, PTL DEF GrabSpec, Spec

=============================================================================
