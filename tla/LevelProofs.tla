---------------------------- MODULE LevelProofs ------------------------------
(***************************************************************************)
(* For a maze and a window of any size, whatever the random numbers are and *)
(* whichever way the player goes: make_maze connects every point with the   *)
(* one where the player starts; the window always holds the picture of the  *)
(* maze as it is; and the display shows it with the player and the text.    *)
(***************************************************************************)
EXTENDS Level, FiniteSetTheorems, WellFoundedInduction, TLAPS

-----------------------------------------------------------------------------
(* A set of natural numbers that is not empty has a least element.          *)
LEMMA Least ==
  ASSUME NEW T, T \subseteq Nat, T # {}
  PROVE  \E n \in T : \A m \in T : n <= m
<1>1. IsWellFoundedOn(OpToRel(<, Nat), Nat)
  BY NatLessThanWellFounded
<1>2. PICK n \in T : \A m \in T : ~ (<<m, n>> \in OpToRel(<, Nat))
  BY <1>1, WFMin
<1>3. ASSUME NEW m \in T, m < n
      PROVE  FALSE
  <2>1. <<m, n>> \in OpToRel(<, Nat)
    BY <1>3 DEF OpToRel
  <2>2. QED
    BY <2>1, <1>2
<1>4. QED
  BY <1>3

(* Induction over the natural numbers, over a set instead of a predicate.  *)
LEMMA Induction ==
  ASSUME NEW T, 0 \in T, \A n \in Nat : n \in T => n + 1 \in T
  PROVE  Nat \subseteq T
<1>1. SUFFICES ASSUME Nat \ T # {}
               PROVE  FALSE
  OBVIOUS
<1>2. PICK n \in Nat \ T : \A m \in Nat \ T : n <= m
  BY <1>1, Least
<1>3. n # 0 /\ n - 1 \in Nat /\ n - 1 \in T
  BY <1>2
<1>4. QED
  BY <1>2, <1>3

-----------------------------------------------------------------------------
(* The points of the maze. *)
At(i, j) == <<2 * i + 1, 2 * j + 1>>

(* Every point has odd coordinates, and so the form At(i, j).               *)
LEMMA NodeIs ==
  ASSUME NEW c
  PROVE  c \in Nodes <=> \E i \in 0..maze_x_dim-1, j \in 0..maze_y_dim-1 : c = At(i, j)
<1>1. maze_x_dim \in Nat \ {0} /\ maze_y_dim \in Nat \ {0}
  BY MazeAssumption
<1>2. ASSUME c \in Nodes
      PROVE  \E i \in 0..maze_x_dim-1, j \in 0..maze_y_dim-1 : c = At(i, j)
  <2>1. PICK x \in 0..2*maze_x_dim-1, y \in -1..2*maze_y_dim+1 :
             c = <<x, y>> /\ x % 2 = 1 /\ y % 2 = 1 /\ y > 0 /\ y < 2 * maze_y_dim
    BY <1>2 DEF Nodes, Places, Width, Height
  <2>2. PICK i \in Int : x = 2 * i + 1
    BY <2>1
  <2>3. PICK j \in Int : y = 2 * j + 1
    BY <2>1
  <2>4. i \in 0..maze_x_dim-1 /\ j \in 0..maze_y_dim-1
    BY <1>1, <2>1, <2>2, <2>3
  <2>5. QED
    BY <2>1, <2>2, <2>3, <2>4 DEF At
<1>3. ASSUME NEW i \in 0..maze_x_dim-1, NEW j \in 0..maze_y_dim-1, c = At(i, j)
      PROVE  c \in Nodes
  <2>1. 2 * i + 1 \in 0..2*maze_x_dim-1 /\ 2 * j + 1 \in -1..2*maze_y_dim+1
    BY <1>1
  <2>2. (2 * i + 1) % 2 = 1 /\ (2 * j + 1) % 2 = 1
    OBVIOUS
  <2>3. 2 * j + 1 > 0 /\ 2 * j + 1 < 2 * maze_y_dim
    BY <1>1
  <2>4. QED
    BY <1>3, <2>1, <2>2, <2>3 DEF Nodes, Places, Width, Height, At
<1>4. QED
  BY <1>2, <1>3

(* There are maze_x_dim * maze_y_dim of them.                               *)
LEMMA NodesCounted ==
  IsFiniteSet(Nodes) /\ Cardinality(Nodes) = maze_x_dim * maze_y_dim
<1> DEFINE X == 0..maze_x_dim-1
           Y == 0..maze_y_dim-1
           f == [p \in X \X Y |-> At(p[1], p[2])]
<1>1. maze_x_dim \in Nat \ {0} /\ maze_y_dim \in Nat \ {0}
  BY MazeAssumption
<1>2. IsFiniteSet(X) /\ Cardinality(X) = maze_x_dim
  BY <1>1, FS_Interval
<1>3. IsFiniteSet(Y) /\ Cardinality(Y) = maze_y_dim
  BY <1>1, FS_Interval
<1>4. IsFiniteSet(X \X Y) /\ Cardinality(X \X Y) = maze_x_dim * maze_y_dim
  <2> HIDE DEF X, Y
  <2>1. QED
    BY <1>2, <1>3, FS_Product
<1>5. f \in Bijection(X \X Y, Nodes)
  <2>1. \A p \in X \X Y : f[p] = At(p[1], p[2]) /\ f[p] \in Nodes
    BY NodeIs
  <2>2. ASSUME NEW p \in X \X Y, NEW q \in X \X Y, f[p] = f[q]
        PROVE  p = q
    <3>1. At(p[1], p[2]) = At(q[1], q[2])
      BY <2>2
    <3>2. 2 * p[1] + 1 = 2 * q[1] + 1 /\ 2 * p[2] + 1 = 2 * q[2] + 1
      BY <3>1 DEF At
    <3>3. p[1] = q[1] /\ p[2] = q[2]
      BY <3>2
    <3>4. QED
      BY <3>3
  <2>3. ASSUME NEW c \in Nodes
        PROVE  \E p \in X \X Y : f[p] = c
    <3>1. PICK i \in X, j \in Y : c = At(i, j)
      BY NodeIs
    <3>2. <<i, j>> \in X \X Y /\ f[<<i, j>>] = c
      BY <3>1
    <3>3. QED
      BY <3>2
  <2>4. f \in [X \X Y -> Nodes]
    BY <2>1
  <2> HIDE DEF f
  <2>5. QED
    BY <2>2, <2>3, <2>4 DEF Bijection, Injection, Surjection, IsInjective
<1>6. QED
  <2> HIDE DEF X, Y, f
  <2>1. ExistsBijection(X \X Y, Nodes)
    BY <1>5 DEF ExistsBijection
  <2>2. QED
    BY <1>4, <2>1, FS_Bijection

(* The steps from one point to the next: where an edge within the maze      *)
(* leads, that it leads back, and that nothing else goes through it.        *)
Back(d) == IF d = 0 THEN 2 ELSE IF d = 1 THEN 3 ELSE IF d = 2 THEN 0 ELSE 1

LEMMA Edge ==
  ASSUME NEW c \in Nodes, NEW d \in Dir, CanGo(c, d)
  PROVE  LET b == Ahead(c, d, 2)
         IN  /\ b \in Nodes /\ Back(d) \in Dir /\ CanGo(b, Back(d))
             /\ Ahead(b, Back(d), 1) = Ahead(c, d, 1)
             /\ Ahead(b, Back(d), 2) = c
             /\ Ahead(c, d, 1) \notin Nodes
<1>1. PICK i \in 0..maze_x_dim-1, j \in 0..maze_y_dim-1 : c = At(i, j)
  BY NodeIs
<1>2. maze_x_dim \in Nat \ {0} /\ maze_y_dim \in Nat \ {0}
  BY MazeAssumption
<1>3. c[1] = 2 * i + 1 /\ c[2] = 2 * j + 1
  BY <1>1 DEF At
<1>4. CASE d = 0
  <2>1. j >= 1
    BY <1>3, <1>4 DEF CanGo
  <2>2. Ahead(c, d, 2) = At(i, j - 1) /\ Ahead(c, d, 1) = <<2 * i + 1, 2 * j>>
    BY <1>2, <1>3, <1>4 DEF Ahead, Place, At, Width
  <2>3. /\ Ahead(At(i, j - 1), 2, 1) = <<2 * i + 1, 2 * j>>
        /\ Ahead(At(i, j - 1), 2, 2) = At(i, j)
    BY <1>2 DEF Ahead, Place, At, Width
  <2>4. CanGo(At(i, j - 1), 2)
    BY <1>2 DEF CanGo, At, Height
  <2>5. <<2 * i + 1, 2 * j>> \notin Nodes
    BY NodeIs DEF At
  <2>6. At(i, j - 1) \in Nodes
    <3>1. j - 1 \in 0..maze_y_dim-1
      BY <1>2, <2>1
    <3>2. QED
      BY <3>1, NodeIs
  <2>7. QED
    BY <1>1, <1>4, <2>2, <2>3, <2>4, <2>5, <2>6 DEF Back, Dir
<1>5. CASE d = 2
  <2>1. j + 1 <= maze_y_dim - 1
    BY <1>2, <1>3, <1>5 DEF CanGo, Height
  <2>2. Ahead(c, d, 2) = At(i, j + 1) /\ Ahead(c, d, 1) = <<2 * i + 1, 2 * j + 2>>
    BY <1>2, <1>3, <1>5 DEF Ahead, Place, At, Width
  <2>3. /\ Ahead(At(i, j + 1), 0, 1) = <<2 * i + 1, 2 * j + 2>>
        /\ Ahead(At(i, j + 1), 0, 2) = At(i, j)
    BY <1>2 DEF Ahead, Place, At, Width
  <2>4. CanGo(At(i, j + 1), 0)
    BY <1>2 DEF CanGo, At, Height
  <2>5. <<2 * i + 1, 2 * j + 2>> \notin Nodes
    BY NodeIs DEF At
  <2>6. At(i, j + 1) \in Nodes
    BY <2>1, NodeIs
  <2>7. QED
    BY <1>1, <1>5, <2>2, <2>3, <2>4, <2>5, <2>6 DEF Back, Dir
<1>6. CASE d = 1
  <2>1. i + 1 <= maze_x_dim - 1
    BY <1>2, <1>3, <1>6 DEF CanGo, Width
  <2>2. Ahead(c, d, 2) = At(i + 1, j) /\ Ahead(c, d, 1) = <<2 * i + 2, 2 * j + 1>>
    BY <1>2, <1>3, <1>6, <2>1 DEF Ahead, Place, At, Width
  <2>3. /\ Ahead(At(i + 1, j), 3, 1) = <<2 * i + 2, 2 * j + 1>>
        /\ Ahead(At(i + 1, j), 3, 2) = At(i, j)
    BY <1>2, <2>1 DEF Ahead, Place, At, Width
  <2>4. CanGo(At(i + 1, j), 3)
    BY <1>2 DEF CanGo, At
  <2>5. <<2 * i + 2, 2 * j + 1>> \notin Nodes
    BY NodeIs DEF At
  <2>6. At(i + 1, j) \in Nodes
    BY <2>1, NodeIs
  <2>7. QED
    BY <1>1, <1>6, <2>2, <2>3, <2>4, <2>5, <2>6 DEF Back, Dir
<1>7. CASE d = 3
  <2>1. i >= 1
    BY <1>2, <1>3, <1>7 DEF CanGo
  <2>2. Ahead(c, d, 2) = At(i - 1, j) /\ Ahead(c, d, 1) = <<2 * i, 2 * j + 1>>
    BY <1>2, <1>3, <1>7, <2>1 DEF Ahead, Place, At, Width
  <2>3. /\ Ahead(At(i - 1, j), 1, 1) = <<2 * i, 2 * j + 1>>
        /\ Ahead(At(i - 1, j), 1, 2) = At(i, j)
    BY <1>2, <2>1 DEF Ahead, Place, At, Width
  <2>4. CanGo(At(i - 1, j), 1)
    BY <1>2 DEF CanGo, At, Width
  <2>5. <<2 * i, 2 * j + 1>> \notin Nodes
    BY NodeIs DEF At
  <2>6. At(i - 1, j) \in Nodes
    <3>1. i - 1 \in 0..maze_x_dim-1
      BY <1>2, <2>1
    <3>2. QED
      BY <3>1, NodeIs
  <2>7. QED
    BY <1>1, <1>7, <2>2, <2>3, <2>4, <2>5, <2>6 DEF Back, Dir
<1>8. QED
  BY <1>4, <1>5, <1>6, <1>7 DEF Dir

(* The two points beside an edge within the maze are the only ones.         *)
LEMMA EdgeOfTwo ==
  ASSUME NEW c \in Nodes, NEW d \in Dir, CanGo(c, d),
         NEW b \in Nodes, NEW e \in Dir, Ahead(b, e, 1) = Ahead(c, d, 1)
  PROVE  \/ b = c /\ e = d
         \/ b = Ahead(c, d, 2) /\ e = Back(d)
<1>1. PICK i \in 0..maze_x_dim-1, j \in 0..maze_y_dim-1 : c = At(i, j)
  BY NodeIs
<1>2. PICK k \in 0..maze_x_dim-1, l \in 0..maze_y_dim-1 : b = At(k, l)
  BY NodeIs
<1>3. maze_x_dim \in Nat \ {0} /\ maze_y_dim \in Nat \ {0}
  BY MazeAssumption
<1>4. /\ Ahead(b, 0, 1) = <<2 * k + 1, 2 * l>>
      /\ Ahead(b, 2, 1) = <<2 * k + 1, 2 * l + 2>>
      /\ Ahead(b, 3, 1) = <<2 * k, 2 * l + 1>>
      /\ \/ Ahead(b, 1, 1) = <<2 * k + 2, 2 * l + 1>>
         \/ Ahead(b, 1, 1) = <<2 * k + 2 - 2 * maze_x_dim, 2 * l + 2>>
  BY <1>2, <1>3 DEF Ahead, Place, At, Width
<1>5. /\ d = 0 => Ahead(c, d, 1) = <<2 * i + 1, 2 * j>> /\ Ahead(c, d, 2) = At(i, j - 1)
      /\ d = 2 => Ahead(c, d, 1) = <<2 * i + 1, 2 * j + 2>> /\ Ahead(c, d, 2) = At(i, j + 1)
      /\ d = 3 => Ahead(c, d, 1) = <<2 * i, 2 * j + 1>> /\ Ahead(c, d, 2) = At(i - 1, j)
      /\ d = 1 => Ahead(c, d, 1) = <<2 * i + 2, 2 * j + 1>> /\ Ahead(c, d, 2) = At(i + 1, j)
  BY <1>1, <1>3 DEF Ahead, Place, At, Width, CanGo
<1>6. CASE d \in {0, 2}
  <2>1. e \in {0, 2}
    <3>1. PICK x \in {i}, y \in Int : Ahead(b, e, 1) = <<2 * x + 1, 2 * y>>
      <4>1. 2 * j + 2 = 2 * (j + 1) /\ j \in Int /\ j + 1 \in Int
        OBVIOUS
      <4>2. QED
        BY <4>1, <1>5, <1>6
    <3>2. e # 3
      BY <3>1, <1>4
    <3>3. e # 1
      BY <3>1, <1>3, <1>4
    <3>4. QED
      BY <3>2, <3>3 DEF Dir
  <2>2. QED
    BY <1>1, <1>2, <1>4, <1>5, <1>6, <2>1 DEF Back, At
<1>7. CASE d \in {1, 3}
  <2>1. e \in {1, 3}
    BY <1>4, <1>5, <1>7 DEF Dir
  <2>2. e = 1 => Ahead(b, e, 1) = <<2 * k + 2, 2 * l + 1>>
    BY <1>4, <1>5, <1>7
  <2>3. QED
    BY <1>1, <1>2, <1>4, <1>5, <1>7, <2>1, <2>2 DEF Back, At
<1>8. QED
  BY <1>6, <1>7 DEF Dir

-----------------------------------------------------------------------------
(* mark_maze_area, whose definition is recursive. *)
Count == maze_x_dim * maze_y_dim

MarkStep(f, n, c, w, r) ==
  IF n = 0 THEN {c}
  ELSE LET before == f[n-1]
       IN  before \cup ((UNION {Beyond(b, w) : b \in before}) \ r)

Marks(f, m, c, w, r) == f = [n \in 0..m |-> MarkStep(f, n, c, w, r)]

(* The function that MarkMazeArea defines exists.                           *)
LEMMA MarksExist ==
  ASSUME NEW c, NEW w, NEW r, NEW N \in Nat
  PROVE  \E f : Marks(f, N, c, w, r)
<1> DEFINE T == {m \in Nat : \E f : Marks(f, m, c, w, r)}
<1>1. 0 \in T
  <2> DEFINE f == [n \in 0..0 |-> {c}]
  <2>1. Marks(f, 0, c, w, r)
    BY DEF Marks, MarkStep
  <2>2. QED
    BY <2>1
<1>2. ASSUME NEW m \in Nat, m \in T
      PROVE  m + 1 \in T
  <2>1. PICK f : Marks(f, m, c, w, r)
    BY <1>2
  <2>2. \A n \in 0..m : f[n] = MarkStep(f, n, c, w, r)
    BY <2>1 DEF Marks
  <2> DEFINE g == [n \in 0..m+1 |-> IF n = m + 1 THEN MarkStep(f, n, c, w, r) ELSE f[n]]
  <2>3. \A n \in 0..m : g[n] = f[n]
    OBVIOUS
  <2>4. g[m+1] = MarkStep(f, m + 1, c, w, r) /\ g = [n \in 0..m+1 |-> g[n]]
    OBVIOUS
  <2> HIDE DEF g
  <2>5. ASSUME NEW n \in 0..m+1
        PROVE  g[n] = MarkStep(g, n, c, w, r)
    <3>1. MarkStep(g, n, c, w, r) = MarkStep(f, n, c, w, r)
      <4>1. CASE n = 0
        BY <4>1 DEF MarkStep
      <4>2. CASE n # 0
        <5>1. n - 1 \in 0..m
          BY <4>2
        <5>2. g[n-1] = f[n-1]
          BY <5>1, <2>3
        <5>3. QED
          BY <5>2, <4>2, Zenon DEF MarkStep
      <4>3. QED
        BY <4>1, <4>2
    <3>2. CASE n = m + 1
      BY <3>1, <3>2, <2>4
    <3>3. CASE n # m + 1
      <4>1. n \in 0..m
        BY <3>3
      <4>2. QED
        BY <4>1, <3>1, <2>2, <2>3
    <3>4. QED
      BY <3>2, <3>3
  <2>6. Marks(g, m + 1, c, w, r)
    BY <2>4, <2>5 DEF Marks
  <2>7. QED
    BY <2>6
<1> HIDE DEF T
<1>3. N \in T
  BY <1>1, <1>2, Induction
<1>4. QED
  BY <1>3 DEF T

(* MarkMazeArea step by step.                                               *)
LEMMA MarkUnfolds ==
  ASSUME NEW c, NEW w, NEW r
  PROVE  \E f : /\ f[0] = {c} /\ MarkMazeArea(c, w, r) = f[Count]
                /\ \A n \in 1..Count :
                     f[n] = f[n-1] \cup ((UNION {Beyond(b, w) : b \in f[n-1]}) \ r)
<1>1. Count \in Nat
  <2>1. \A x, y \in Nat : x * y \in Nat
    OBVIOUS
  <2>2. QED
    BY <2>1, MazeAssumption DEF Count
<1> DEFINE f == CHOOSE f : Marks(f, Count, c, w, r)
<1>2. Marks(f, Count, c, w, r)
  BY <1>1, MarksExist
<1>3. MarkMazeArea(c, w, r) = f[Count]
  BY DEF MarkMazeArea, Marks, MarkStep, Count
<1> HIDE DEF f
<1>4. \A n \in 0..Count : f[n] = MarkStep(f, n, c, w, r)
  BY <1>2 DEF Marks
<1>5. f[0] = {c}
  <2>1. 0 \in 0..Count
    BY <1>1
  <2>2. f[0] = MarkStep(f, 0, c, w, r)
    BY <2>1, <1>4
  <2>3. QED
    BY <2>2, Zenon DEF MarkStep
<1>6. ASSUME NEW n \in 1..Count
      PROVE  f[n] = f[n-1] \cup ((UNION {Beyond(b, w) : b \in f[n-1]}) \ r)
  <2>1. n \in 0..Count /\ n # 0
    BY <1>1
  <2>2. f[n] = MarkStep(f, n, c, w, r)
    BY <2>1, <1>4
  <2>3. QED
    BY <2>1, <2>2, Zenon DEF MarkStep
<1>7. QED
  BY <1>3, <1>5, <1>6

-----------------------------------------------------------------------------
(* Through an open edge one comes to an open point within the maze. *)
Leads(w) ==
  \A c \in Nodes, d \in Dir :
    Ahead(c, d, 1) \notin w => c \notin w /\ CanGo(c, d) /\ Ahead(c, d, 2) \in Nodes \ w

Closed(S, w) == \A b \in S : Beyond(b, w) \subseteq S

(* Every way of marking from (1,1) on comes to c. *)
Connected(c, w) == \A S \in SUBSET Nodes : <<1, 1>> \in S /\ Closed(S, w) => c \in S

(* mark_maze_area stays within the maze, marks no point again, and marks    *)
(* only points that are connected with its first.                           *)
LEMMA MarksConnected ==
  ASSUME NEW w, Leads(w), NEW c \in Nodes, NEW r
  PROVE  LET area == MarkMazeArea(c, w, r)
         IN  /\ area \subseteq Nodes /\ area \cap r \subseteq {c}
             /\ c \in area
             /\ \A S \in SUBSET Nodes : c \in S /\ Closed(S, w) => area \subseteq S
<1>1. PICK f : /\ f[0] = {c} /\ MarkMazeArea(c, w, r) = f[Count]
               /\ \A n \in 1..Count :
                    f[n] = f[n-1] \cup ((UNION {Beyond(b, w) : b \in f[n-1]}) \ r)
  BY MarkUnfolds
<1>2. Count \in Nat
  <2>1. \A x, y \in Nat : x * y \in Nat
    OBVIOUS
  <2>2. QED
    BY <2>1, MazeAssumption DEF Count
<1> DEFINE Good(A) == /\ A \subseteq Nodes /\ A \cap r \subseteq {c} /\ c \in A
                      /\ \A S \in SUBSET Nodes : c \in S /\ Closed(S, w) => A \subseteq S
           T == {n \in Nat : n <= Count => Good(f[n])}
<1>3. 0 \in T
  BY <1>1
<1>4. ASSUME NEW n \in Nat, n \in T
      PROVE  n + 1 \in T
  <2>1. SUFFICES ASSUME n + 1 <= Count
                 PROVE  Good(f[n+1])
    OBVIOUS
  <2>2. n + 1 \in 1..Count /\ n + 1 - 1 = n
    BY <2>1, <1>2
  <2>3. f[n+1] = f[n] \cup ((UNION {Beyond(b, w) : b \in f[n]}) \ r)
    BY <2>2, <1>1
  <2>4. Good(f[n])
    BY <1>4, <2>1, <1>2
  <2>5. ASSUME NEW b \in Nodes
        PROVE  Beyond(b, w) \subseteq Nodes
    BY <2>5 DEF Beyond, Leads
  <2> HIDE DEF T
  <2>6. QED
    BY <2>3, <2>4, <2>5 DEF Closed
<1> HIDE DEF T, Good
<1>5. Count \in T
  BY <1>2, <1>3, <1>4, Induction
<1>6. Good(f[Count])
  BY <1>2, <1>5 DEF T
<1>7. QED
  BY <1>1, <1>6 DEF Good

(* It ends no sooner than nothing is left to mark: maze_x_dim * maze_y_dim   *)
(* steps are enough.                                                        *)
LEMMA MarksAll ==
  ASSUME NEW w, Leads(w), NEW c \in Nodes
  PROVE  Closed(MarkMazeArea(c, w, {}), w)
<1>1. PICK f : /\ f[0] = {c} /\ MarkMazeArea(c, w, {}) = f[Count]
               /\ \A n \in 1..Count :
                    f[n] = f[n-1] \cup UNION {Beyond(b, w) : b \in f[n-1]}
  <2>1. PICK r : r = {}
    OBVIOUS
  <2>2. PICK f : /\ f[0] = {c} /\ MarkMazeArea(c, w, r) = f[Count]
                 /\ \A n \in 1..Count :
                      f[n] = f[n-1] \cup ((UNION {Beyond(b, w) : b \in f[n-1]}) \ r)
    BY MarkUnfolds
  <2>3. \A A : A \ r = A
    BY <2>1
  <2>4. \A n \in 1..Count : f[n] = f[n-1] \cup UNION {Beyond(b, w) : b \in f[n-1]}
    BY <2>2, <2>3
  <2>5. QED
    BY <2>1, <2>2, <2>4
<1>2. Count \in Nat
  <2>1. \A x, y \in Nat : x * y \in Nat
    OBVIOUS
  <2>2. QED
    BY <2>1, MazeAssumption DEF Count
<1>3. IsFiniteSet(Nodes) /\ Cardinality(Nodes) = Count
  BY NodesCounted DEF Count
<1> DEFINE Big(n) == /\ f[n] \subseteq Nodes
                     /\ Cardinality(f[n]) >= n + 1 \/ Closed(f[n], w)
           T == {n \in Nat : n <= Count => Big(n)}
<1>4. 0 \in T
  <2>1. Cardinality(f[0]) = 1
    BY <1>1, FS_Singleton
  <2>2. Cardinality(f[0]) >= 0 + 1 /\ f[0] \subseteq Nodes
    BY <2>1, <1>1
  <2>3. Big(0)
    BY <2>2
  <2> HIDE DEF Big
  <2>4. QED
    BY <2>3
<1>5. ASSUME NEW n \in Nat, n \in T
      PROVE  n + 1 \in T
  <2> HIDE DEF Big
  <2>1. SUFFICES ASSUME n + 1 <= Count
                 PROVE  Big(n + 1)
    OBVIOUS
  <2>2. Big(n)
    BY <1>5, <2>1, <1>2
  <2>3. n + 1 \in 1..Count /\ n + 1 - 1 = n
    BY <2>1, <1>2
  <2>4. f[n+1] = f[n] \cup UNION {Beyond(b, w) : b \in f[n]}
    BY <2>3, <1>1
  <2>5. f[n] \subseteq Nodes
    BY <2>2 DEF Big
  <2>6. \A b \in Nodes : Beyond(b, w) \subseteq Nodes
    BY DEF Beyond, Leads
  <2>7. f[n] \subseteq f[n+1] /\ f[n+1] \subseteq Nodes
    BY <2>4, <2>5, <2>6
  <2> HIDE DEF T
  <2>8. CASE f[n+1] = f[n]
    <3>1. Closed(f[n], w)
      BY <2>4, <2>8 DEF Closed
    <3>2. QED
      BY <3>1, <2>7, <2>8 DEF Big
  <2>9. CASE f[n+1] # f[n]
    <3>1. ~Closed(f[n], w)
      BY <2>4, <2>9 DEF Closed
    <3>2. Cardinality(f[n]) >= n + 1
      BY <3>1, <2>2 DEF Big
    <3>3. IsFiniteSet(f[n+1])
      BY <2>7, <1>3, FS_Subset
    <3>4. IsFiniteSet(f[n]) /\ Cardinality(f[n]) <= Cardinality(f[n+1])
          /\ Cardinality(f[n+1]) # Cardinality(f[n])
      BY <3>3, <2>7, <2>9, FS_Subset
    <3>5. Cardinality(f[n]) \in Nat /\ Cardinality(f[n+1]) \in Nat
      BY <3>3, <3>4, FS_CardinalityType
    <3>6. Cardinality(f[n+1]) >= n + 1 + 1
      BY <3>2, <3>4, <3>5
    <3>7. QED
      BY <3>6, <2>7 DEF Big
  <2>10. QED
    BY <2>8, <2>9
<1> HIDE DEF T, Big
<1>6. Count \in T
  BY <1>2, <1>4, <1>5, Induction
<1>7. Big(Count)
  BY <1>2, <1>6 DEF T
<1>8. Cardinality(f[Count]) \in Nat /\ Cardinality(f[Count]) <= Count
  BY <1>3, <1>7, FS_Subset, FS_CardinalityType DEF Big
<1>9. ~(Cardinality(f[Count]) >= Count + 1)
  BY <1>2, <1>8
<1>10. QED
  BY <1>1, <1>7, <1>9 DEF Big

-----------------------------------------------------------------------------
(* A worm begins at a point.                                                *)
LEMMA Picked ==
  ASSUME NEW w, Leads(w), NEW c \in Nodes
  PROVE  Leads(w \ {c})
<1>1. SUFFICES ASSUME NEW b \in Nodes, NEW e \in Dir, Ahead(b, e, 1) \notin w \ {c}
               PROVE  b \notin w \ {c} /\ CanGo(b, e) /\ Ahead(b, e, 2) \in Nodes \ (w \ {c})
  BY DEF Leads
<1>2. CASE Ahead(b, e, 1) \notin w
  BY <1>2 DEF Leads
<1>3. CASE Ahead(b, e, 1) = c
  <2>1. PICK i \in 0..maze_x_dim-1, j \in 0..maze_y_dim-1 : b = At(i, j)
    BY NodeIs
  <2>2. PICK k \in 0..maze_x_dim-1, l \in 0..maze_y_dim-1 : c = At(k, l)
    BY NodeIs
  <2>3. maze_x_dim \in Nat \ {0}
    BY MazeAssumption
  <2>4. \/ Ahead(b, e, 1)[1] \in {2 * i, 2 * (i + 1), 2 * (i + 1 - maze_x_dim)}
        \/ Ahead(b, e, 1)[2] \in {2 * j, 2 * (j + 1)}
    BY <2>1, <2>3 DEF Dir, Ahead, Place, At, Width
  <2>5. QED
    BY <1>3, <2>2, <2>3, <2>4 DEF At
<1>4. QED
  BY <1>1, <1>2, <1>3

(* A worm moves on, or two points are joined: the edge that is opened is    *)
(* between two points that are open.                                        *)
LEMMA Opened ==
  ASSUME NEW w, Leads(w), NEW c \in Nodes, c \notin w, NEW d \in Dir, CanGo(c, d)
  PROVE  Leads(w \ {Ahead(c, d, 1), Ahead(c, d, 2)})
<1> DEFINE v == w \ {Ahead(c, d, 1), Ahead(c, d, 2)}
<1>1. SUFFICES ASSUME NEW b \in Nodes, NEW e \in Dir, Ahead(b, e, 1) \notin v
               PROVE  b \notin v /\ CanGo(b, e) /\ Ahead(b, e, 2) \in Nodes \ v
  BY DEF Leads
<1>2. /\ Ahead(c, d, 2) \in Nodes /\ CanGo(Ahead(c, d, 2), Back(d))
      /\ Ahead(Ahead(c, d, 2), Back(d), 2) = c
  BY Edge
<1>3. CASE Ahead(b, e, 1) \notin w
  BY <1>3 DEF Leads
<1>4. CASE Ahead(b, e, 1) = Ahead(c, d, 1)
  <2>1. (b = c /\ e = d) \/ (b = Ahead(c, d, 2) /\ e = Back(d))
    BY <1>4, EdgeOfTwo
  <2>2. QED
    BY <2>1, <1>2
<1>5. CASE Ahead(b, e, 1) = Ahead(c, d, 2)
  <2>1. Leads(w \ {Ahead(c, d, 2)})
    BY <1>2, Picked
  <2>2. Ahead(b, e, 1) \notin w \ {Ahead(c, d, 2)}
    BY <1>5
  <2>3. b \notin w \ {Ahead(c, d, 2)} /\ CanGo(b, e)
        /\ Ahead(b, e, 2) \in Nodes \ (w \ {Ahead(c, d, 2)})
    BY <2>1, <2>2 DEF Leads
  <2>4. QED
    BY <2>3
<1>6. QED
  BY <1>1, <1>3, <1>4, <1>5

(* What has been connected stays so when a wall is taken away.              *)
LEMMA StaysConnected ==
  ASSUME NEW w, NEW v, v \subseteq w, NEW c, Connected(c, w)
  PROVE  Connected(c, v)
<1>1. \A b : Beyond(b, w) \subseteq Beyond(b, v)
  BY DEF Beyond
<1>2. \A S : Closed(S, v) => Closed(S, w)
  BY <1>1 DEF Closed
<1>3. QED
  BY <1>2 DEF Connected

(* The walk from (1,1) marks all points once every one is connected.        *)
LEMMA AllMarked ==
  ASSUME NEW w, Leads(w), \A c \in Nodes : Connected(c, w)
  PROVE  MarkMazeArea(<<1, 1>>, w, {}) = Nodes
<1>1. <<1, 1>> \in Nodes
  <2>1. 0 \in 0..maze_x_dim-1 /\ 0 \in 0..maze_y_dim-1 /\ <<1, 1>> = At(0, 0)
    BY MazeAssumption DEF At
  <2>2. QED
    BY <2>1, NodeIs
<1>2. /\ MarkMazeArea(<<1, 1>>, w, {}) \in SUBSET Nodes
      /\ <<1, 1>> \in MarkMazeArea(<<1, 1>>, w, {})
  BY <1>1, MarksConnected
<1>3. Closed(MarkMazeArea(<<1, 1>>, w, {}), w)
  BY <1>1, MarksAll
<1>4. QED
  BY <1>2, <1>3 DEF Connected

-----------------------------------------------------------------------------
Digging == {"pick", "worm", "mark"}

(* Where make_maze is, and what it has done by then. *)
MazeInv ==
  /\ stage \in Digging \cup {"connect", "furnish", "ready", "play", "won"}
  /\ stage \in Digging \cup {"connect"} => at \in Nodes
  /\ Leads(walls)
  /\ stage \in Digging => remaining = Cardinality(Nodes \cap walls)
  /\ stage = "worm" => at \notin walls
  /\ stage \notin {"pick", "worm"} => Nodes \cap walls = {}
  /\ stage = "connect" => /\ reach \subseteq Nodes
                          /\ remaining = Count - Cardinality(reach)
                          /\ \A c \in reach : Connected(c, walls)
  /\ stage \notin Digging \cup {"connect"} => \A c \in Nodes : Connected(c, walls)

(* The maze before the first worm.                                          *)
LEMMA MazeStarts ==
  ASSUME Init
  PROVE  MazeInv
<1>1. /\ stage = "pick" /\ walls = Places /\ at = <<1, 1>>
      /\ remaining = maze_x_dim * maze_y_dim
  BY DEF Init
<1>2. <<1, 1>> \in Nodes
  <2>1. 0 \in 0..maze_x_dim-1 /\ 0 \in 0..maze_y_dim-1 /\ <<1, 1>> = At(0, 0)
    BY MazeAssumption DEF At
  <2>2. QED
    BY <2>1, NodeIs
<1>3. ASSUME NEW b \in Nodes, NEW e \in Dir
      PROVE  Ahead(b, e, 1) \in Places
  <2>1. PICK i \in 0..maze_x_dim-1, j \in 0..maze_y_dim-1 : b = At(i, j)
    BY NodeIs
  <2>2. maze_x_dim \in Nat \ {0} /\ maze_y_dim \in Nat \ {0}
    BY MazeAssumption
  <2>3. Ahead(b, e, 1)[1] \in 0..2*maze_x_dim-1 /\ Ahead(b, e, 1)[2] \in -1..2*maze_y_dim+1
        /\ Ahead(b, e, 1) = <<Ahead(b, e, 1)[1], Ahead(b, e, 1)[2]>>
    BY <2>1, <2>2 DEF Dir, Ahead, Place, At, Width
  <2>4. QED
    BY <2>3 DEF Places, Width, Height
<1>4. Leads(walls)
  BY <1>1, <1>3 DEF Leads
<1>5. Nodes \cap walls = Nodes
  BY <1>1 DEF Nodes
<1>6. remaining = Cardinality(Nodes \cap walls)
  BY <1>1, <1>5, NodesCounted
<1>7. QED
  BY <1>1, <1>2, <1>4, <1>6 DEF MazeInv, Digging

(* One point less has a wall.                                               *)
LEMMA OneLess ==
  ASSUME NEW w, NEW c \in Nodes, NEW v, Nodes \cap v = (Nodes \cap w) \ {c}
  PROVE  Cardinality(Nodes \cap v) =
           IF c \in w THEN Cardinality(Nodes \cap w) - 1 ELSE Cardinality(Nodes \cap w)
<1>1. IsFiniteSet(Nodes \cap w)
  BY NodesCounted, FS_Intersection
<1>2. QED
  BY <1>1, FS_RemoveElement

(* PickStart and the worm.                                                  *)
LEMMA DigKeeps ==
  ASSUME MazeInv, PickStart \/ \E d \in Dir : WormMoves(d) \/ WormTurns(d)
  PROVE  MazeInv'
<1>1. CASE PickStart
  <2>1. PICK c \in Nodes \cap walls : /\ stage = "pick" /\ stage' = "worm" /\ at' = c
                                      /\ walls' = walls \ {c} /\ remaining' = remaining - 1
    BY <1>1 DEF PickStart
  <2>2. Leads(walls')
    BY <2>1, Picked DEF MazeInv
  <2>3. remaining' = Cardinality(Nodes \cap walls')
    <3>1. Nodes \cap walls' = (Nodes \cap walls) \ {c}
      BY <2>1
    <3>2. QED
      BY <2>1, <3>1, OneLess DEF MazeInv, Digging
  <2>4. Nodes' = Nodes /\ Leads(walls)' = Leads(walls')
    BY DEF Nodes, Places, Leads
  <2>5. QED
    BY <2>1, <2>2, <2>3 DEF MazeInv, Digging
<1>2. CASE \E d \in Dir : WormMoves(d)
  <2>1. PICK d \in Dir : /\ stage = "worm" /\ CanGo(at, d) /\ at' = Ahead(at, d, 2)
                         /\ walls' = walls \ {Ahead(at, d, 1), at'} /\ stage' = stage
                         /\ remaining' = (IF at' \in walls THEN remaining - 1 ELSE remaining)
    BY <1>2 DEF WormMoves
  <2>2. at \in Nodes /\ at \notin walls /\ Leads(walls)
    BY <2>1 DEF MazeInv, Digging
  <2>3. at' \in Nodes /\ Ahead(at, d, 1) \notin Nodes
    BY <2>1, <2>2, Edge
  <2>4. Leads(walls')
    BY <2>1, <2>2, Opened
  <2>5. remaining' = Cardinality(Nodes \cap walls')
    <3>1. Nodes \cap walls' = (Nodes \cap walls) \ {at'}
      BY <2>1, <2>3
    <3>2. remaining = Cardinality(Nodes \cap walls)
      BY <2>1 DEF MazeInv, Digging
    <3>3. PICK c \in Nodes : c = at'
      BY <2>3
    <3>4. Cardinality(Nodes \cap walls') =
            IF c \in walls THEN Cardinality(Nodes \cap walls) - 1
                           ELSE Cardinality(Nodes \cap walls)
      BY <3>1, <3>3, OneLess
    <3>5. QED
      BY <2>1, <3>2, <3>3, <3>4
  <2>6. QED
    BY <2>1, <2>3, <2>4, <2>5 DEF MazeInv, Digging
<1>3. CASE \E d \in Dir : WormTurns(d)
  <2>1. /\ stage = "worm" /\ walls' = walls /\ at' = at /\ remaining' = remaining
        /\ stage' = (IF remaining > 0 THEN "pick" ELSE "mark")
    BY <1>3 DEF WormTurns
  <2>2. IsFiniteSet(Nodes \cap walls)
    BY NodesCounted, FS_Intersection
  <2>3. remaining = Cardinality(Nodes \cap walls) /\ remaining \in Nat
    BY <2>1, <2>2, FS_CardinalityType DEF MazeInv, Digging
  <2>4. ~(remaining > 0) => Nodes \cap walls = {}
    BY <2>2, <2>3, FS_EmptySet
  <2>5. QED
    BY <2>1, <2>3, <2>4 DEF MazeInv, Digging
<1>4. QED
  BY <1>1, <1>2, <1>3

(* The first marking.                                                       *)
LEMMA MarkKeeps ==
  ASSUME MazeInv, MarkStart
  PROVE  MazeInv'
<1>1. /\ stage = "mark" /\ stage' = "connect" /\ walls' = walls /\ at' = at
      /\ reach' = MarkMazeArea(<<1, 1>>, walls, {})
      /\ remaining' = Count - Cardinality(reach')
  BY DEF MarkStart, Count
<1>2. <<1, 1>> \in Nodes
  <2>1. 0 \in 0..maze_x_dim-1 /\ 0 \in 0..maze_y_dim-1 /\ <<1, 1>> = At(0, 0)
    BY MazeAssumption DEF At
  <2>2. QED
    BY <2>1, NodeIs
<1>3. /\ reach' \subseteq Nodes
      /\ \A S \in SUBSET Nodes : <<1, 1>> \in S /\ Closed(S, walls) => reach' \subseteq S
  BY <1>1, <1>2, MarksConnected DEF MazeInv
<1>4. \A c \in reach' : Connected(c, walls')
  BY <1>1, <1>3 DEF Connected
<1>5. QED
  BY <1>1, <1>3, <1>4 DEF MazeInv, Digging

(* The scan goes from point to point.                                       *)
LEMMA ScanStays ==
  ASSUME NEW c \in Nodes
  PROVE  NextInScan(c) \in Nodes
<1>1. PICK i \in 0..maze_x_dim-1, j \in 0..maze_y_dim-1 : c = At(i, j)
  BY NodeIs
<1>2. maze_x_dim \in Nat \ {0} /\ maze_y_dim \in Nat \ {0}
  BY MazeAssumption
<1>3. PICK k \in 0..maze_x_dim-1, l \in 0..maze_y_dim-1 : NextInScan(c) = At(k, l)
  <2>1. CASE i + 1 <= maze_x_dim - 1
    <3>1. NextInScan(c) = At(i + 1, j)
      BY <1>1, <1>2, <2>1 DEF NextInScan, At, Width
    <3>2. QED
      BY <2>1, <3>1
  <2>2. CASE i + 1 > maze_x_dim - 1
    <3>1. i = maze_x_dim - 1
      BY <2>2, <1>2
    <3>2. NextInScan(c) = IF j + 1 > maze_y_dim - 1 THEN At(0, 0) ELSE At(0, j + 1)
      BY <1>1, <1>2, <3>1 DEF NextInScan, At, Width, Height
    <3>3. QED
      BY <1>2, <3>2
  <2>3. QED
    BY <2>1, <2>2, <1>2
<1>4. QED
  BY <1>3, NodeIs

(* A point is joined, and what can be reached through it is marked.         *)
LEMMA ConnectKeeps ==
  ASSUME MazeInv, TryConnect
  PROVE  MazeInv'
<1>1. /\ stage = "connect" /\ at \in Nodes /\ Leads(walls) /\ Nodes \cap walls = {}
      /\ reach \subseteq Nodes /\ remaining = Count - Cardinality(reach)
      /\ \A c \in reach : Connected(c, walls)
  BY DEF MazeInv, TryConnect, Digging
<1>2. /\ at' \in (IF Scanning THEN {NextInScan(at)} ELSE Nodes \ reach)
      /\ Connect(at') /\ stage' = (IF remaining' > 0 THEN "connect" ELSE "furnish")
  BY DEF TryConnect
<1>3. at' \in Nodes
  BY <1>1, <1>2, ScanStays
<1>4. IsFiniteSet(Nodes) /\ Cardinality(Nodes) = Count
  BY NodesCounted DEF Count
<1>5. /\ Leads(walls') /\ Nodes \cap walls' = {}
      /\ reach' \subseteq Nodes /\ remaining' = Count - Cardinality(reach')
      /\ \A c \in reach' : Connected(c, walls')
  <2>1. PICK c \in Nodes : c = at'
    BY <1>3
  <2>2. CASE c \in reach \/ Links(c) = {}
    <3>1. walls' = walls /\ reach' = reach /\ remaining' = remaining
      BY <1>2, <2>1, <2>2 DEF Connect
    <3>2. QED
      BY <1>1, <3>1
  <2>3. CASE ~(c \in reach \/ Links(c) = {})
    <3>1. PICK d \in Links(c) : d = First(Links(c))
      BY <2>3 DEF First, Links, Dir
    <3>2. d \in Dir /\ CanGo(c, d) /\ Ahead(c, d, 2) \in reach
      BY <3>1 DEF Links
    <3>3. PICK area : /\ area = MarkMazeArea(c, walls', reach)
                      /\ walls' = walls \ {Ahead(c, d, 1)}
                      /\ reach' = reach \cup area
                      /\ remaining' = remaining - Cardinality(area)
      BY <1>2, <2>1, <2>3, <3>1 DEF Connect
    <3>4. Leads(walls')
      <4>1. c \notin walls /\ Ahead(c, d, 2) \notin walls
        BY <1>1, <3>2
      <4>2. walls' = walls \ {Ahead(c, d, 1), Ahead(c, d, 2)}
        BY <3>3, <4>1
      <4>3. QED
        BY <1>1, <3>2, <4>1, <4>2, Opened
    <3>5. /\ area \subseteq Nodes /\ area \cap reach = {}
          /\ \A S \in SUBSET Nodes : c \in S /\ Closed(S, walls') => area \subseteq S
      BY <2>3, <3>3, <3>4, MarksConnected
    <3>6. \A b \in reach : Connected(b, walls')
      BY <1>1, <3>3, StaysConnected
    <3>7. Connected(c, walls')
      <4>1. PICK b \in Nodes : b = Ahead(c, d, 2)
        BY <3>2, Edge
      <4>2. Back(d) \in Dir /\ Ahead(b, Back(d), 1) = Ahead(c, d, 1) /\ Ahead(b, Back(d), 2) = c
        BY <3>2, <4>1, Edge
      <4>3. Ahead(c, d, 1) \notin walls'
        BY <3>3
      <4>4. c \in Beyond(b, walls')
        BY <4>2, <4>3 DEF Beyond
      <4>5. Connected(b, walls')
        BY <3>2, <3>6, <4>1
      <4>6. QED
        BY <4>4, <4>5 DEF Connected, Closed
    <3>8. \A b \in area : Connected(b, walls')
      BY <3>5, <3>7 DEF Connected
    <3>9. remaining' = Count - Cardinality(reach')
      <4>1. IsFiniteSet(reach) /\ IsFiniteSet(area)
        BY <1>1, <1>4, <3>5, FS_Subset
      <4>2. reach \cap area = {}
        BY <3>5
      <4>3. PICK a \in Nat, b \in Nat : a = Cardinality(reach) /\ b = Cardinality(area)
        BY <4>1, FS_CardinalityType
      <4>4. Cardinality(reach \cup area) = a + b - 0
        <5>1. PICK both, common : both = reach \cup area /\ common = reach \cap area
          OBVIOUS
        <5>2. Cardinality(both) =
                Cardinality(reach) + Cardinality(area) - Cardinality(common)
          BY <4>1, <5>1, FS_Union, Zenon
        <5>3. Cardinality(common) = 0
          BY <4>2, <5>1, FS_EmptySet
        <5>4. QED
          BY <4>3, <5>1, <5>2, <5>3
      <4>5. Count \in Nat
        BY <1>4, FS_CardinalityType
      <4>6. remaining' = (Count - a) - b
        BY <1>1, <3>3, <4>3
      <4>7. Cardinality(reach') = a + b
        <5>1. Cardinality(reach') = a + b - 0
          BY <3>3, <4>4, Zenon
        <5>2. QED
          BY <4>3, <5>1
      <4> HIDE DEF Count
      <4>8. QED
        BY <4>3, <4>5, <4>6, <4>7
    <3>10. QED
      BY <1>1, <3>3, <3>4, <3>5, <3>6, <3>8, <3>9
  <2>4. QED
    BY <2>2, <2>3
<1>6. ~(remaining' > 0) => reach' = Nodes
  <2>1. IsFiniteSet(reach') /\ Cardinality(reach') <= Count
        /\ (Cardinality(reach') = Count => reach' = Nodes)
    BY <1>4, <1>5, FS_Subset
  <2>2. Cardinality(reach') \in Nat /\ Count \in Nat
    BY <1>4, <2>1, FS_CardinalityType
  <2>3. QED
    BY <1>5, <2>1, <2>2
<1>7. QED
  BY <1>2, <1>3, <1>5, <1>6 DEF MazeInv, Digging

(* No step of the level makes it false. *)
LEMMA MazeKept == MazeInv /\ [Next]_vars => MazeInv'
<1>1. SUFFICES ASSUME MazeInv, [Next]_vars
               PROVE  MazeInv'
  OBVIOUS
<1>2. CASE MakeMaze
  <2>1. CASE Furnish
    BY <1>1, <2>1 DEF Furnish, MazeInv, Digging
  <2>2. QED
    BY <1>1, <1>2, <2>1, DigKeeps, MarkKeeps, ConnectKeeps DEF MakeMaze
<1>3. CASE Prepare
  BY <1>1, <1>3 DEF Prepare, MazeInv, Digging
<1>4. ASSUME NEW d \in Dir \cup {Stop}, Tick(d)
      PROVE  MazeInv'
  <2>1. stage = "play" /\ stage' \in {"play", "won"} /\ walls' = walls
    BY <1>4 DEF Tick
  <2>2. QED
    BY <1>1, <2>1 DEF MazeInv, Digging
<1>5. ASSUME NEW text \in BOOLEAN, Frame(text)
      PROVE  MazeInv'
  BY <1>1, <1>5 DEF Frame, maze, MazeInv, Digging
<1>6. CASE UNCHANGED vars
  BY <1>1, <1>6 DEF vars, maze, MazeInv, Digging
<1>7. QED
  BY <1>1, <1>2, <1>3, <1>4, <1>5, <1>6 DEF Next

(* make_maze connects every point with (1,1): what the player must eat can  *)
(* be reached, and so can the exit; and mark_maze_area never walks out of   *)
(* the maze or into a point that is not open.                               *)
THEOREM EverythingReachable == Spec => []AllReachable
<1>1. LevelInit => MazeInv
  BY MazeStarts DEF LevelInit
<1>2. MazeInv /\ [Next]_vars => MazeInv'
  BY MazeKept
<1>3. MazeInv => AllReachable
  <2>1. SUFFICES ASSUME MazeInv
                 PROVE  AllReachable
    OBVIOUS
  <2>2. stage \in {"furnish", "ready"} => MarkMazeArea(<<1, 1>>, walls, {}) = Nodes
    BY <2>1, AllMarked DEF MazeInv, Digging
  <2>3. \A c \in Nodes \ walls, d \in Dir :
          Ahead(c, d, 1) \notin walls => CanGo(c, d) /\ Ahead(c, d, 2) \in Nodes \ walls
    BY <2>1 DEF MazeInv, Leads
  <2>4. QED
    BY <2>2, <2>3 DEF AllReachable
<1>4. QED
  BY <1>1, <1>2, <1>3, PTL DEF Spec


-----------------------------------------------------------------------------
(* View: where a pixel lies in the buffer.                                  *)

(* The width of a plane, and a row of it.                                   *)
LEMMA Sizes ==
  /\ SCROLL_X_WIDTH \in Nat \ {0} /\ SCROLL_X_DIM = 4 * SCROLL_X_WIDTH
  /\ SCROLL_Y_DIM \in Nat \ {0} /\ SCROLL_SIZE \in Nat
<1>1. SCROLL_X_DIM \in Nat \ {0} /\ SCROLL_X_DIM % 4 = 0 /\ SCROLL_Y_DIM \in Nat \ {0}
  BY ViewAssumption
<1>2. SCROLL_X_WIDTH \in Nat \ {0} /\ SCROLL_X_DIM = 4 * SCROLL_X_WIDTH
  BY <1>1 DEF SCROLL_X_WIDTH
<1>3. SCROLL_SIZE \in Nat
  <2>1. \A a, b \in Nat : a * b \in Nat
    OBVIOUS
  <2>2. QED
    BY <1>1, <1>2, <2>1 DEF SCROLL_SIZE
<1>4. QED
  BY <1>1, <1>2, <1>3

(* A byte of row w of a plane, and of the rows before it.                   *)
LEMMA RowsInPlane ==
  ASSUME NEW w \in 0..SCROLL_Y_DIM-1, NEW u \in 0..SCROLL_X_WIDTH-1
  PROVE  w * SCROLL_X_WIDTH \in Nat /\ u + w * SCROLL_X_WIDTH \in 0..SCROLL_SIZE-1
<1>1. SCROLL_X_WIDTH \in Nat \ {0} /\ SCROLL_Y_DIM \in Nat \ {0}
  BY Sizes
<1>2. \A a, b, c \in Nat : a <= b - 1 => a * c \in Nat /\ a * c + c <= c * b
  <2>1. SUFFICES ASSUME NEW a \in Nat, NEW b \in Nat, NEW c \in Nat, a <= b - 1
                 PROVE  a * c \in Nat /\ a * c + c <= c * b
    OBVIOUS
  <2>2. PICK d \in Nat : b = a + 1 + d
    <3>1. b - a - 1 \in Nat /\ b = a + 1 + (b - a - 1)
      BY <2>1
    <3>2. QED
      BY <3>1
  <2>3. c * b = a * c + c + c * d /\ c * d \in Nat /\ a * c \in Nat
    BY <2>2
  <2>4. QED
    BY <2>3
<1>3. w * SCROLL_X_WIDTH \in Nat
      /\ w * SCROLL_X_WIDTH + SCROLL_X_WIDTH <= SCROLL_X_WIDTH * SCROLL_Y_DIM
  BY <1>1, <1>2
<1>4. SCROLL_SIZE = SCROLL_X_WIDTH * SCROLL_Y_DIM /\ SCROLL_SIZE \in Nat
  BY Sizes DEF SCROLL_SIZE
<1>5. PICK t \in Nat : t = w * SCROLL_X_WIDTH
  BY <1>3
<1>6. QED
  BY <1>1, <1>3, <1>4, <1>5

(* Byte and row are told by the address.                                    *)
LEMMA SameRow ==
  ASSUME NEW w \in Nat, NEW u \in 0..SCROLL_X_WIDTH-1,
         NEW k \in Nat, NEW i \in 0..SCROLL_X_WIDTH-1,
         u + w * SCROLL_X_WIDTH = i + k * SCROLL_X_WIDTH
  PROVE  u = i /\ w = k
<1>1. \A a, b, c, d \in Nat, n \in Nat \ {0} :
        a < n /\ c < n /\ a + b * n = c + d * n => b <= d
  <2>1. SUFFICES ASSUME NEW a \in Nat, NEW b \in Nat, NEW c \in Nat, NEW d \in Nat,
                        NEW n \in Nat \ {0}, a < n, c < n, a + b * n = c + d * n, ~(b <= d)
                 PROVE  FALSE
    OBVIOUS
  <2>2. PICK e \in Nat : b = d + 1 + e
    <3>1. b - d - 1 \in Nat /\ b = d + 1 + (b - d - 1)
      BY <2>1
    <3>2. QED
      BY <3>1
  <2>3. b * n = d * n + n + e * n /\ e * n \in Nat /\ d * n \in Nat
    BY <2>2
  <2>4. QED
    BY <2>1, <2>3
<1>2. w <= k /\ k <= w
  BY <1>1, Sizes
<1>3. w = k
  BY <1>2
<1>4. PICK t \in Int : t = w * SCROLL_X_WIDTH
  BY Sizes
<1>5. QED
  BY <1>3, <1>4

(* Where pixel (i, j) of the window at (x, y) lies: in plane i % 4, byte u  *)
(* of row w, one byte later if that plane begins left of the window.        *)
LEMMA Located ==
  ASSUME NEW x \in Nat, NEW y \in Nat,
         NEW i \in x..x+SCROLL_X_DIM-1, NEW j \in y..y+SCROLL_Y_DIM-1
  PROVE  \E u \in 0..SCROLL_X_WIDTH-1, w \in 0..SCROLL_Y_DIM-1, e \in 0..1, r \in 0..3 :
           /\ r = i % 4 /\ e = (IF r < x % 4 THEN 1 ELSE 0)
           /\ i = 4 * (x \div 4 + u + e) + r /\ j = y + w
           /\ Offset(i, j) = Offset(x, y) + (u + w * SCROLL_X_WIDTH) + e
<1>1. SCROLL_X_WIDTH \in Nat \ {0} /\ SCROLL_X_DIM = 4 * SCROLL_X_WIDTH
      /\ SCROLL_Y_DIM \in Nat \ {0}
  BY Sizes
<1>2. PICK q \in Nat, r \in 0..3 : i = 4 * q + r /\ q = i \div 4 /\ r = i % 4
  <2>1. i \in Nat
    OBVIOUS
  <2>2. i \div 4 \in Nat /\ i % 4 \in 0..3 /\ i = 4 * (i \div 4) + (i % 4)
    BY <2>1
  <2>3. QED
    BY <2>2
<1>3. PICK p \in Nat, s \in 0..3 : x = 4 * p + s /\ p = x \div 4 /\ s = x % 4
  <2>2. x \div 4 \in Nat /\ x % 4 \in 0..3 /\ x = 4 * (x \div 4) + (x % 4)
    OBVIOUS
  <2>3. QED
    BY <2>2
<1>4. PICK e \in 0..1 : e = (IF r < s THEN 1 ELSE 0)
  OBVIOUS
<1>5. PICK u \in 0..SCROLL_X_WIDTH-1 : q = p + u + e
  <2>1. q - p - e \in 0..SCROLL_X_WIDTH-1 /\ q = p + (q - p - e) + e
    BY <1>1, <1>2, <1>3, <1>4
  <2>2. QED
    BY <2>1
<1>6. PICK w \in 0..SCROLL_Y_DIM-1 : j = y + w
  <2>1. j - y \in 0..SCROLL_Y_DIM-1 /\ j = y + (j - y)
    BY <1>1
  <2>2. QED
    BY <2>1
<1>7. (y + w) * SCROLL_X_WIDTH = y * SCROLL_X_WIDTH + w * SCROLL_X_WIDTH
      /\ y * SCROLL_X_WIDTH \in Int /\ w * SCROLL_X_WIDTH \in Int
  BY <1>1
<1>8. Offset(i, j) = Offset(x, y) + (u + w * SCROLL_X_WIDTH) + e
  <2>1. Offset(i, j) = q + (y + w) * SCROLL_X_WIDTH
        /\ Offset(x, y) = p + y * SCROLL_X_WIDTH
    BY <1>2, <1>3, <1>6 DEF Offset
  <2>2. QED
    BY <1>5, <1>7, <2>1
<1>9. QED
  BY <1>2, <1>3, <1>4, <1>5, <1>6, <1>8


Buf == 0..BUILD_BUF_SIZE-1

Rect(v) == (v.show_x..v.show_x+SCROLL_X_DIM-1) \X (v.show_y..v.show_y+SCROLL_Y_DIM-1)

(* A view as modex.c has it: the window lies in the buffer. *)
Good(v) ==
  /\ v = [show_x |-> v.show_x, show_y |-> v.show_y, img3_off |-> v.img3_off,
          build |-> [a \in Buf |-> v.build[a]]]
  /\ v.show_x \in Nat /\ v.show_y \in Nat /\ v.img3_off \in Int
  /\ \A p \in Rect(v) : Address(v, p) \in Buf

(* All of the window is in view.                                            *)
LEMMA WindowIs ==
  ASSUME NEW v, v.show_x \in Nat, v.show_y \in Nat
  PROVE  Window(v) = Rect(v)
BY Sizes DEF Window, Clipped, Rect

(* What is clipped lies in the window. *)
LEMMA ClippedIn ==
  ASSUME NEW v, v.show_x \in Nat, v.show_y \in Nat,
         NEW x \in Int, NEW y \in Int, NEW w \in Nat, NEW h \in Nat
  PROVE  /\ Clipped(v, x, y, w, h) \subseteq Window(v)
         /\ \A p \in Window(v) : p \in Clipped(v, x, y, w, h) <=>
                                   p[1] \in x..x+w-1 /\ p[2] \in y..y+h-1
<1>1. Window(v) = Rect(v)
  BY WindowIs
<1>2. SCROLL_X_DIM \in Nat /\ SCROLL_Y_DIM \in Nat
  BY ViewAssumption
<1>3. QED
  BY <1>1, <1>2 DEF Clipped, Rect

(* Where in the buffer a pixel of the window lies, counted from where the   *)
(* window begins in plane 3.                                                *)
Corner(v) == v.img3_off + Offset(v.show_x, v.show_y)

LEMMA Lies ==
  ASSUME NEW v, v.show_x \in Nat, v.show_y \in Nat, v.img3_off \in Int, NEW p \in Rect(v)
  PROVE  \E u \in 0..SCROLL_X_WIDTH-1, w \in 0..SCROLL_Y_DIM-1, e \in 0..1, r \in 0..3 :
           /\ r = p[1] % 4 /\ e = (IF r < v.show_x % 4 THEN 1 ELSE 0)
           /\ p[1] = 4 * (v.show_x \div 4 + u + e) + r /\ p[2] = v.show_y + w
           /\ Address(v, p) = Corner(v) + (u + w * SCROLL_X_WIDTH) + e + (3 - r) * SCROLL_SIZE
<1>1. PICK x \in Nat, y \in Nat, f \in Int : x = v.show_x /\ y = v.show_y /\ f = v.img3_off
  OBVIOUS
<1>2. PICK i \in x..x+SCROLL_X_DIM-1, j \in y..y+SCROLL_Y_DIM-1 : p[1] = i /\ p[2] = j
  BY <1>1 DEF Rect
<1>3. PICK u \in 0..SCROLL_X_WIDTH-1, w \in 0..SCROLL_Y_DIM-1, e \in 0..1, r \in 0..3 :
           /\ r = i % 4 /\ e = (IF r < x % 4 THEN 1 ELSE 0)
           /\ i = 4 * (x \div 4 + u + e) + r /\ j = y + w
           /\ Offset(i, j) = Offset(x, y) + (u + w * SCROLL_X_WIDTH) + e
  BY Located
<1>4. PICK z \in Int, c \in Int, t \in Int :
        z = (3 - r) * SCROLL_SIZE /\ c = Offset(x, y) /\ t = u + w * SCROLL_X_WIDTH
  BY Sizes DEF Offset
<1>5. Address(v, p) = f + Offset(i, j) + z
  BY <1>1, <1>2, <1>3, <1>4 DEF Address
<1>6. Address(v, p) = f + c + t + e + z
  BY <1>3, <1>4, <1>5
<1>7. Corner(v) = f + c
  BY <1>1, <1>4 DEF Corner
<1>8. QED
  BY <1>1, <1>2, <1>3, <1>4, <1>6, <1>7

(* No two pixels of the window share a byte. *)
LEMMA Alone ==
  ASSUME NEW v, v.show_x \in Nat, v.show_y \in Nat, v.img3_off \in Int,
         NEW p \in Rect(v), NEW q \in Rect(v), Address(v, p) = Address(v, q)
  PROVE  p = q
<1>1. PICK u \in 0..SCROLL_X_WIDTH-1, w \in 0..SCROLL_Y_DIM-1, e \in 0..1, r \in 0..3 :
           /\ r = p[1] % 4 /\ e = (IF r < v.show_x % 4 THEN 1 ELSE 0)
           /\ p[1] = 4 * (v.show_x \div 4 + u + e) + r /\ p[2] = v.show_y + w
           /\ Address(v, p) = Corner(v) + (u + w * SCROLL_X_WIDTH) + e + (3 - r) * SCROLL_SIZE
  BY Lies
<1>2. PICK i \in 0..SCROLL_X_WIDTH-1, k \in 0..SCROLL_Y_DIM-1, d \in 0..1, s \in 0..3 :
           /\ s = q[1] % 4 /\ d = (IF s < v.show_x % 4 THEN 1 ELSE 0)
           /\ q[1] = 4 * (v.show_x \div 4 + i + d) + s /\ q[2] = v.show_y + k
           /\ Address(v, q) = Corner(v) + (i + k * SCROLL_X_WIDTH) + d + (3 - s) * SCROLL_SIZE
  BY Lies
<1>3. PICK t \in 0..SCROLL_SIZE-1 : t = u + w * SCROLL_X_WIDTH
  BY RowsInPlane
<1>4. PICK b \in 0..SCROLL_SIZE-1 : b = i + k * SCROLL_X_WIDTH
  BY RowsInPlane
<1>5. PICK m \in 0..3 : m = v.show_x % 4
  OBVIOUS
<1>6. PICK c \in Int : c = Corner(v)
  <2>1. Offset(v.show_x, v.show_y) \in Int
    BY Sizes DEF Offset
  <2>2. QED
    BY <2>1 DEF Corner
<1>7. PICK n \in Nat : n = SCROLL_SIZE
  BY Sizes
<1>8. c + t + e + (3 - r) * n = c + b + d + (3 - s) * n
  BY <1>1, <1>2, <1>3, <1>4, <1>6, <1>7
<1>9. r = s
  <2>1. t \in 0..n-1 /\ b \in 0..n-1
    BY <1>3, <1>4, <1>7
  <2>2. e = (IF r < m THEN 1 ELSE 0) /\ d = (IF s < m THEN 1 ELSE 0)
    BY <1>1, <1>2, <1>5
  <2>3. /\ (3 - r) * n = (IF r = 0 THEN 3 * n ELSE IF r = 1 THEN 2 * n ELSE IF r = 2 THEN n ELSE 0)
        /\ (3 - s) * n = (IF s = 0 THEN 3 * n ELSE IF s = 1 THEN 2 * n ELSE IF s = 2 THEN n ELSE 0)
    OBVIOUS
  <2>4. PICK f \in Int, g \in Int : f = (3 - r) * n /\ g = (3 - s) * n
    OBVIOUS
  <2>5. t + e + f = b + d + g
    BY <1>8, <2>4
  <2>6. QED
    BY <2>1, <2>2, <2>3, <2>4, <2>5
<1>10. t = b /\ e = d
  <2>1. e = d
    BY <1>1, <1>2, <1>9
  <2>2. PICK f \in Int : f = (3 - r) * n
    OBVIOUS
  <2>3. QED
    BY <1>8, <1>9, <2>1, <2>2
<1>11. u = i /\ w = k
  BY <1>3, <1>4, <1>10, SameRow
<1>12. p[1] = q[1] /\ p[2] = q[2]
  BY <1>1, <1>2, <1>9, <1>10, <1>11
<1>13. QED
  BY <1>12 DEF Rect


(* Drawing changes the pixels it is given, and no other of the window.      *)
LEMMA DrawnIs ==
  ASSUME NEW v, Good(v), NEW P, P \subseteq Rect(v), NEW image
  PROVE  LET d == Drawn(v, P, image)
         IN  /\ Good(d) /\ d.show_x = v.show_x /\ d.show_y = v.show_y
             /\ \A p \in Rect(v) : Read(d, p) = IF p \in P THEN image[p] ELSE Read(v, p)
<1> DEFINE located == {<<Address(v, p), p>> : p \in P}
           written == {q[1] : q \in located}
           b  == [a \in (DOMAIN v.build) \cup written |->
                    IF a \in written THEN image[(CHOOSE q \in located : q[1] = a)[2]]
                                     ELSE v.build[a]]
           d  == Drawn(v, P, image)
<1>1. /\ v = [show_x |-> v.show_x, show_y |-> v.show_y, img3_off |-> v.img3_off,
              build |-> [a \in Buf |-> v.build[a]]]
      /\ v.show_x \in Nat /\ v.show_y \in Nat /\ v.img3_off \in Int
  BY DEF Good
<1>2. \A p \in Rect(v) : Address(v, p) \in Buf
  BY DEF Good
<1>3. d = [v EXCEPT !.build = b]
  BY DEF Drawn
<1>4. written = {Address(v, p) : p \in P}
  <2>1. \A p \in P : <<Address(v, p), p>>[1] = Address(v, p)
    OBVIOUS
  <2>2. \A q \in located : \E p \in P : q[1] = Address(v, p)
    BY <2>1
  <2>3. \A p \in P : \E q \in located : q[1] = Address(v, p)
    BY <2>1
  <2> HIDE DEF located
  <2>4. QED
    BY <2>2, <2>3
<1>5. DOMAIN v.build = Buf
  <2>1. v.build = [a \in Buf |-> v.build[a]]
    BY <1>1
  <2>2. DOMAIN [a \in Buf |-> v.build[a]] = Buf
    OBVIOUS
  <2>3. QED
    BY <2>1, <2>2, Zenon
<1>6. (DOMAIN v.build) \cup written = Buf
  BY <1>2, <1>4, <1>5
<1>7. ASSUME NEW p \in P
      PROVE  b[Address(v, p)] = image[p]
  <2>1. Address(v, p) \in written
    BY <1>4
  <2>2. PICK q : q = CHOOSE r \in located : r[1] = Address(v, p)
    OBVIOUS
  <2>3. <<Address(v, p), p>> \in located /\ <<Address(v, p), p>>[1] = Address(v, p)
    OBVIOUS
  <2>4. q \in located /\ q[1] = Address(v, p)
    BY <2>2, <2>3, Zenon
  <2>5. PICK o \in P : q = <<Address(v, o), o>>
    BY <2>4
  <2>6. o = p
    BY <1>1, <2>4, <2>5, Alone
  <2>7. q[2] = p
    BY <2>5, <2>6
  <2> HIDE DEF written
  <2>8. b[Address(v, p)] = image[q[2]]
    BY <2>1, <2>2, Zenon
  <2>9. QED
    BY <2>7, <2>8
<1>8. \A a \in Buf : a \notin written => b[a] = v.build[a]
  <2> HIDE DEF written, located
  <2>1. QED
    BY <1>6
<1>9. b = [a \in Buf |-> b[a]]
  <2> HIDE DEF written, located
  <2>1. QED
    BY <1>6
<1> HIDE DEF written
<1> HIDE DEF b, d
<1>10. /\ d = [show_x |-> v.show_x, show_y |-> v.show_y, img3_off |-> v.img3_off, build |-> b]
      /\ d.show_x = v.show_x /\ d.show_y = v.show_y /\ d.img3_off = v.img3_off /\ d.build = b
  BY <1>1, <1>3
<1>11. \A p : Address(d, p) = Address(v, p)
  BY <1>10 DEF Address
<1>12. Rect(d) = Rect(v)
  BY <1>10 DEF Rect
<1>13. Good(d)
  <2>1. d = [show_x |-> d.show_x, show_y |-> d.show_y, img3_off |-> d.img3_off,
             build |-> [a \in Buf |-> d.build[a]]]
    BY <1>10, <1>9
  <2>2. \A p \in Rect(d) : Address(d, p) \in Buf
    BY <1>2, <1>11, <1>12
  <2>3. QED
    BY <1>1, <1>10, <2>1, <2>2 DEF Good
<1>14. ASSUME NEW p \in Rect(v)
       PROVE  Read(d, p) = IF p \in P THEN image[p] ELSE Read(v, p)
  <2>1. Read(d, p) = b[Address(v, p)]
    BY <1>10, <1>11 DEF Read
  <2>2. Address(v, p) \in Buf
    BY <1>2
  <2>3. Address(v, p) \in written => p \in P
    BY <1>1, <1>4, Alone
  <2>4. QED
    BY <1>7, <1>8, <2>1, <2>2, <2>3 DEF Read
<1>15. QED
  BY <1>10, <1>13, <1>14 DEF d

(* What does not count is forgotten. *)
LEMMA ForgetIs ==
  ASSUME NEW v, Good(v)
  PROVE  LET d == Forget(v)
         IN  /\ Good(d) /\ d.show_x = v.show_x /\ d.show_y = v.show_y
             /\ \A p \in Rect(v) : Read(d, p) = Read(v, p)
<1> DEFINE used == {Address(v, p) : p \in Window(v)}
           b == [a \in DOMAIN v.build |-> IF a \in used THEN v.build[a] ELSE None]
           d == Forget(v)
<1>1. /\ v = [show_x |-> v.show_x, show_y |-> v.show_y, img3_off |-> v.img3_off,
              build |-> [a \in Buf |-> v.build[a]]]
      /\ v.show_x \in Nat /\ v.show_y \in Nat /\ v.img3_off \in Int
  BY DEF Good
<1>2. \A p \in Rect(v) : Address(v, p) \in Buf /\ Address(v, p) \in used
  BY <1>1, WindowIs DEF Good
<1>3. d = [v EXCEPT !.build = b]
  BY DEF Forget
<1>4. DOMAIN v.build = Buf
  <2>1. v.build = [a \in Buf |-> v.build[a]]
    BY <1>1
  <2>2. DOMAIN [a \in Buf |-> v.build[a]] = Buf
    OBVIOUS
  <2>3. QED
    BY <2>1, <2>2, Zenon
<1>5. b = [a \in Buf |-> b[a]] /\ \A p \in Rect(v) : b[Address(v, p)] = Read(v, p)
  <2> HIDE DEF used
  <2>1. \A p \in Rect(v) : b[Address(v, p)] = v.build[Address(v, p)]
    BY <1>2, <1>4
  <2>2. b = [a \in Buf |-> b[a]]
    BY <1>4
  <2>3. QED
    BY <2>1, <2>2 DEF Read
<1> HIDE DEF b, d
<1>6. /\ d = [show_x |-> v.show_x, show_y |-> v.show_y, img3_off |-> v.img3_off, build |-> b]
      /\ d.show_x = v.show_x /\ d.show_y = v.show_y /\ d.img3_off = v.img3_off /\ d.build = b
  BY <1>1, <1>3
<1>7. \A p : Address(d, p) = Address(v, p)
  BY <1>6 DEF Address
<1>8. Rect(d) = Rect(v)
  BY <1>6 DEF Rect
<1>9. d = [show_x |-> d.show_x, show_y |-> d.show_y, img3_off |-> d.img3_off,
           build |-> [a \in Buf |-> d.build[a]]]
  BY <1>5, <1>6
<1>10. Good(d)
  BY <1>1, <1>2, <1>6, <1>7, <1>8, <1>9 DEF Good
<1>11. \A p \in Rect(v) : Read(d, p) = Read(v, p)
  <2>1. \A p \in Rect(v) : Read(d, p) = b[Address(v, p)]
    BY <1>6, <1>7 DEF Read
  <2>2. QED
    BY <1>5, <2>1
<1>12. QED
  BY <1>6, <1>10, <1>11 DEF d


-----------------------------------------------------------------------------
(* View: the window moves.                                                  *)

(* Further right and further down is further on in the plane.               *)
LEMMA OffsetGrows ==
  ASSUME NEW a \in Nat, NEW b \in Nat, NEW c \in Nat, NEW d \in Nat, a <= b, c <= d
  PROVE  Offset(a, c) \in Nat /\ Offset(b, d) \in Nat /\ Offset(a, c) <= Offset(b, d)
<1>1. a \div 4 \in Nat /\ b \div 4 \in Nat /\ a \div 4 <= b \div 4
  OBVIOUS
<1>2. \A n \in Nat : c * n \in Nat /\ d * n \in Nat /\ c * n <= d * n
  <2>1. PICK e \in Nat : d = c + e
    <3>1. d - c \in Nat /\ d = c + (d - c)
      OBVIOUS
    <3>2. QED
      BY <3>1
  <2>2. \A n \in Nat : d * n = c * n + e * n /\ c * n \in Nat /\ e * n \in Nat
    BY <2>1
  <2>3. QED
    BY <2>2
<1>3. c * SCROLL_X_WIDTH \in Nat /\ d * SCROLL_X_WIDTH \in Nat
      /\ c * SCROLL_X_WIDTH <= d * SCROLL_X_WIDTH
  BY <1>2, Sizes
<1>4. QED
  BY <1>1, <1>3 DEF Offset

LEMMA OffsetIs ==
  ASSUME NEW a \in Nat, NEW b \in Nat
  PROVE  Offset(a, b) \in Nat
<1>1. a <= a /\ b <= b
  OBVIOUS
<1>2. QED
  BY <1>1, OffsetGrows

(* Where the plane of a pixel begins. *)
LEMMA PlaneIs ==
  ASSUME NEW i \in Nat, NEW k \in Nat
  PROVE  (3 - (i % 4)) * k \in 0..3*k
<1>1. PICK r \in 0..3 : r = i % 4
  OBVIOUS
<1>2. (3 - r) * k = (IF r = 0 THEN 3 * k ELSE IF r = 1 THEN 2 * k ELSE IF r = 2 THEN k ELSE 0)
  OBVIOUS
<1>3. PICK z \in Int : z = (3 - r) * k
  OBVIOUS
<1>4. z \in 0..3*k
  BY <1>2, <1>3
<1>5. QED
  BY <1>1, <1>3, <1>4

(* The window placed in the middle of the buffer lies in it. *)
LEMMA Middle ==
  /\ BUILD_BUF_SIZE \in Nat /\ BUILD_BASE_INIT \in Nat
  /\ BUILD_BASE_INIT + 4 * SCROLL_SIZE < BUILD_BUF_SIZE
<1>1. Spare \in Nat
  BY ViewAssumption
<1>2. PICK n \in Nat : n = SCROLL_SIZE
  BY Sizes
<1>3. BUILD_BUF_SIZE = 4 * n + 1 + Spare /\ BUILD_BASE_INIT = Spare \div 2
  BY <1>1, <1>2 DEF BUILD_BUF_SIZE, BUILD_BASE_INIT, SCREEN_SIZE
<1>4. QED
  BY <1>1, <1>2, <1>3

(* From the corner of the window on, its pixels take 4 * SCROLL_SIZE + 1    *)
(* bytes.                                                                   *)
LEMMA Takes ==
  ASSUME NEW v, v.show_x \in Nat, v.show_y \in Nat, v.img3_off \in Int, NEW p \in Rect(v)
  PROVE  Corner(v) \in Int /\ Address(v, p) \in Corner(v)..Corner(v) + 4 * SCROLL_SIZE
<1>1. PICK u \in 0..SCROLL_X_WIDTH-1, w \in 0..SCROLL_Y_DIM-1, e \in 0..1, r \in 0..3 :
           Address(v, p) = Corner(v) + (u + w * SCROLL_X_WIDTH) + e + (3 - r) * SCROLL_SIZE
  BY Lies
<1>2. PICK n \in Nat : n = SCROLL_SIZE
  BY Sizes
<1>3. PICK t \in 0..n-1 : t = u + w * SCROLL_X_WIDTH
  BY <1>2, RowsInPlane
<1>4. PICK z \in 0..3*n : z = (3 - r) * n
  <2>1. r \in Nat /\ r % 4 = r
    OBVIOUS
  <2>2. (3 - (r % 4)) * n \in 0..3*n
    BY <2>1, PlaneIs
  <2>3. QED
    BY <2>1, <2>2
<1>5. PICK c \in Int : c = Corner(v)
  <2>1. Offset(v.show_x, v.show_y) \in Nat
    BY OffsetIs
  <2>2. QED
    BY <2>1 DEF Corner
<1>6. Address(v, p) = c + t + e + z
  BY <1>1, <1>2, <1>3, <1>4, <1>5
<1>7. QED
  BY <1>2, <1>5, <1>6

(* After set_view_window the window lies in the buffer, and what was in     *)
(* view and still is has not changed.                                       *)
LEMMA SetViewWindowIs ==
  ASSUME NEW v, Good(v), NEW x \in Nat, NEW y \in Nat
  PROVE  LET d == SetViewWindow(v, x, y)
         IN  /\ Good(d) /\ d.show_x = x /\ d.show_y = y
             /\ \A p \in Rect(v) \cap Rect(d) : Read(d, p) = Read(v, p)
<1> DEFINE d == SetViewWindow(v, x, y)
           off == BUILD_BASE_INIT - Offset(x, y)
           left  == Larger(x, v.show_x)
           top   == Larger(y, v.show_y)
           right == Smaller(x, v.show_x) + SCROLL_X_DIM - 1
           under == Smaller(y, v.show_y) + SCROLL_Y_DIM - 1
           from == Offset(left, top)
           to   == Offset(right, under)
           n    == to + 1 - from + 3 * SCROLL_SIZE
           b    == Copied(v.build, v.img3_off + from, off + from, n)
<1>1. /\ v = [show_x |-> v.show_x, show_y |-> v.show_y, img3_off |-> v.img3_off,
              build |-> [a \in Buf |-> v.build[a]]]
      /\ v.show_x \in Nat /\ v.show_y \in Nat /\ v.img3_off \in Int
  BY DEF Good
<1>2. \A p \in Rect(v) : Address(v, p) \in Buf
  BY DEF Good
<1>3. PICK build : build = v.build /\ build = [a \in Buf |-> build[a]]
  BY <1>1
<1>4. Offset(x, y) \in Nat /\ off \in Int
  <2>1. Offset(x, y) \in Nat
    BY OffsetIs
  <2>2. QED
    BY <2>1, Middle
<1>5. CASE Fits(v, x, y)
  <2>1. d = [show_x |-> x, show_y |-> y, img3_off |-> v.img3_off, build |-> build]
    BY <1>1, <1>3, <1>5 DEF SetViewWindow
  <2> HIDE DEF d
  <2>2. d.show_x = x /\ d.show_y = y /\ d.img3_off = v.img3_off /\ d.build = v.build
    BY <1>3, <2>1
  <2>3. \A p : Address(d, p) = Address(v, p)
    BY <2>2 DEF Address
  <2>4. ASSUME NEW p \in Rect(d)
        PROVE  Address(d, p) \in Buf
    <3>1. PICK a \in Int : a = Address(d, p) /\ Corner(d) <= a
      <4>1. Corner(d) \in Int /\ Address(d, p) \in Corner(d)..Corner(d) + 4 * SCROLL_SIZE
        BY <1>1, <2>2, Takes
      <4>2. QED
        BY <4>1, Sizes
    <3>2. 0 <= a
      BY <3>1, <1>1, <1>4, <1>5, <2>2 DEF Fits, Corner
    <3>3. PICK i \in Nat, j \in Nat : /\ p[1] = i /\ p[2] = j
                                      /\ i <= x + SCROLL_X_DIM - 1 /\ j <= y + SCROLL_Y_DIM - 1
      BY <2>2, ViewAssumption DEF Rect
    <3>4. PICK e \in Nat, f \in Nat : /\ e = x + SCROLL_X_DIM - 1 /\ f = y + SCROLL_Y_DIM - 1
                                      /\ i <= e /\ j <= f
      BY <3>3, ViewAssumption
    <3>5. Offset(i, j) \in Nat /\ Offset(e, f) \in Nat /\ Offset(i, j) <= Offset(e, f)
      BY <3>4, OffsetGrows
    <3>6. PICK k \in Nat : k = SCROLL_SIZE
      BY Sizes
    <3>7. PICK z \in Int : z = (3 - (i % 4)) * k /\ z <= 3 * k
      BY <3>3, <3>6, PlaneIs
    <3>8. a = v.img3_off + Offset(i, j) + z
      BY <3>1, <3>3, <3>6, <3>7, <2>2 DEF Address
    <3>9. v.img3_off + 3 * k + Offset(e, f) < BUILD_BUF_SIZE
      BY <1>5, <3>4, <3>6 DEF Fits
    <3>10. a < BUILD_BUF_SIZE
      BY <1>1, <3>5, <3>7, <3>8, <3>9, Middle
    <3>11. QED
      BY <3>1, <3>2, <3>10, Middle DEF Buf
  <2>5. d = [show_x |-> d.show_x, show_y |-> d.show_y, img3_off |-> d.img3_off,
             build |-> [a \in Buf |-> d.build[a]]]
    BY <1>3, <2>1, <2>2
  <2>6. Good(d)
    BY <1>1, <2>2, <2>4, <2>5 DEF Good
  <2>7. \A p : Read(d, p) = Read(v, p)
    BY <2>2, <2>3 DEF Read
  <2>8. QED
    BY <2>2, <2>6, <2>7 DEF d
<1>6. ASSUME NEW g, g = [a \in Buf |-> g[a]],
             d = [show_x |-> x, show_y |-> y, img3_off |-> off, build |-> g]
      PROVE  /\ Good(d) /\ d.show_x = x /\ d.show_y = y /\ d.img3_off = off /\ d.build = g
  <2> HIDE DEF d, off
  <2>1. d.show_x = x /\ d.show_y = y /\ d.img3_off = off /\ d.build = g
    BY <1>6
  <2>2. Corner(d) = BUILD_BASE_INIT
    BY <1>4, <2>1, Middle DEF Corner, off
  <2>3. ASSUME NEW p \in Rect(d)
        PROVE  Address(d, p) \in Buf
    <3>1. Address(d, p) \in Corner(d)..Corner(d) + 4 * SCROLL_SIZE
      BY <1>4, <2>1, Takes
    <3>2. PICK m \in Nat : m = 4 * SCROLL_SIZE
      BY Sizes
    <3>3. Address(d, p) \in BUILD_BASE_INIT..BUILD_BASE_INIT + m /\ BUILD_BASE_INIT + m < BUILD_BUF_SIZE
      BY <2>2, <3>1, <3>2, Middle
    <3>4. QED
      BY <3>3, Middle DEF Buf
  <2>4. d = [show_x |-> d.show_x, show_y |-> d.show_y, img3_off |-> d.img3_off,
             build |-> [a \in Buf |-> d.build[a]]]
    BY <1>6, <2>1
  <2>5. QED
    BY <1>4, <2>1, <2>3, <2>4 DEF Good
<1>7. CASE ~Fits(v, x, y) /\ Apart(v, x, y)
  <2>1. d = [show_x |-> x, show_y |-> y, img3_off |-> off, build |-> build]
    BY <1>1, <1>3, <1>7 DEF SetViewWindow
  <2> HIDE DEF d, off
  <2>2. Good(d) /\ d.show_x = x /\ d.show_y = y
    BY <1>3, <1>6, <2>1
  <2>3. Rect(v) \cap Rect(d) = {}
    BY <1>1, <1>7, <2>2, ViewAssumption DEF Rect, Apart
  <2>4. QED
    BY <2>2, <2>3 DEF d
<1>8. CASE ~Fits(v, x, y) /\ ~Apart(v, x, y)
  <2>1. b = [a \in Buf |-> b[a]]
    <3>1. DOMAIN build = Buf
      <4>1. DOMAIN [a \in Buf |-> build[a]] = Buf
        OBVIOUS
      <4>2. QED
        BY <1>3, <4>1, Zenon
    <3>2. QED
      BY <1>3, <3>1 DEF Copied
  <2>2. d = [show_x |-> x, show_y |-> y, img3_off |-> off, build |-> b]
    BY <1>1, <1>8 DEF SetViewWindow
  <2> HIDE DEF d, b
  <2>3. Good(d) /\ d.show_x = x /\ d.show_y = y /\ d.img3_off = off /\ d.build = b
    BY <1>6, <2>1, <2>2
  <2>4. ASSUME NEW p \in Rect(v) \cap Rect(d)
        PROVE  Read(d, p) = Read(v, p)
    <3>1. PICK i \in Nat, j \in Nat :
            /\ p[1] = i /\ p[2] = j
            /\ left <= i /\ i <= right /\ top <= j /\ j <= under
      <4>1. PICK i \in Nat, j \in Nat :
            /\ p[1] = i /\ p[2] = j
            /\ x <= i /\ i <= x + SCROLL_X_DIM - 1 /\ y <= j /\ j <= y + SCROLL_Y_DIM - 1
            /\ v.show_x <= i /\ i <= v.show_x + SCROLL_X_DIM - 1
            /\ v.show_y <= j /\ j <= v.show_y + SCROLL_Y_DIM - 1
        BY <1>1, <2>3, ViewAssumption DEF Rect
      <4>2. QED
        BY <4>1 DEF Larger, Smaller
    <3>2. left \in Nat /\ top \in Nat /\ right \in Nat /\ under \in Nat
      BY <1>1, ViewAssumption DEF Larger, Smaller
    <3> HIDE DEF left, top, right, under
    <3>3. /\ from \in Nat /\ to \in Nat /\ Offset(i, j) \in Nat
          /\ from <= Offset(i, j) /\ Offset(i, j) <= to
      BY <3>1, <3>2, OffsetGrows
    <3> HIDE DEF from, to
    <3>4. PICK k \in Nat : k = SCROLL_SIZE
      BY Sizes
    <3>5. PICK z \in 0..3*k : z = (3 - (i % 4)) * k
      BY <3>1, <3>4, PlaneIs
    <3>6. PICK o \in Nat : o = Offset(i, j)
      BY <3>3
    <3>7. Address(d, p) = off + o + z /\ Address(v, p) = v.img3_off + o + z
      BY <2>3, <3>1, <3>4, <3>5, <3>6 DEF Address
    <3>8. Address(d, p) \in Buf
      BY <2>3 DEF Good
    <3>9. PICK s \in Int, t \in Int : s = v.img3_off + from /\ t = off + from
      BY <1>1, <1>4, <3>3
    <3>10. PICK a \in Int : a = off + o + z
      BY <1>4
    <3>11. n = to + 1 - from + 3 * k /\ n \in Nat
      BY <3>3, <3>4, <3>6
    <3> HIDE DEF n, off
    <3>12. a \in t..t+n-1 /\ s + (a - t) = v.img3_off + o + z
      BY <1>1, <1>4, <3>3, <3>5, <3>6, <3>9, <3>10, <3>11
    <3>13. a \in DOMAIN v.build
      <4>1. DOMAIN [e \in Buf |-> build[e]] = Buf
        OBVIOUS
      <4>2. DOMAIN v.build = Buf
        BY <1>3, <4>1, Zenon
      <4>3. QED
        BY <3>7, <3>8, <3>10, <4>2
    <3>14. b = Copied(v.build, s, t, n)
      BY <3>9 DEF b
    <3>15. b[a] = v.build[s + (a - t)]
      <4>1. Downward(a - t, n, s, t) = a - t \/ ~(s < t)
        BY <3>9 DEF Downward
      <4>2. Upward(a - t, s, t) = a - t \/ s < t
        BY <3>9 DEF Upward
      <4>3. b[a] = IF s < t THEN v.build[s + Downward(a - t, n, s, t)]
                            ELSE v.build[s + Upward(a - t, s, t)]
        BY <3>12, <3>13, <3>14 DEF Copied
      <4>4. QED
        BY <4>1, <4>2, <4>3
    <3>16. QED
      BY <2>3, <3>7, <3>10, <3>12, <3>15 DEF Read
  <2>5. QED
    BY <2>3, <2>4 DEF d
<1>9. QED
  BY <1>5, <1>7, <1>8


-----------------------------------------------------------------------------
(* The display shows the window, pixel by pixel. *)
LEMMA ShownIs ==
  ASSUME NEW v, v.show_x \in Nat, v.show_y \in Nat, v.img3_off \in Int,
         NEW c \in 0..SCROLL_X_DIM-1, NEW r \in 0..SCROLL_Y_DIM-1
  PROVE  Shown(v, c, r) = Read(v, <<v.show_x + c, v.show_y + r>>)
<1>1. PICK x \in Nat, y \in Nat, f \in Int : x = v.show_x /\ y = v.show_y /\ f = v.img3_off
  OBVIOUS
<1>2. PICK q \in Nat, i \in 0..3 : c = 4 * q + i /\ q = c \div 4 /\ i = c % 4
  <2>1. c \in Nat
    BY Sizes
  <2>2. c \div 4 \in Nat /\ c % 4 \in 0..3 /\ c = 4 * (c \div 4) + (c % 4)
    BY <2>1
  <2>3. QED
    BY <2>2
<1>3. PICK p \in Nat, s \in 0..3 : x = 4 * p + s /\ p = x \div 4 /\ s = x % 4
  <2>1. x \div 4 \in Nat /\ x % 4 \in 0..3 /\ x = 4 * (x \div 4) + (x % 4)
    OBVIOUS
  <2>2. QED
    BY <2>1
<1>4. PICK e \in 0..1 : e = (IF 3 - s < i THEN 1 ELSE 0)
  OBVIOUS
<1>5. PICK t \in 0..3 : t = s + i - 4 * e
  <2>1. s + i - 4 * e \in 0..3
    BY <1>4
  <2>2. QED
    BY <2>1
<1>6. x + c = 4 * (p + q + e) + t
  BY <1>2, <1>3, <1>5
<1>7. (x + c) \div 4 = p + q + e /\ (x + c) % 4 = t
  BY <1>6
<1>8. ((3 - s) - i + 4) % 4 = 3 - t
  <2>1. (3 - s) - i + 4 = 4 * (1 - e) + (3 - t)
    BY <1>5
  <2>2. PICK k \in 0..3 : k = 3 - t
    OBVIOUS
  <2>3. (4 * (1 - e) + k) % 4 = k
    BY <1>4
  <2>4. QED
    BY <2>1, <2>2, <2>3
<1>9. PICK w \in Int, z \in Int, a \in Int, b \in Int :
        /\ w = SCROLL_X_WIDTH /\ z = (3 - t) * SCROLL_SIZE /\ a = y * SCROLL_X_WIDTH
        /\ b = r * SCROLL_X_WIDTH
  BY Sizes
<1>10. (y + r) * SCROLL_X_WIDTH = a + b
  <2>1. r \in Nat /\ SCROLL_X_WIDTH \in Nat
    BY Sizes
  <2>2. \A k, m, n \in Nat : (k + m) * n = k * n + m * n
    OBVIOUS
  <2>3. QED
    BY <1>9, <2>1, <2>2
<1>11. Address(v, <<x + c, y + r>>) = f + ((p + q + e) + (a + b)) + z
  BY <1>1, <1>7, <1>9, <1>10 DEF Address, Offset
<1>12. Shown(v, c, r) = v.build[f + (p + a) + z + e + (b + q)]
  <2>1. Offset(x, y) = p + a
    BY <1>3, <1>9 DEF Offset
  <2>2. Shown(v, c, r) =
          v.build[f + Offset(x, y) + (((3 - s) - i + 4) % 4) * SCROLL_SIZE + e + (b + q)]
    BY <1>1, <1>2, <1>3, <1>4, <1>9 DEF Shown
  <2>3. QED
    BY <1>8, <1>9, <2>1, <2>2
<1>13. f + (p + a) + z + e + (b + q) = f + ((p + q + e) + (a + b)) + z
  BY <1>9
<1>14. QED
  BY <1>1, <1>11, <1>12, <1>13 DEF Read

-----------------------------------------------------------------------------
(* Squares and pixels. *)
LEMMA SquareIs ==
  ASSUME NEW B \in Nat \ {0}, NEW a \in Nat, NEW i \in 0..B-1
  PROVE  /\ a * B \in Nat /\ a * B + i \in Nat
         /\ (a * B + i) \div B = a /\ (a * B + i) % B = i
<1>1. a * B \in Nat /\ a * B + i \in Nat
  OBVIOUS
<1>2. PICK k \in Nat, m \in 0..B-1 :
        /\ k = (a * B + i) \div B /\ m = (a * B + i) % B /\ k * B + m = a * B + i
  <2>1. \A z \in Nat : z \div B \in Nat /\ z % B \in 0..B-1 /\ (z \div B) * B + (z % B) = z
    OBVIOUS
  <2>2. QED
    BY <1>1, <2>1
<1>3. ~(k < a)
  <2>1. SUFFICES ASSUME k < a
                 PROVE  FALSE
    OBVIOUS
  <2>2. PICK d \in Nat : a = k + 1 + d
    <3>1. a - k - 1 \in Nat /\ a = k + 1 + (a - k - 1)
      BY <2>1
    <3>2. QED
      BY <3>1
  <2>3. a * B = k * B + B + d * B /\ d * B \in Nat /\ k * B \in Nat
    BY <2>2
  <2>4. QED
    BY <1>2, <2>3
<1>4. ~(a < k)
  <2>1. SUFFICES ASSUME a < k
                 PROVE  FALSE
    OBVIOUS
  <2>2. PICK d \in Nat : k = a + 1 + d
    <3>1. k - a - 1 \in Nat /\ k = a + 1 + (k - a - 1)
      BY <2>1
    <3>2. QED
      BY <3>1
  <2>3. k * B = a * B + B + d * B /\ d * B \in Nat /\ a * B \in Nat
    BY <2>2
  <2>4. QED
    BY <1>2, <2>3
<1>5. k = a
  BY <1>3, <1>4
<1>6. PICK z \in Int : z = a * B
  OBVIOUS
<1>7. m = i
  BY <1>2, <1>5, <1>6
<1>8. QED
  BY <1>1, <1>2, <1>5, <1>7

(* A pixel coordinate is a square and a rest.                               *)
LEMMA Divided ==
  ASSUME NEW B \in Nat \ {0}, NEW x \in Nat
  PROVE  \E a \in Nat, i \in 0..B-1 :
           x = a * B + i /\ x \div B = a /\ x % B = i /\ a * B \in Nat
<1>1. x \div B \in Nat /\ x % B \in 0..B-1 /\ (x \div B) * B + (x % B) = x
      /\ (x \div B) * B \in Nat
  OBVIOUS
<1>2. QED
  BY <1>1

(* A pixel further. *)
LEMMA Further ==
  ASSUME NEW B \in Nat \ {0}, NEW a \in Nat, NEW i \in 0..B-1
  PROVE  /\ i < B - 1 => (a * B + i) + 1 = a * B + (i + 1)
         /\ i = B - 1 => (a * B + i) + 1 = (a + 1) * B + 0
         /\ i > 0 => (a * B + i) - 1 = a * B + (i - 1)
         /\ i = 0 => (a * B + i) - 1 = (a - 1) * B + (B - 1)
<1>1. (a + 1) * B = a * B + B /\ (a - 1) * B = a * B - B /\ a * B \in Int
  OBVIOUS
<1>2. QED
  BY <1>1


-----------------------------------------------------------------------------
(* The player and the window.                                               *)

(* Along one axis: the window at s of extent D, the player at z, a block of *)
(* extent B, the far edge of what may be seen at M.                         *)
Keeps(s, z, D, B, M) ==
  /\ SHOW_MIN <= s /\ s + D <= M
  /\ s <= z /\ z + B <= s + D
  /\ z >= s + B * PAN_BORDER \/ s = SHOW_MIN
  /\ z <= s + D - B * (PAN_BORDER + 1) \/ s + D = M

(* The constants along that axis, for a maze of N + 1 squares.              *)
Axis(D, B, N) ==
  /\ D \in Nat /\ B \in Nat \ {0} /\ N \in Nat /\ N >= 2
  /\ SHOW_MIN <= B /\ D + 2 * SHOW_MIN <= (N + 1) * B
  /\ B * (2 * PAN_BORDER + 1) <= D /\ B * (PAN_BORDER + 2) <= D + SHOW_MIN

(* Both axes of the game are such.                                          *)
LEMMA Axes ==
  Axis(SCROLL_X_DIM, BLOCK_X_DIM, Width) /\ Axis(SCROLL_Y_DIM, BLOCK_Y_DIM, Height)
BY ViewAssumption, LevelAssumption, MazeAssumption, RoomAssumption DEF Axis, Width, Height

(* The products of a block, named for the linear steps.                     *)
LEMMA Products ==
  ASSUME NEW B \in Nat, NEW N \in Nat
  PROVE  \E b \in Nat, m \in Nat :
           /\ b = B * PAN_BORDER /\ B * (PAN_BORDER + 1) = b + B
           /\ B * (PAN_BORDER + 2) = b + 2 * B /\ B * (2 * PAN_BORDER + 1) = 2 * b + B
           /\ m = N * B /\ (N + 1) * B = m + B /\ (N - 1) * B = m - B
<1>1. PAN_BORDER \in Nat
  BY LevelAssumption
<1>2. \A P \in Nat : /\ B * P \in Nat /\ B * (P + 1) = B * P + B
                     /\ B * (P + 2) = B * P + 2 * B /\ B * (2 * P + 1) = 2 * (B * P) + B
  OBVIOUS
<1>3. N * B \in Nat /\ (N + 1) * B = N * B + B /\ (N - 1) * B = N * B - B
  OBVIOUS
<1>4. PICK b \in Nat, m \in Nat : b = B * PAN_BORDER /\ m = N * B
  BY <1>1, <1>2, <1>3
<1>5. QED
  BY <1>1, <1>2, <1>3, <1>4

(* prepare_maze_level: the window is at the corner, the player at (1,1).    *)
LEMMA KeptFirst ==
  ASSUME NEW D, NEW B, NEW N, Axis(D, B, N)
  PROVE  Keeps(SHOW_MIN, B, D, B, (N + 1) * B - SHOW_MIN)
<1>1. /\ D \in Nat /\ B \in Nat \ {0} /\ N \in Nat /\ SHOW_MIN \in Nat
      /\ SHOW_MIN <= B /\ D + 2 * SHOW_MIN <= (N + 1) * B
      /\ B * (PAN_BORDER + 2) <= D + SHOW_MIN
  BY LevelAssumption DEF Axis
<1>2. PICK b \in Nat, m \in Nat :
           /\ b = B * PAN_BORDER /\ B * (PAN_BORDER + 1) = b + B
           /\ B * (PAN_BORDER + 2) = b + 2 * B /\ B * (2 * PAN_BORDER + 1) = 2 * b + B
           /\ m = N * B /\ (N + 1) * B = m + B /\ (N - 1) * B = m - B
  BY <1>1, Products
<1>3. QED
  BY <1>1, <1>2 DEF Keeps

(* A step back, and one forward; the window follows where it pans.          *)
LEMMA KeptBack ==
  ASSUME NEW D, NEW B, NEW N, Axis(D, B, N), NEW s \in Nat, NEW z \in Nat,
         Keeps(s, z, D, B, (N + 1) * B - SHOW_MIN), z - 1 >= B
  PROVE  IF z - 1 < s + B * PAN_BORDER /\ s > SHOW_MIN
           THEN Keeps(s - 1, z - 1, D, B, (N + 1) * B - SHOW_MIN)
           ELSE Keeps(s, z - 1, D, B, (N + 1) * B - SHOW_MIN)
<1>1. /\ D \in Nat /\ B \in Nat \ {0} /\ N \in Nat /\ SHOW_MIN \in Nat
      /\ SHOW_MIN <= B /\ D + 2 * SHOW_MIN <= (N + 1) * B
      /\ B * (2 * PAN_BORDER + 1) <= D
  BY LevelAssumption DEF Axis
<1>2. PICK b \in Nat, m \in Nat :
           /\ b = B * PAN_BORDER /\ B * (PAN_BORDER + 1) = b + B
           /\ B * (PAN_BORDER + 2) = b + 2 * B /\ B * (2 * PAN_BORDER + 1) = 2 * b + B
           /\ m = N * B /\ (N + 1) * B = m + B /\ (N - 1) * B = m - B
  BY <1>1, Products
<1>3. QED
  BY <1>1, <1>2 DEF Keeps

LEMMA KeptOn ==
  ASSUME NEW D, NEW B, NEW N, Axis(D, B, N), NEW s \in Nat, NEW z \in Nat,
         Keeps(s, z, D, B, (N + 1) * B - SHOW_MIN), z + 1 <= (N - 1) * B
  PROVE  IF z + 1 > s + D - B * (PAN_BORDER + 1) /\ s + D < (N + 1) * B - SHOW_MIN
           THEN Keeps(s + 1, z + 1, D, B, (N + 1) * B - SHOW_MIN)
           ELSE Keeps(s, z + 1, D, B, (N + 1) * B - SHOW_MIN)
<1>1. /\ D \in Nat /\ B \in Nat \ {0} /\ N \in Nat /\ SHOW_MIN \in Nat
      /\ SHOW_MIN <= B /\ D + 2 * SHOW_MIN <= (N + 1) * B
      /\ B * (2 * PAN_BORDER + 1) <= D
  BY LevelAssumption DEF Axis
<1>2. PICK b \in Nat, m \in Nat :
           /\ b = B * PAN_BORDER /\ B * (PAN_BORDER + 1) = b + B
           /\ B * (PAN_BORDER + 2) = b + 2 * B /\ B * (2 * PAN_BORDER + 1) = 2 * b + B
           /\ m = N * B /\ (N + 1) * B = m + B /\ (N - 1) * B = m - B
  BY <1>1, Products
<1>3. QED
  BY <1>1, <1>2 DEF Keeps

-----------------------------------------------------------------------------
(* The boundary of the maze is wall. *)
Border(w) == \A c \in Places : c[1] = 0 \/ c[2] <= 0 \/ c[2] >= Height => c \in w

(* The player is on a square without wall, or on the way from it to the     *)
(* next on the right or below, which has none either.                       *)
StandsAt(w, x, y, a, b, i, j) ==
  /\ x = a * BLOCK_X_DIM + i /\ y = b * BLOCK_Y_DIM + j
  /\ <<a, b>> \notin w
  /\ i # 0 => j = 0 /\ a + 1 <= Width - 1 /\ <<a + 1, b>> \notin w
  /\ j # 0 => i = 0 /\ b + 1 <= Height - 1 /\ <<a, b + 1>> \notin w

Stands(w, x, y) ==
  \E a \in 1..Width-1, b \in 1..Height-1, i \in 0..BLOCK_X_DIM-1, j \in 0..BLOCK_Y_DIM-1 :
    StandsAt(w, x, y, a, b, i, j)

(* The squares next to the player's, and that the way there leads past no   *)
(* edge of the maze.                                                        *)
LEMMA NextSquare ==
  ASSUME NEW w, Border(w), NEW a \in 1..Width-1, NEW b \in 1..Height-1, NEW d \in Dir,
         Ahead(<<a, b>>, d, 1) \notin w
  PROVE  LET c == Ahead(<<a, b>>, d, 1)
         IN  /\ c[1] = a + (IF d = 1 THEN 1 ELSE IF d = 3 THEN -1 ELSE 0)
             /\ c[2] = b + (IF d = 2 THEN 1 ELSE IF d = 0 THEN -1 ELSE 0)
             /\ c = <<c[1], c[2]>> /\ c[1] \in 1..Width-1 /\ c[2] \in 1..Height-1
<1>1. Width \in Nat /\ Height \in Nat /\ Width >= 2 /\ Height >= 2
  BY MazeAssumption DEF Width, Height
<1>2. PICK e \in -1..1, f \in -1..1 :
        /\ e = (IF d = 1 THEN 1 ELSE IF d = 3 THEN -1 ELSE 0)
        /\ f = (IF d = 2 THEN 1 ELSE IF d = 0 THEN -1 ELSE 0)
        /\ e = 0 \/ f = 0
  BY DEF Dir
<1>3. Ahead(<<a, b>>, d, 1) = Place(a + e, b + f)
  BY <1>2 DEF Ahead
<1>4. Place(a + e, b + f) =
        IF a + e < Width THEN <<a + e, b + f>> ELSE <<(a + e) - Width, (b + f) + 1>>
  BY Zenon DEF Place
<1>5. a + e # Width
  <2>1. SUFFICES ASSUME a + e = Width
                 PROVE  FALSE
    OBVIOUS
  <2>2. f = 0 /\ Place(a + e, b + f) = <<0, b + 1>>
    BY <1>1, <1>2, <1>4, <2>1
  <2>3. <<0, b + 1>> \in Places
    BY <1>1 DEF Places
  <2>4. QED
    BY <1>3, <2>2, <2>3 DEF Border
<1>6. Place(a + e, b + f) = <<a + e, b + f>> /\ <<a + e, b + f>> \in Places
  BY <1>1, <1>4, <1>5 DEF Places
<1>7. a + e # 0 /\ b + f > 0 /\ b + f < Height
  BY <1>1, <1>3, <1>6 DEF Border
<1>8. a + e \in 1..Width-1 /\ b + f \in 1..Height-1
  BY <1>1, <1>2, <1>5, <1>7
<1>9. Ahead(<<a, b>>, d, 1) = <<a + e, b + f>>
  BY <1>3, <1>6
<1>10. QED
  BY <1>2, <1>8, <1>9


(* Blocks have a size, and the maze more than its boundary.                 *)
LEMMA Blocks ==
  /\ BLOCK_X_DIM \in Nat \ {0} /\ BLOCK_Y_DIM \in Nat \ {0}
  /\ Width \in Nat /\ Height \in Nat /\ Width >= 2 /\ Height >= 2
BY ViewAssumption, MazeAssumption DEF Width, Height

(* Within the boundary. *)
LEMMA Along ==
  ASSUME NEW B \in Nat \ {0}, NEW N \in Nat, NEW a \in 1..N-1, NEW i \in 0..B-1,
         i # 0 => a + 1 <= N - 1
  PROVE  /\ a * B + i \in Nat /\ B <= a * B + i /\ a * B + i <= (N - 1) * B
         /\ (a * B + i) \div B = a /\ (a * B + i) % B = i
<1>1. a \in Nat
  OBVIOUS
<1>2. /\ a * B \in Nat /\ a * B + i \in Nat
      /\ (a * B + i) \div B = a /\ (a * B + i) % B = i
  BY <1>1, SquareIs
<1>3. B <= a * B
  <2>1. PICK k \in Nat : a = k + 1
    <3>1. a - 1 \in Nat /\ a = (a - 1) + 1
      OBVIOUS
    <3>2. QED
      BY <3>1
  <2>2. a * B = k * B + B /\ k * B \in Nat
    BY <2>1
  <2>3. QED
    BY <2>2
<1>4. a * B + i <= (N - 1) * B
  <2>1. CASE i = 0
    <3>1. PICK k \in Nat : N - 1 = a + k
      <4>1. N - 1 - a \in Nat /\ N - 1 = a + (N - 1 - a)
        OBVIOUS
      <4>2. QED
        BY <4>1
    <3>2. (N - 1) * B = a * B + k * B /\ k * B \in Nat
      BY <3>1
    <3>3. QED
      BY <1>2, <2>1, <3>2
  <2>2. CASE i # 0
    <3>1. PICK k \in Nat : N - 1 = a + 1 + k
      <4>1. N - 2 - a \in Nat /\ N - 1 = a + 1 + (N - 2 - a)
        BY <2>2
      <4>2. QED
        BY <4>1
    <3>2. (N - 1) * B = a * B + B + k * B /\ k * B \in Nat
      BY <3>1
    <3>3. QED
      BY <1>2, <3>2
  <2>3. QED
    BY <2>1, <2>2
<1>5. QED
  BY <1>2, <1>3, <1>4

(* The player is never on the boundary.                                     *)
LEMMA StandsWithin ==
  ASSUME NEW w, NEW x, NEW y, Stands(w, x, y)
  PROVE  /\ x \in Nat /\ BLOCK_X_DIM <= x /\ x <= (Width - 1) * BLOCK_X_DIM
         /\ y \in Nat /\ BLOCK_Y_DIM <= y /\ y <= (Height - 1) * BLOCK_Y_DIM
<1>1. PICK a \in 1..Width-1, b \in 1..Height-1, i \in 0..BLOCK_X_DIM-1, j \in 0..BLOCK_Y_DIM-1 :
        StandsAt(w, x, y, a, b, i, j)
  BY DEF Stands
<1>2. x = a * BLOCK_X_DIM + i /\ y = b * BLOCK_Y_DIM + j
      /\ (i # 0 => a + 1 <= Width - 1) /\ (j # 0 => b + 1 <= Height - 1)
  BY <1>1 DEF StandsAt
<1>3. x \in Nat /\ BLOCK_X_DIM <= x /\ x <= (Width - 1) * BLOCK_X_DIM
  BY <1>2, Blocks, Along
<1>4. y \in Nat /\ BLOCK_Y_DIM <= y /\ y <= (Height - 1) * BLOCK_Y_DIM
  BY <1>2, Blocks, Along
<1>5. QED
  BY <1>3, <1>4

(* Where the player goes there is no wall. *)
LEMMA Walks ==
  ASSUME Border(walls), Stands(walls, play_x, play_y), NEW d \in Dir \cup {Stop}, MayGo(d)
  PROVE  Stands(walls, play_x + (IF d = 1 THEN 1 ELSE IF d = 3 THEN -1 ELSE 0),
                       play_y + (IF d = 2 THEN 1 ELSE IF d = 0 THEN -1 ELSE 0))
<1>1. PICK a \in 1..Width-1, b \in 1..Height-1, i \in 0..BLOCK_X_DIM-1, j \in 0..BLOCK_Y_DIM-1 :
        StandsAt(walls, play_x, play_y, a, b, i, j)
  BY DEF Stands
<1>2. /\ play_x = a * BLOCK_X_DIM + i /\ play_y = b * BLOCK_Y_DIM + j
      /\ <<a, b>> \notin walls
      /\ i # 0 => j = 0 /\ a + 1 <= Width - 1 /\ <<a + 1, b>> \notin walls
      /\ j # 0 => i = 0 /\ b + 1 <= Height - 1 /\ <<a, b + 1>> \notin walls
  BY <1>1 DEF StandsAt
<1>3. /\ play_x \in Nat /\ play_x \div BLOCK_X_DIM = a /\ play_x % BLOCK_X_DIM = i
      /\ play_y \in Nat /\ play_y \div BLOCK_Y_DIM = b /\ play_y % BLOCK_Y_DIM = j
  <2>1. (i # 0 => a + 1 <= Width - 1) /\ (j # 0 => b + 1 <= Height - 1)
    BY <1>2
  <2>2. /\ a * BLOCK_X_DIM + i \in Nat
        /\ (a * BLOCK_X_DIM + i) \div BLOCK_X_DIM = a /\ (a * BLOCK_X_DIM + i) % BLOCK_X_DIM = i
    BY <2>1, Blocks, Along
  <2>3. /\ b * BLOCK_Y_DIM + j \in Nat
        /\ (b * BLOCK_Y_DIM + j) \div BLOCK_Y_DIM = b /\ (b * BLOCK_Y_DIM + j) % BLOCK_Y_DIM = j
    BY <2>1, Blocks, Along
  <2>4. QED
    BY <1>2, <2>2, <2>3, Zenon
<1>4. PICK X \in Nat \ {0}, Y \in Nat \ {0} : X = BLOCK_X_DIM /\ Y = BLOCK_Y_DIM
  BY Blocks
<1>5. Square(play_x, play_y) = <<a, b>>
  BY <1>3 DEF Square
<1> DEFINE x == play_x + (IF d = 1 THEN 1 ELSE IF d = 3 THEN -1 ELSE 0)
           y == play_y + (IF d = 2 THEN 1 ELSE IF d = 0 THEN -1 ELSE 0)
<1>6. CASE d \notin Dir
  <2>1. x = play_x /\ y = play_y
    BY <1>3, <1>6 DEF Dir
  <2>2. QED
    BY <2>1
<1>7. CASE i = 0 /\ j = 0 /\ d \in Dir
  <2>1. AtSquare
    BY <1>3, <1>7 DEF AtSquare
  <2>2. d # Stop
    BY <1>7 DEF Stop, Dir
  <2>3. PICK c : c = Ahead(<<a, b>>, d, 1) /\ c \notin walls
    BY <1>5, <2>1, <2>2 DEF MayGo
  <2>4. /\ c[1] = a + (IF d = 1 THEN 1 ELSE IF d = 3 THEN -1 ELSE 0)
        /\ c[2] = b + (IF d = 2 THEN 1 ELSE IF d = 0 THEN -1 ELSE 0)
        /\ c = <<c[1], c[2]>> /\ c[1] \in 1..Width-1 /\ c[2] \in 1..Height-1
    BY <1>7, <2>3, NextSquare
  <2>5. PICK k \in 1..Width-1, l \in 1..Height-1 : k = c[1] /\ l = c[2] /\ <<k, l>> \notin walls
    BY <2>3, <2>4
  <2>6. CASE d = 0
    <3>1. k = a /\ l = b - 1 /\ x = play_x /\ y = play_y - 1
      BY <1>3, <2>4, <2>5, <2>6
    <3>2. y = (b - 1) * Y + (Y - 1)
      BY <1>2, <1>4, <1>7, <3>1, Further
    <3>3. x = k * BLOCK_X_DIM + 0 /\ y = l * BLOCK_Y_DIM + (Y - 1)
      BY <1>2, <1>4, <1>7, <3>1, <3>2
    <3>4. <<k, l + 1>> \notin walls /\ l + 1 <= Height - 1
      BY <1>2, <3>1
    <3>5. 0 \in 0..BLOCK_X_DIM-1 /\ Y - 1 \in 0..BLOCK_Y_DIM-1
      BY <1>4
    <3> HIDE DEF x, y
    <3>6. StandsAt(walls, x, y, k, l, 0, Y - 1)
      BY <2>5, <3>3, <3>4 DEF StandsAt
    <3>7. Stands(walls, x, y)
      BY <3>5, <3>6 DEF Stands
    <3>8. QED
      BY <3>7 DEF x, y
  <2>7. CASE d = 1
    <3>1. k = a + 1 /\ l = b /\ x = play_x + 1 /\ y = play_y
      BY <1>3, <2>4, <2>5, <2>7
    <3> HIDE DEF x, y
    <3>2. CASE X = 1
      <4>1. x = (a + 1) * X + 0
        BY <1>2, <1>4, <1>7, <3>1, <3>2, Further
      <4>2. x = k * BLOCK_X_DIM + 0 /\ y = l * BLOCK_Y_DIM + 0
        BY <1>2, <1>4, <1>7, <3>1, <4>1
      <4>3. StandsAt(walls, x, y, k, l, 0, 0)
        BY <2>5, <4>2 DEF StandsAt
      <4>4. Stands(walls, x, y)
        <5>1. 0 \in 0..BLOCK_X_DIM-1 /\ 0 \in 0..BLOCK_Y_DIM-1
          BY <1>4
        <5>2. QED
          BY <4>3, <5>1 DEF Stands
      <4>5. QED
        BY <4>4 DEF x, y
    <3>3. CASE X # 1
      <4>1. x = a * X + 1
        BY <1>2, <1>4, <1>7, <3>1
      <4>2. StandsAt(walls, x, y, a, b, 1, 0)
        BY <1>2, <1>4, <1>7, <2>5, <3>1, <4>1 DEF StandsAt
      <4>3. Stands(walls, x, y)
        <5>1. 1 \in 0..BLOCK_X_DIM-1 /\ 0 \in 0..BLOCK_Y_DIM-1
          BY <1>4, <3>3
        <5>2. QED
          BY <4>2, <5>1 DEF Stands
      <4>4. QED
        BY <4>3 DEF x, y
    <3>4. QED
      BY <3>2, <3>3
  <2>8. CASE d = 2
    <3>1. k = a /\ l = b + 1 /\ x = play_x /\ y = play_y + 1
      BY <1>3, <2>4, <2>5, <2>8
    <3> HIDE DEF x, y
    <3>2. CASE Y = 1
      <4>1. y = (b + 1) * Y + 0
        BY <1>2, <1>4, <1>7, <3>1, <3>2, Further
      <4>2. x = k * BLOCK_X_DIM + 0 /\ y = l * BLOCK_Y_DIM + 0
        BY <1>2, <1>4, <1>7, <3>1, <4>1
      <4>3. StandsAt(walls, x, y, k, l, 0, 0)
        BY <2>5, <4>2 DEF StandsAt
      <4>4. Stands(walls, x, y)
        <5>1. 0 \in 0..BLOCK_X_DIM-1 /\ 0 \in 0..BLOCK_Y_DIM-1
          BY <1>4
        <5>2. QED
          BY <4>3, <5>1 DEF Stands
      <4>5. QED
        BY <4>4 DEF x, y
    <3>3. CASE Y # 1
      <4>1. y = b * Y + 1
        BY <1>2, <1>4, <1>7, <3>1
      <4>2. StandsAt(walls, x, y, a, b, 0, 1)
        BY <1>2, <1>4, <1>7, <2>5, <3>1, <4>1 DEF StandsAt
      <4>3. Stands(walls, x, y)
        <5>1. 0 \in 0..BLOCK_X_DIM-1 /\ 1 \in 0..BLOCK_Y_DIM-1
          BY <1>4, <3>3
        <5>2. QED
          BY <4>2, <5>1 DEF Stands
      <4>4. QED
        BY <4>3 DEF x, y
    <3>4. QED
      BY <3>2, <3>3
  <2>9. CASE d = 3
    <3>1. k = a - 1 /\ l = b /\ x = play_x - 1 /\ y = play_y
      BY <1>3, <2>4, <2>5, <2>9
    <3>2. x = (a - 1) * X + (X - 1)
      BY <1>2, <1>4, <1>7, <3>1, Further
    <3>3. x = k * BLOCK_X_DIM + (X - 1) /\ y = l * BLOCK_Y_DIM + 0
      BY <1>2, <1>4, <1>7, <3>1, <3>2
    <3>4. <<k + 1, l>> \notin walls /\ k + 1 <= Width - 1
      BY <1>2, <3>1
    <3>5. X - 1 \in 0..BLOCK_X_DIM-1 /\ 0 \in 0..BLOCK_Y_DIM-1
      BY <1>4
    <3> HIDE DEF x, y
    <3>6. StandsAt(walls, x, y, k, l, X - 1, 0)
      BY <2>5, <3>3, <3>4 DEF StandsAt
    <3>7. Stands(walls, x, y)
      BY <3>5, <3>6 DEF Stands
    <3>8. QED
      BY <3>7 DEF x, y
  <2>10. QED
    BY <1>7, <2>6, <2>7, <2>8, <2>9 DEF Dir
<1>8. CASE i # 0 /\ d \in Dir
  <2>1. j = 0 /\ d \in {1, 3}
    BY <1>2, <1>3, <1>8 DEF MayGo, AtSquare
  <2>2. y = play_y
    BY <1>3, <2>1
  <2>3. CASE d = 3
    <3>1. x = play_x - 1 /\ x = a * X + (i - 1)
      BY <1>2, <1>3, <1>4, <1>8, <2>3, Further
    <3>2. i - 1 \in 0..BLOCK_X_DIM-1
      BY <1>4, <1>8
    <3> HIDE DEF x, y
    <3>3. StandsAt(walls, x, y, a, b, i - 1, j)
      BY <1>2, <1>4, <1>8, <2>1, <2>2, <3>1 DEF StandsAt
    <3>4. Stands(walls, x, y)
      BY <3>2, <3>3 DEF Stands
    <3>5. QED
      BY <3>4 DEF x, y
  <2>4. CASE d = 1 /\ i = X - 1
    <3>1. x = play_x + 1 /\ x = (a + 1) * X + 0
      BY <1>2, <1>3, <1>4, <2>4, Further
    <3>2. a + 1 \in 1..Width-1 /\ 0 \in 0..BLOCK_X_DIM-1
      BY <1>2, <1>4, <1>8, Blocks
    <3> HIDE DEF x, y
    <3>3. StandsAt(walls, x, y, a + 1, b, 0, j)
      BY <1>2, <1>4, <1>8, <2>1, <2>2, <3>1 DEF StandsAt
    <3>4. Stands(walls, x, y)
      BY <3>2, <3>3 DEF Stands
    <3>5. QED
      BY <3>4 DEF x, y
  <2>5. CASE d = 1 /\ i # X - 1
    <3>1. x = play_x + 1 /\ x = a * X + (i + 1)
      BY <1>2, <1>3, <1>4, <2>5, Further
    <3>2. i + 1 \in 0..BLOCK_X_DIM-1
      BY <1>4, <2>5
    <3> HIDE DEF x, y
    <3>3. StandsAt(walls, x, y, a, b, i + 1, j)
      BY <1>2, <1>4, <1>8, <2>1, <2>2, <3>1 DEF StandsAt
    <3>4. Stands(walls, x, y)
      BY <3>2, <3>3 DEF Stands
    <3>5. QED
      BY <3>4 DEF x, y
  <2>6. QED
    BY <2>1, <2>3, <2>4, <2>5
<1>9. CASE j # 0 /\ d \in Dir
  <2>1. i = 0 /\ d \in {0, 2}
    BY <1>2, <1>3, <1>9 DEF MayGo, AtSquare
  <2>2. x = play_x
    BY <1>3, <2>1
  <2>3. CASE d = 0
    <3>1. y = play_y - 1 /\ y = b * Y + (j - 1)
      BY <1>2, <1>3, <1>4, <1>9, <2>3, Further
    <3>2. j - 1 \in 0..BLOCK_Y_DIM-1
      BY <1>4, <1>9
    <3> HIDE DEF x, y
    <3>3. StandsAt(walls, x, y, a, b, i, j - 1)
      BY <1>2, <1>4, <1>9, <2>1, <2>2, <3>1 DEF StandsAt
    <3>4. Stands(walls, x, y)
      BY <3>2, <3>3 DEF Stands
    <3>5. QED
      BY <3>4 DEF x, y
  <2>4. CASE d = 2 /\ j = Y - 1
    <3>1. y = play_y + 1 /\ y = (b + 1) * Y + 0
      BY <1>2, <1>3, <1>4, <2>4, Further
    <3>2. b + 1 \in 1..Height-1 /\ 0 \in 0..BLOCK_Y_DIM-1
      BY <1>2, <1>4, <1>9, Blocks
    <3> HIDE DEF x, y
    <3>3. StandsAt(walls, x, y, a, b + 1, i, 0)
      BY <1>2, <1>4, <1>9, <2>1, <2>2, <3>1 DEF StandsAt
    <3>4. Stands(walls, x, y)
      BY <3>2, <3>3 DEF Stands
    <3>5. QED
      BY <3>4 DEF x, y
  <2>5. CASE d = 2 /\ j # Y - 1
    <3>1. y = play_y + 1 /\ y = b * Y + (j + 1)
      BY <1>2, <1>3, <1>4, <2>5, Further
    <3>2. j + 1 \in 0..BLOCK_Y_DIM-1
      BY <1>4, <2>5
    <3> HIDE DEF x, y
    <3>3. StandsAt(walls, x, y, a, b, i, j + 1)
      BY <1>2, <1>4, <1>9, <2>1, <2>2, <3>1 DEF StandsAt
    <3>4. Stands(walls, x, y)
      BY <3>2, <3>3 DEF Stands
    <3>5. QED
      BY <3>4 DEF x, y
  <2>6. QED
    BY <2>1, <2>3, <2>4, <2>5
<1>10. QED
  BY <1>6, <1>7, <1>8, <1>9


-----------------------------------------------------------------------------
(* What is drawn.                                                           *)

(* What is to be seen at a pixel when the maze is m, and that a view shows  *)
(* it everywhere.                                                           *)
Pixel(p, m) == <<FindBlock(Place(p[1] \div BLOCK_X_DIM, p[2] \div BLOCK_Y_DIM), m), p>>

Holds(v, m) == \A p \in Rect(v) : Read(v, p) = Pixel(p, m)

(* The window lies in the maze. *)
InMaze(v) ==
  /\ v.show_x + SCROLL_X_DIM <= (Width + 1) * BLOCK_X_DIM
  /\ v.show_y + SCROLL_Y_DIM <= (Height + 1) * BLOCK_Y_DIM

(* Drawing what is out of date is enough. *)
LEMMA DrawnHolds ==
  ASSUME NEW v, Good(v), NEW P, P \subseteq Rect(v), NEW m,
         \A p \in Rect(v) : p \notin P => Read(v, p) = Pixel(p, m)
  PROVE  LET d == Drawn(v, P, Picture(P, m))
         IN  Good(d) /\ d.show_x = v.show_x /\ d.show_y = v.show_y /\ Holds(d, m)
<1>1. PICK g, d : g = Picture(P, m) /\ d = Drawn(v, P, g)
  OBVIOUS
<1>2. /\ Good(d) /\ d.show_x = v.show_x /\ d.show_y = v.show_y
      /\ \A p \in Rect(v) : Read(d, p) = IF p \in P THEN g[p] ELSE Read(v, p)
  <2>1. LET e == Drawn(v, P, g)
        IN  /\ Good(e) /\ e.show_x = v.show_x /\ e.show_y = v.show_y
            /\ \A p \in Rect(v) : Read(e, p) = IF p \in P THEN g[p] ELSE Read(v, p)
    BY DrawnIs
  <2>2. QED
    BY <1>1, <2>1, Zenon
<1>3. \A p \in P : g[p] = Pixel(p, m)
  BY <1>1 DEF Picture, Pixel
<1>4. Rect(d) = Rect(v)
  BY <1>2 DEF Rect
<1>5. Holds(d, m)
  BY <1>2, <1>3, <1>4 DEF Holds
<1>6. QED
  BY <1>1, <1>2, <1>5

(* A pixel of the maze is of one of its lattice points.                     *)
LEMMA LatticePoint ==
  ASSUME NEW B \in Nat \ {0}, NEW N \in Nat, NEW x \in Nat, x < (N + 1) * B
  PROVE  x \div B \in 0..N
<1>1. PICK a \in Nat, i \in 0..B-1 : x = a * B + i /\ x \div B = a /\ a * B \in Nat
  BY Divided
<1>2. ~(a > N)
  <2>1. SUFFICES ASSUME a > N
                 PROVE  FALSE
    OBVIOUS
  <2>2. PICK k \in Nat : a = N + 1 + k
    <3>1. a - N - 1 \in Nat /\ a = N + 1 + (a - N - 1)
      BY <2>1
    <3>2. QED
      BY <3>1
  <2>3. a * B = (N + 1) * B + k * B /\ k * B \in Nat /\ (N + 1) * B \in Nat
    BY <2>2
  <2>4. QED
    BY <1>1, <2>3
<1>3. QED
  BY <1>1, <1>2

(* The lattice point of a pixel that is seen. *)
LEMMA SeenPoint ==
  ASSUME NEW v, Good(v), InMaze(v), NEW p \in Rect(v)
  PROVE  \E k \in 0..Width, l \in 0..Height :
           /\ k = p[1] \div BLOCK_X_DIM /\ l = p[2] \div BLOCK_Y_DIM
           /\ p \in Block(v, <<k, l>>)
<1>1. PICK x \in Nat, y \in Nat : x = v.show_x /\ y = v.show_y
  BY DEF Good
<1>2. PICK i \in Nat, j \in Nat : /\ p[1] = i /\ p[2] = j /\ p = <<i, j>>
                                  /\ x <= i /\ i < x + SCROLL_X_DIM
                                  /\ y <= j /\ j < y + SCROLL_Y_DIM
  BY <1>1, ViewAssumption DEF Rect
<1>3. PICK X \in Nat \ {0}, Y \in Nat \ {0}, M \in Nat, N \in Nat :
        X = BLOCK_X_DIM /\ Y = BLOCK_Y_DIM /\ M = Width /\ N = Height
  BY Blocks
<1>4. i < (M + 1) * X /\ j < (N + 1) * Y
  <2>1. PICK a \in Int, b \in Int : a = (M + 1) * X /\ b = (N + 1) * Y
    OBVIOUS
  <2>2. QED
    BY <1>1, <1>2, <1>3, <2>1, ViewAssumption DEF InMaze
<1>5. i \div X \in 0..M /\ j \div Y \in 0..N
  BY <1>4, LatticePoint
<1>6. PICK k \in Nat, e \in 0..X-1 : i = k * X + e /\ i \div X = k /\ k * X \in Nat
  BY Divided
<1>7. PICK l \in Nat, f \in 0..Y-1 : j = l * Y + f /\ j \div Y = l /\ l * Y \in Nat
  BY Divided
<1>8. <<i, j>> \in Block(v, <<k, l>>)
  <2>1. PICK a \in Nat, b \in Nat : a = k * X /\ b = l * Y
    BY <1>6, <1>7
  <2>2. <<i, j>> \in (a..a+X-1) \X (b..b+Y-1)
    BY <1>6, <1>7, <2>1
  <2>3. Block(v, <<k, l>>) = Clipped(v, a, b, X, Y)
    BY <1>3, <2>1 DEF Block
  <2>4. QED
    BY <1>1, <1>2, <2>2, <2>3 DEF Clipped
<1>9. QED
  BY <1>2, <1>3, <1>5, <1>6, <1>7, <1>8

(* Only what is in the window is drawn of a block.                          *)
LEMMA BlockIn ==
  ASSUME NEW v, Good(v), NEW c, c[1] \in Int, c[2] \in Int
  PROVE  Block(v, c) \subseteq Rect(v)
<1>1. v.show_x \in Nat /\ v.show_y \in Nat
  BY DEF Good
<1>2. BLOCK_X_DIM \in Nat /\ BLOCK_Y_DIM \in Nat
  BY ViewAssumption
<1>3. c[1] * BLOCK_X_DIM \in Int /\ c[2] * BLOCK_Y_DIM \in Int
  BY <1>2
<1>4. Clipped(v, c[1] * BLOCK_X_DIM, c[2] * BLOCK_Y_DIM, BLOCK_X_DIM, BLOCK_Y_DIM) \subseteq Window(v)
  BY <1>1, <1>2, <1>3, ClippedIn
<1>5. QED
  BY <1>1, <1>4, WindowIs DEF Block

(* The squares the player can be on; a place among them stands for itself   *)
(* only.                                                                    *)
Inner == (1..Width-1) \X (1..Height-1)

LEMMA NodesInner == Nodes \subseteq Inner
BY Blocks DEF Nodes, Places, Inner

LEMMA PlaceInner ==
  ASSUME NEW c \in Inner, NEW k \in 0..Width, NEW l \in 0..Height, Place(k, l) = c
  PROVE  c = <<k, l>>
<1>1. CASE k < Width
  BY <1>1 DEF Place
<1>2. CASE ~(k < Width)
  <2>1. k - Width = 0
    BY <1>2, Blocks
  <2>2. c[1] = 0
    BY <1>2, <2>1 DEF Place
  <2>3. QED
    BY <2>2 DEF Inner
<1>3. QED
  BY <1>1, <1>2

(* The fruits and the exit. *)
Furnished ==
  /\ fruits \subseteq Nodes /\ exit \in Nodes
  /\ n_fruits = Cardinality(fruits)

(* The count says whether fruits are left.                                  *)
LEMMA SomeFruits ==
  ASSUME Furnished
  PROVE  n_fruits \in Nat /\ (fruits # {} => n_fruits # 0)
<1>1. IsFiniteSet(fruits)
  BY NodesCounted, FS_Subset DEF Furnished
<1>2. QED
  BY <1>1, FS_CardinalityType, FS_EmptySet DEF Furnished

(* check_for_fruit *)
LEMMA EatenHolds ==
  ASSUME NEW v, Good(v), InMaze(v), Holds(v, Now), Furnished, NEW c \in Inner
  PROVE  LET eaten == IF c \notin fruits THEN {}
                ELSE Block(v, c) \cup (IF EatenAt(c).n = 0 THEN Block(v, exit) ELSE {})
             d == Drawn(v, eaten, Picture(eaten, EatenAt(c)))
         IN  Good(d) /\ d.show_x = v.show_x /\ d.show_y = v.show_y /\ Holds(d, EatenAt(c))
<1>1. PICK eaten : eaten = IF c \notin fruits THEN {}
                ELSE Block(v, c) \cup (IF EatenAt(c).n = 0 THEN Block(v, exit) ELSE {})
  OBVIOUS
<1>2. PICK m : m = EatenAt(c)
  OBVIOUS
<1>3. eaten \subseteq Rect(v)
  <2>1. exit \in Inner
    BY NodesInner DEF Furnished
  <2>2. c[1] \in Int /\ c[2] \in Int /\ exit[1] \in Int /\ exit[2] \in Int
    BY <2>1, Blocks DEF Inner
  <2>3. QED
    BY <1>1, <2>2, BlockIn
<1>4. m.reach = reach /\ m.fruits = fruits \ {c}
      /\ m.n = (IF c \in fruits THEN n_fruits - 1 ELSE n_fruits)
  BY <1>2 DEF EatenAt, Now
<1>5. ASSUME NEW p \in Rect(v), p \notin eaten
      PROVE  Read(v, p) = Pixel(p, m)
  <2>1. PICK k \in 0..Width, l \in 0..Height :
           /\ k = p[1] \div BLOCK_X_DIM /\ l = p[2] \div BLOCK_Y_DIM
           /\ p \in Block(v, <<k, l>>)
    BY SeenPoint
  <2>2. PICK b : b = Place(k, l)
    OBVIOUS
  <2>3. FindBlock(b, Now) = FindBlock(b, m)
    <3>1. CASE c \notin fruits
      <4>1. m.fruits = fruits /\ m.n = n_fruits
        BY <1>4, <3>1
      <4>2. QED
        BY <1>4, <4>1 DEF FindBlock, Now
    <3>2. CASE c \in fruits
      <4>1. b # c
        <5>1. b = c => c = <<k, l>>
          BY <2>2, PlaceInner
        <5>2. QED
          BY <1>1, <1>5, <2>1, <3>2, <5>1
      <4>2. m.n = 0 => b # exit
        <5>1. b = exit => exit = <<k, l>>
          BY <2>2, PlaceInner, NodesInner DEF Furnished
        <5>2. QED
          BY <1>1, <1>2, <1>5, <2>1, <3>2, <5>1
      <4>3. n_fruits # 0
        BY <3>2, SomeFruits
      <4>4. b \in m.fruits <=> b \in fruits
        BY <1>4, <4>1
      <4>5. QED
        BY <1>4, <4>2, <4>3, <4>4 DEF FindBlock, Now
    <3>3. QED
      BY <3>1, <3>2
  <2>4. Pixel(p, Now) = Pixel(p, m)
    BY <2>1, <2>2, <2>3 DEF Pixel
  <2>5. QED
    BY <2>4 DEF Holds
<1>6. PICK d : d = Drawn(v, eaten, Picture(eaten, m))
  OBVIOUS
<1>7. Good(d) /\ d.show_x = v.show_x /\ d.show_y = v.show_y /\ Holds(d, m)
  BY <1>3, <1>5, <1>6, DrawnHolds
<1>8. QED
  BY <1>1, <1>2, <1>6, <1>7


(* Of the two sides of the maze, which are the same column of the array, at *)
(* most one is in the window, and then the player is not near the other.    *)
SidesFar(v, a) ==
  \A p \in Rect(v) : /\ p[1] \div BLOCK_X_DIM = Width => a > 2
                     /\ p[1] \div BLOCK_X_DIM = 0 => a < Width - 2

(* So it is while the window follows the player.                            *)
LEMMA SidesApart ==
  ASSUME NEW v, v.show_x \in Nat, v.show_y \in Nat, NEW a \in 1..Width-1, NEW z, z = a * BLOCK_X_DIM,
         Keeps(v.show_x, z, SCROLL_X_DIM, BLOCK_X_DIM, (Width + 1) * BLOCK_X_DIM - SHOW_MIN)
  PROVE  SidesFar(v, a)
<1>1. PICK s \in Nat, B \in Nat \ {0}, N \in Nat, D \in Nat, h \in Nat :
        s = v.show_x /\ B = BLOCK_X_DIM /\ N = Width /\ D = SCROLL_X_DIM /\ h = SHOW_MIN
  BY Blocks, Sizes, LevelAssumption
<1>2. PICK b \in Nat, m \in Nat :
           /\ b = B * PAN_BORDER /\ B * (PAN_BORDER + 1) = b + B
           /\ B * (PAN_BORDER + 2) = b + 2 * B /\ B * (2 * PAN_BORDER + 1) = 2 * b + B
           /\ m = N * B /\ (N + 1) * B = m + B /\ (N - 1) * B = m - B
  BY Products
<1>3. D + h <= m /\ D <= m - 2 * B + b
  <2>1. (N - 2 + PAN_BORDER) * B = N * B - 2 * B + B * PAN_BORDER
    BY LevelAssumption
  <2>2. SCROLL_X_DIM <= (N - 2 + PAN_BORDER) * B /\ SCROLL_X_DIM + SHOW_MIN <= N * B
    BY <1>1, RoomAssumption
  <2>3. QED
    BY <1>1, <1>2, <2>1, <2>2
<1>4. /\ h <= s /\ s + D <= m + B - h
      /\ z >= s + b \/ s = h
      /\ z <= s + D - (b + B) \/ s + D = m + B - h
  BY <1>1, <1>2 DEF Keeps
<1>5. z = a * B /\ z \in Nat
  BY <1>1
<1>6. a <= 2 => z <= 2 * B
  <2>1. a \in {1, 2} => a * B = B \/ a * B = 2 * B
    OBVIOUS
  <2>2. QED
    BY <1>5, <2>1
<1>7. a >= N - 2 => z >= m - 2 * B
  <2>1. SUFFICES ASSUME a >= N - 2
                 PROVE  z >= m - 2 * B
    OBVIOUS
  <2>2. PICK k \in Nat : a = N - 2 + k
    <3>1. a - (N - 2) \in Nat /\ a = N - 2 + (a - (N - 2))
      BY <1>1, <2>1
    <3>2. QED
      BY <3>1
  <2>3. (N - 2 + k) * B = N * B - 2 * B + k * B /\ k * B \in Nat
    OBVIOUS
  <2>4. QED
    BY <1>2, <1>5, <2>2, <2>3
<1>8. ASSUME NEW p \in Rect(v)
      PROVE  /\ p[1] \div BLOCK_X_DIM = Width => a > 2
             /\ p[1] \div BLOCK_X_DIM = 0 => a < Width - 2
  <2>1. PICK i \in Nat : i = p[1] /\ s <= i /\ i <= s + D - 1
    BY <1>1 DEF Rect
  <2>2. PICK k \in Nat, e \in 0..B-1 : i = k * B + e /\ i \div B = k /\ k * B \in Nat
    BY Divided
  <2>3. k = N => a > 2
    <3>1. k = N => i >= m
      BY <1>2, <2>2
    <3>2. QED
      BY <1>3, <1>4, <1>5, <1>6, <2>1, <3>1
  <2>4. k = 0 => a < N - 2
    <3>1. k = 0 => i <= B - 1
      BY <2>2
    <3>2. QED
      BY <1>1, <1>3, <1>4, <1>5, <1>7, <2>1, <3>1
  <2>5. QED
    BY <1>1, <2>1, <2>2, <2>3, <2>4
<1>9. QED
  BY <1>8 DEF SidesFar

(* Only the two sides share a place.                                        *)
LEMMA SamePlace ==
  ASSUME NEW k \in 0..Width, NEW l \in 0..Height, NEW i \in 0..Width, NEW j \in 0..Height,
         Place(k, l) = Place(i, j)
  PROVE  \/ k = i /\ l = j
         \/ k = Width /\ i = 0
         \/ k = 0 /\ i = Width
<1>1. Width \in Nat
  BY Blocks
<1>2. CASE k < Width /\ i < Width
  BY <1>2 DEF Place
<1>3. CASE k = Width /\ i < Width
  <2>1. k - Width = i
    BY <1>1, <1>3 DEF Place
  <2>2. QED
    BY <1>1, <1>3, <2>1
<1>4. CASE k < Width /\ i = Width
  <2>1. i - Width = k
    BY <1>1, <1>4 DEF Place
  <2>2. QED
    BY <1>1, <1>4, <2>1
<1>5. CASE k = Width /\ i = Width
  <2>1. l + 1 = j + 1
    BY <1>1, <1>5 DEF Place
  <2>2. QED
    BY <1>5, <2>1, Blocks
<1>6. QED
  BY <1>1, <1>2, <1>3, <1>4, <1>5

(* The mist lifts at most two squares away.                                 *)
LEMMA AroundIs ==
  ASSUME NEW c \in Inner, NEW q \in Around(c)
  PROVE  /\ q = <<q[1], q[2]>> /\ q[1] \in Int /\ q[2] \in Int
         /\ c[1] - 2 <= q[1] /\ q[1] <= c[1] + 2
<1>1. c[1] \in Nat /\ c[2] \in Nat
  BY Blocks DEF Inner
<1>2. PICK a \in Nat, b \in Nat : a = c[1] /\ b = c[2]
  BY <1>1
<1>3. CASE \E i, j \in -1..1 : q = <<a + i, b + j>>
  BY <1>2, <1>3
<1>4. CASE q \in {<<a, b - 2>>, <<a + 2, b>>, <<a, b + 2>>, <<a - 2, b>>}
  BY <1>2, <1>4
<1>5. QED
  BY <1>2, <1>3, <1>4 DEF Around

(* unveil_around_player *)
LEMMA LiftedHolds ==
  ASSUME NEW v, Good(v), InMaze(v), NEW c \in Inner, Holds(v, EatenAt(c)), SidesFar(v, c[1])
  PROVE  LET lifted == UNION {Block(v, q) : q \in Unveiled(c)}
             d == Drawn(v, lifted, Picture(lifted, EnteredAt(c)))
         IN  Good(d) /\ d.show_x = v.show_x /\ d.show_y = v.show_y /\ Holds(d, EnteredAt(c))
<1>1. PICK lifted : lifted = UNION {Block(v, q) : q \in Unveiled(c)}
  OBVIOUS
<1>2. PICK m, n : m = EnteredAt(c) /\ n = EatenAt(c)
  OBVIOUS
<1>3. ASSUME NEW q \in Unveiled(c)
      PROVE  /\ q = <<q[1], q[2]>> /\ q[1] \in 0..Width /\ q[2] \in 0..Height
             /\ c[1] - 2 <= q[1] /\ q[1] <= c[1] + 2
  <2>1. q \in Around(c) /\ q[1] >= 0 /\ q[1] <= Width /\ q[2] >= 0 /\ q[2] <= Height
    BY DEF Unveiled
  <2>2. QED
    BY <2>1, AroundIs
<1>4. lifted \subseteq Rect(v)
  <2>1. \A q \in Unveiled(c) : q[1] \in Int /\ q[2] \in Int
    BY <1>3, Blocks
  <2>2. \A q \in Unveiled(c) : Block(v, q) \subseteq Rect(v)
    BY <2>1, BlockIn
  <2>3. QED
    BY <1>1, <2>2
<1>5. /\ m.reach = n.reach \cup {Place(q[1], q[2]) : q \in Unveiled(c)}
      /\ m.fruits = n.fruits /\ m.n = n.n
  BY <1>2 DEF EnteredAt, EatenAt, Now
<1>6. ASSUME NEW p \in Rect(v), p \notin lifted
      PROVE  Read(v, p) = Pixel(p, m)
  <2>1. PICK k \in 0..Width, l \in 0..Height :
           /\ k = p[1] \div BLOCK_X_DIM /\ l = p[2] \div BLOCK_Y_DIM
           /\ p \in Block(v, <<k, l>>)
    BY SeenPoint
  <2>2. PICK b : b = Place(k, l)
    OBVIOUS
  <2>3. ASSUME NEW q \in Unveiled(c), b = Place(q[1], q[2])
        PROVE  FALSE
    <3>1. PICK i \in 0..Width, j \in 0..Height :
            i = q[1] /\ j = q[2] /\ q = <<i, j>> /\ c[1] - 2 <= i /\ i <= c[1] + 2
      BY <1>3
    <3>2. \/ k = i /\ l = j
          \/ k = Width /\ i = 0
          \/ k = 0 /\ i = Width
      <4>1. Place(k, l) = Place(i, j)
        BY <2>2, <2>3, <3>1
      <4>2. QED
        BY <4>1, SamePlace
    <3>3. CASE k = i /\ l = j
      <4>1. p \in Block(v, q)
        BY <2>1, <3>1, <3>3
      <4>2. QED
        BY <1>1, <1>6, <4>1
    <3>4. CASE k = Width /\ i = 0
      <4>1. c[1] > 2
        BY <2>1, <3>4 DEF SidesFar
      <4>2. c[1] \in Nat
        BY Blocks DEF Inner
      <4>3. QED
        BY <3>1, <3>4, <4>1, <4>2
    <3>5. CASE k = 0 /\ i = Width
      <4>1. c[1] < Width - 2
        BY <2>1, <3>5 DEF SidesFar
      <4>2. c[1] \in Nat
        BY Blocks DEF Inner
      <4>3. QED
        BY <3>1, <3>5, <4>1, <4>2, Blocks
    <3>6. QED
      BY <3>2, <3>3, <3>4, <3>5
  <2>4. b \in m.reach <=> b \in n.reach
    BY <1>5, <2>3
  <2>5. FindBlock(b, n) = FindBlock(b, m)
    BY <1>5, <2>4 DEF FindBlock
  <2>6. Pixel(p, n) = Pixel(p, m)
    BY <2>1, <2>2, <2>5 DEF Pixel
  <2>7. QED
    BY <1>2, <2>6 DEF Holds
<1>7. PICK d : d = Drawn(v, lifted, Picture(lifted, m))
  OBVIOUS
<1>8. Good(d) /\ d.show_x = v.show_x /\ d.show_y = v.show_y /\ Holds(d, m)
  BY <1>4, <1>6, <1>7, DrawnHolds
<1>9. QED
  BY <1>1, <1>2, <1>7, <1>8

(* A square is entered: the fruit first, then the mist.                     *)
LEMMA EnteredHolds ==
  ASSUME NEW v, Good(v), InMaze(v), NEW c \in Inner, Holds(v, Now), Furnished, SidesFar(v, c[1])
  PROVE  LET d == DrawEntered(v, c)
         IN  Good(d) /\ d.show_x = v.show_x /\ d.show_y = v.show_y /\ Holds(d, EnteredAt(c))
<1>1. PICK eaten : eaten = IF c \notin fruits THEN {}
                ELSE Block(v, c) \cup (IF EatenAt(c).n = 0 THEN Block(v, exit) ELSE {})
  OBVIOUS
<1>2. PICK lifted : lifted = UNION {Block(v, q) : q \in Unveiled(c)}
  OBVIOUS
<1>3. PICK e : e = Drawn(v, eaten, Picture(eaten, EatenAt(c)))
  OBVIOUS
<1>4. PICK d : d = Drawn(e, lifted, Picture(lifted, EnteredAt(c)))
  OBVIOUS
<1>5. d = DrawEntered(v, c)
  BY <1>1, <1>2, <1>3, <1>4 DEF DrawEntered
<1>6. Good(e) /\ e.show_x = v.show_x /\ e.show_y = v.show_y /\ Holds(e, EatenAt(c))
  BY <1>1, <1>3, EatenHolds
<1>7. InMaze(e) /\ SidesFar(e, c[1]) /\ \A q : Block(e, q) = Block(v, q)
  BY <1>6 DEF InMaze, SidesFar, Rect, Block, Clipped
<1>8. lifted = UNION {Block(e, q) : q \in Unveiled(c)}
  BY <1>2, <1>7
<1>9. Good(d) /\ d.show_x = e.show_x /\ d.show_y = e.show_y /\ Holds(d, EnteredAt(c))
  BY <1>4, <1>6, <1>7, <1>8, LiftedHolds
<1>10. QED
  BY <1>5, <1>6, <1>9


-----------------------------------------------------------------------------
(* The window moves, and what has come into it is drawn. *)
LEMMA MovedHolds ==
  ASSUME NEW v, Good(v), NEW m, Holds(v, m), NEW x \in Nat, NEW y \in Nat,
         NEW w, w = Follow(v, x, y), NEW P, P \subseteq Rect(w),
         \A p \in Rect(w) : p \notin P => p \in Rect(v)
  PROVE  LET d == Drawn(w, P, Picture(P, m))
         IN  Good(d) /\ d.show_x = x /\ d.show_y = y /\ Holds(d, m)
<1>1. PICK u : u = SetViewWindow(v, x, y)
  OBVIOUS
<1>2. /\ Good(u) /\ u.show_x = x /\ u.show_y = y
      /\ \A p \in Rect(v) \cap Rect(u) : Read(u, p) = Read(v, p)
  <2>1. LET d == SetViewWindow(v, x, y)
        IN  /\ Good(d) /\ d.show_x = x /\ d.show_y = y
            /\ \A p \in Rect(v) \cap Rect(d) : Read(d, p) = Read(v, p)
    BY SetViewWindowIs
  <2>2. QED
    BY <1>1, <2>1, Zenon
<1>3. w = Forget(u)
  BY <1>1 DEF Follow
<1>4. /\ Good(w) /\ w.show_x = u.show_x /\ w.show_y = u.show_y
      /\ \A p \in Rect(u) : Read(w, p) = Read(u, p)
  <2>1. LET d == Forget(u)
        IN  /\ Good(d) /\ d.show_x = u.show_x /\ d.show_y = u.show_y
            /\ \A p \in Rect(u) : Read(d, p) = Read(u, p)
    BY <1>2, ForgetIs
  <2>2. QED
    BY <1>3, <2>1, Zenon
<1>5. Rect(w) = Rect(u)
  BY <1>4 DEF Rect
<1>6. \A p \in Rect(w) : p \notin P => Read(w, p) = Pixel(p, m)
  BY <1>2, <1>4, <1>5 DEF Holds
<1>7. LET d == Drawn(w, P, Picture(P, m))
      IN  Good(d) /\ d.show_x = w.show_x /\ d.show_y = w.show_y /\ Holds(d, m)
  BY <1>4, <1>6, DrawnHolds
<1>8. QED
  BY <1>2, <1>4, <1>7

(* Where the window is after that.                                          *)
LEMMA FollowIs ==
  ASSUME NEW v, Good(v), NEW x \in Nat, NEW y \in Nat
  PROVE  LET w == Follow(v, x, y)
         IN  Good(w) /\ w.show_x = x /\ w.show_y = y
<1>1. PICK u : u = SetViewWindow(v, x, y)
  OBVIOUS
<1>2. Good(u) /\ u.show_x = x /\ u.show_y = y
  BY <1>1, SetViewWindowIs
<1>3. PICK w : w = Follow(v, x, y) /\ w = Forget(u)
  BY <1>1 DEF Follow
<1>4. Good(w) /\ w.show_x = u.show_x /\ w.show_y = u.show_y
  BY <1>2, <1>3, ForgetIs
<1>5. QED
  BY <1>2, <1>3, <1>4

(* move_up and its companions                                               *)
LEMMA FollowedHolds ==
  ASSUME NEW v, Good(v), NEW m, Holds(v, m), NEW d, NEW x, NEW y,
         v.show_x >= SHOW_MIN, v.show_y >= SHOW_MIN
  PROVE  LET f == Followed(v, d, x, y, m)
         IN  /\ Good(f) /\ Holds(f, m)
             /\ f.show_x = v.show_x + (IF d = 1 /\ PansRight(v, x) THEN 1
                                       ELSE IF d = 3 /\ PansLeft(v, x) THEN -1 ELSE 0)
             /\ f.show_y = v.show_y + (IF d = 2 /\ PansDown(v, y) THEN 1
                                       ELSE IF d = 0 /\ PansUp(v, y) THEN -1 ELSE 0)
<1>1. PICK s \in Nat, t \in Nat, h \in Nat :
        s = v.show_x /\ t = v.show_y /\ h = SHOW_MIN /\ s >= h /\ t >= h
  BY LevelAssumption DEF Good
<1>2. PICK f : f = Followed(v, d, x, y, m)
  OBVIOUS
<1>3. PICK D \in Nat \ {0}, E \in Nat \ {0} : D = SCROLL_X_DIM /\ E = SCROLL_Y_DIM
  BY ViewAssumption
<1>4. CASE d = 0 /\ PansUp(v, y)
  <2>1. t - 1 \in Nat
    BY <1>1, <1>4 DEF PansUp
  <2>2. PICK w : w = Follow(v, s, t - 1)
    OBVIOUS
  <2>3. Good(w) /\ w.show_x = s /\ w.show_y = t - 1
    BY <2>1, <2>2, FollowIs
  <2>4. PICK P : P = Line(w, 0)
    OBVIOUS
  <2>5. P \subseteq Rect(w) /\ \A p \in Rect(w) : p \notin P => p \in Rect(v)
    <3>1. P = {p \in (s..s+D-1) \X (t-1..t-1) : TRUE}
      BY <1>3, <2>1, <2>3, <2>4 DEF Line, Clipped
    <3>2. Rect(w) = (s..s+D-1) \X (t-1..t-1+E-1) /\ Rect(v) = (s..s+D-1) \X (t..t+E-1)
      BY <1>1, <1>3, <2>1, <2>3 DEF Rect
    <3>3. QED
      BY <1>3, <2>1, <3>1, <3>2
  <2>6. f = Drawn(w, P, Picture(P, m))
    BY <1>1, <1>2, <1>4, <2>2, <2>4 DEF Followed, DrawHorizLine
  <2>7. Good(f) /\ f.show_x = s /\ f.show_y = t - 1 /\ Holds(f, m)
    BY <2>1, <2>2, <2>5, <2>6, MovedHolds
  <2>8. QED
    BY <1>1, <1>2, <1>4, <2>7
<1>5. CASE d = 1 /\ PansRight(v, x)
  <2>1. s + 1 \in Nat
    OBVIOUS
  <2>2. PICK w : w = Follow(v, s + 1, t)
    OBVIOUS
  <2>3. Good(w) /\ w.show_x = s + 1 /\ w.show_y = t
    BY <2>1, <2>2, FollowIs
  <2>4. PICK P : P = Column(w, SCROLL_X_DIM - 1)
    OBVIOUS
  <2>5. P \subseteq Rect(w) /\ \A p \in Rect(w) : p \notin P => p \in Rect(v)
    <3>1. P = {p \in (s+D..s+D) \X (t..t+E-1) : TRUE}
      BY <1>3, <2>1, <2>3, <2>4 DEF Column, Clipped
    <3>2. Rect(w) = (s+1..s+D) \X (t..t+E-1) /\ Rect(v) = (s..s+D-1) \X (t..t+E-1)
      BY <1>1, <1>3, <2>1, <2>3 DEF Rect
    <3>3. QED
      BY <1>3, <2>1, <3>1, <3>2
  <2>6. f = Drawn(w, P, Picture(P, m))
    BY <1>1, <1>2, <1>5, <2>2, <2>4 DEF Followed, DrawVertLine
  <2>7. Good(f) /\ f.show_x = s + 1 /\ f.show_y = t /\ Holds(f, m)
    BY <2>1, <2>2, <2>5, <2>6, MovedHolds
  <2>8. QED
    BY <1>1, <1>2, <1>5, <2>7
<1>6. CASE d = 2 /\ PansDown(v, y)
  <2>1. t + 1 \in Nat
    OBVIOUS
  <2>2. PICK w : w = Follow(v, s, t + 1)
    OBVIOUS
  <2>3. Good(w) /\ w.show_x = s /\ w.show_y = t + 1
    BY <2>1, <2>2, FollowIs
  <2>4. PICK P : P = Line(w, SCROLL_Y_DIM - 1)
    OBVIOUS
  <2>5. P \subseteq Rect(w) /\ \A p \in Rect(w) : p \notin P => p \in Rect(v)
    <3>1. P = {p \in (s..s+D-1) \X (t+E..t+E) : TRUE}
      BY <1>3, <2>1, <2>3, <2>4 DEF Line, Clipped
    <3>2. Rect(w) = (s..s+D-1) \X (t+1..t+E) /\ Rect(v) = (s..s+D-1) \X (t..t+E-1)
      BY <1>1, <1>3, <2>1, <2>3 DEF Rect
    <3>3. QED
      BY <1>3, <2>1, <3>1, <3>2
  <2>6. f = Drawn(w, P, Picture(P, m))
    BY <1>1, <1>2, <1>6, <2>2, <2>4 DEF Followed, DrawHorizLine
  <2>7. Good(f) /\ f.show_x = s /\ f.show_y = t + 1 /\ Holds(f, m)
    BY <2>1, <2>2, <2>5, <2>6, MovedHolds
  <2>8. QED
    BY <1>1, <1>2, <1>6, <2>7
<1>7. CASE d = 3 /\ PansLeft(v, x)
  <2>1. s - 1 \in Nat
    BY <1>1, <1>7 DEF PansLeft
  <2>2. PICK w : w = Follow(v, s - 1, t)
    OBVIOUS
  <2>3. Good(w) /\ w.show_x = s - 1 /\ w.show_y = t
    BY <2>1, <2>2, FollowIs
  <2>4. PICK P : P = Column(w, 0)
    OBVIOUS
  <2>5. P \subseteq Rect(w) /\ \A p \in Rect(w) : p \notin P => p \in Rect(v)
    <3>1. P = {p \in (s-1..s-1) \X (t..t+E-1) : TRUE}
      BY <1>3, <2>1, <2>3, <2>4 DEF Column, Clipped
    <3>2. Rect(w) = (s-1..s-1+D-1) \X (t..t+E-1) /\ Rect(v) = (s..s+D-1) \X (t..t+E-1)
      BY <1>1, <1>3, <2>1, <2>3 DEF Rect
    <3>3. QED
      BY <1>3, <2>1, <3>1, <3>2
  <2>6. f = Drawn(w, P, Picture(P, m))
    BY <1>1, <1>2, <1>7, <2>2, <2>4 DEF Followed, DrawVertLine
  <2>7. Good(f) /\ f.show_x = s - 1 /\ f.show_y = t /\ Holds(f, m)
    BY <2>1, <2>2, <2>5, <2>6, MovedHolds
  <2>8. QED
    BY <1>1, <1>2, <1>7, <2>7
<1>8. CASE /\ ~(d = 0 /\ PansUp(v, y)) /\ ~(d = 1 /\ PansRight(v, x))
           /\ ~(d = 2 /\ PansDown(v, y)) /\ ~(d = 3 /\ PansLeft(v, x))
  <2>1. f = v
    BY <1>2, <1>8 DEF Followed
  <2>2. QED
    BY <1>1, <1>2, <1>8, <2>1
<1>9. QED
  BY <1>4, <1>5, <1>6, <1>7, <1>8


-----------------------------------------------------------------------------
(* A frame: the player and the text over what the window holds. *)
PlayerBlock == Clipped(view, play_x, play_y, BLOCK_X_DIM, BLOCK_Y_DIM)
TheText == TextBlock(view, TextX, TextY)

(* DrawnIs, for a view with a name.                                         *)
LEMMA DrawnReads ==
  ASSUME NEW v, Good(v), NEW P, P \subseteq Rect(v), NEW g, NEW d, d = Drawn(v, P, g)
  PROVE  /\ Good(d) /\ d.show_x = v.show_x /\ d.show_y = v.show_y /\ Rect(d) = Rect(v)
         /\ \A p \in Rect(v) : Read(d, p) = IF p \in P THEN g[p] ELSE Read(v, p)
<1>1. LET e == Drawn(v, P, g)
      IN  /\ Good(e) /\ e.show_x = v.show_x /\ e.show_y = v.show_y
          /\ \A p \in Rect(v) : Read(e, p) = IF p \in P THEN g[p] ELSE Read(v, p)
  BY DrawnIs
<1>2. /\ Good(d) /\ d.show_x = v.show_x /\ d.show_y = v.show_y
      /\ \A p \in Rect(v) : Read(d, p) = IF p \in P THEN g[p] ELSE Read(v, p)
  BY <1>1, Zenon
<1>3. Rect(d) = Rect(v)
  BY <1>2 DEF Rect
<1>4. QED
  BY <1>2, <1>3

(* Where the player and the text are depends on the window only. *)
LEMMA SameBlocks ==
  ASSUME NEW v, v.show_x = view.show_x, v.show_y = view.show_y
  PROVE  /\ Clipped(v, play_x, play_y, BLOCK_X_DIM, BLOCK_Y_DIM) = PlayerBlock
         /\ TextBlock(v, TextX, TextY) = TheText
BY DEF Clipped, PlayerBlock, TheText, TextBlock, TextRows

(* Neither is drawn outside of the window.                                  *)
LEMMA BlocksInWindow ==
  ASSUME Good(view), play_x \in Nat, play_y \in Nat
  PROVE  PlayerBlock \subseteq Rect(view) /\ TheText \subseteq Rect(view)
<1>1. view.show_x \in Nat /\ view.show_y \in Nat
  BY DEF Good
<1>2. Window(view) = Rect(view)
  BY <1>1, WindowIs
<1>3. /\ BLOCK_X_DIM \in Nat /\ BLOCK_Y_DIM \in Nat /\ BLOCK_X_FRUIT_DIM \in Nat
      /\ BLOCK_Y_FRUIT_DIM \in Nat /\ SCROLL_Y_DIM \in Nat /\ TextLift \in Nat /\ TextWidth \in Nat
  BY ViewAssumption, LevelAssumption
<1>4. PlayerBlock \subseteq Rect(view)
  BY <1>1, <1>2, <1>3, ClippedIn DEF PlayerBlock
<1>5. TextX \in Int /\ TextRows(view, TextY) \in Int
  <2>1. TextX \in Int /\ TextY \in Int
    BY <1>3 DEF TextX, TextY
  <2>2. QED
    BY <1>1, <1>3, <2>1 DEF TextRows
<1>6. TheText \subseteq Rect(view)
  BY <1>1, <1>2, <1>3, <1>5, ClippedIn DEF TheText, TextBlock
<1>7. QED
  BY <1>4, <1>6

(* The player covers its block.                                             *)
LEMMA PlayerShows ==
  ASSUME Good(view), play_x \in Nat, play_y \in Nat, NEW w, w = PlayerDrawn(view)
  PROVE  /\ Good(w) /\ w.show_x = view.show_x /\ w.show_y = view.show_y /\ Rect(w) = Rect(view)
         /\ \A p \in Rect(view) :
              Read(w, p) = IF p \in PlayerBlock THEN <<"player", Read(view, p)>> ELSE Read(view, p)
<1>1. PICK g : g = Tagged("player", CopyBlock(view, play_x, play_y))
  OBVIOUS
<1>2. w = Drawn(view, PlayerBlock, g)
  BY <1>1 DEF PlayerDrawn, DrawBlock, PlayerBlock
<1>3. PlayerBlock \subseteq Rect(view)
  BY BlocksInWindow
<1>4. \A p \in PlayerBlock : g[p] = <<"player", Read(view, p)>>
  BY <1>1 DEF Tagged, CopyBlock, PlayerBlock
<1>5. /\ Good(w) /\ w.show_x = view.show_x /\ w.show_y = view.show_y /\ Rect(w) = Rect(view)
      /\ \A p \in Rect(view) : Read(w, p) = IF p \in PlayerBlock THEN g[p] ELSE Read(view, p)
  BY <1>2, <1>3, DrawnReads
<1>6. QED
  BY <1>4, <1>5

(* The text covers both.                                                    *)
LEMMA TextShows ==
  ASSUME Good(view), play_x \in Nat, play_y \in Nat, NEW w, w = PlayerDrawn(view),
         NEW u, u = TextDrawn(w)
  PROVE  /\ Good(u) /\ u.show_x = view.show_x /\ u.show_y = view.show_y /\ Rect(u) = Rect(view)
         /\ \A p \in Rect(view) : Read(u, p) = IF p \in TheText THEN <<"text", Read(w, p)>>
                                                               ELSE Read(w, p)
<1>1. PICK g : g = Tagged("text", FloorUnder(w))
  OBVIOUS
<1>2. /\ Good(w) /\ w.show_x = view.show_x /\ w.show_y = view.show_y /\ Rect(w) = Rect(view)
  BY PlayerShows
<1>3. TextBlock(w, TextX, TextY) = TheText
  BY <1>2, SameBlocks
<1>4. u = Drawn(w, TheText, g)
  BY <1>1, <1>3 DEF TextDrawn
<1>5. \A p \in TheText : g[p] = <<"text", Read(w, p)>>
  BY <1>1, <1>3 DEF Tagged, FloorUnder
<1>6. TheText \subseteq Rect(w)
  BY <1>2, BlocksInWindow
<1>7. /\ Good(u) /\ u.show_x = w.show_x /\ u.show_y = w.show_y /\ Rect(u) = Rect(w)
      /\ \A p \in Rect(w) : Read(u, p) = IF p \in TheText THEN g[p] ELSE Read(w, p)
  <2>1. Good(w)
    BY <1>2
  <2>2. QED
    BY <1>4, <1>6, <2>1, DrawnReads
<1>8. QED
  BY <1>2, <1>5, <1>7

(* After a frame the window holds what it held before. *)
LEMMA FrameLeaves ==
  ASSUME Good(view), play_x \in Nat, play_y \in Nat, NEW text \in BOOLEAN,
         NEW d, d = AfterFrame(text)
  PROVE  /\ Good(d) /\ d.show_x = view.show_x /\ d.show_y = view.show_y /\ Rect(d) = Rect(view)
         /\ \A p \in Rect(view) : Read(d, p) = Read(view, p)
<1>1. PICK w : w = PlayerDrawn(view)
  OBVIOUS
<1>2. PICK u : u = TextDrawn(w)
  OBVIOUS
<1>3. PICK off : off = IF text THEN Drawn(FrameShown(text), TextBlock(w, TextX, TextY), FloorUnder(w))
                               ELSE w
  OBVIOUS
<1>4. d = DrawBlock(off, play_x, play_y, CopyBlock(view, play_x, play_y))
  BY <1>1, <1>3 DEF AfterFrame
<1>5. /\ Good(w) /\ w.show_x = view.show_x /\ w.show_y = view.show_y /\ Rect(w) = Rect(view)
      /\ \A p \in Rect(view) :
           Read(w, p) = IF p \in PlayerBlock THEN <<"player", Read(view, p)>> ELSE Read(view, p)
  BY <1>1, PlayerShows
<1>6. /\ Good(u) /\ u.show_x = view.show_x /\ u.show_y = view.show_y /\ Rect(u) = Rect(view)
      /\ \A p \in Rect(view) : Read(u, p) = IF p \in TheText THEN <<"text", Read(w, p)>>
                                                            ELSE Read(w, p)
  BY <1>1, <1>2, TextShows
<1>7. PlayerBlock \subseteq Rect(view) /\ TheText \subseteq Rect(view)
  BY BlocksInWindow
<1>8. /\ Good(off) /\ off.show_x = view.show_x /\ off.show_y = view.show_y /\ Rect(off) = Rect(view)
      /\ \A p \in Rect(view) : Read(off, p) = Read(w, p)
  <2>1. CASE text
    <3>1. PICK g : g = FloorUnder(w)
      OBVIOUS
    <3>2. TextBlock(w, TextX, TextY) = TheText
      BY <1>5, SameBlocks
    <3>3. off = Drawn(u, TheText, g)
      BY <1>1, <1>2, <1>3, <2>1, <3>1, <3>2 DEF FrameShown
    <3>4. \A p \in TheText : g[p] = Read(w, p)
      BY <3>1, <3>2 DEF FloorUnder
    <3>5. /\ Good(off) /\ off.show_x = u.show_x /\ off.show_y = u.show_y /\ Rect(off) = Rect(u)
          /\ \A p \in Rect(u) : Read(off, p) = IF p \in TheText THEN g[p] ELSE Read(u, p)
      <4>1. Good(u) /\ TheText \subseteq Rect(u)
        BY <1>6, <1>7
      <4>2. LET e == Drawn(u, TheText, g)
            IN  /\ Good(e) /\ e.show_x = u.show_x /\ e.show_y = u.show_y
                /\ \A p \in Rect(u) : Read(e, p) = IF p \in TheText THEN g[p] ELSE Read(u, p)
        BY <4>1, DrawnIs
      <4>3. /\ Good(off) /\ off.show_x = u.show_x /\ off.show_y = u.show_y
            /\ \A p \in Rect(u) : Read(off, p) = IF p \in TheText THEN g[p] ELSE Read(u, p)
        BY <3>3, <4>2, Zenon
      <4>4. Rect(off) = Rect(u)
        BY <4>3 DEF Rect
      <4>5. QED
        BY <4>3, <4>4
    <3>6. QED
      BY <1>6, <3>4, <3>5
  <2>2. CASE ~text
    BY <1>3, <1>5, <2>2
  <2>3. QED
    BY <2>1, <2>2
<1>9. PICK g : g = CopyBlock(view, play_x, play_y)
  OBVIOUS
<1>10. d = Drawn(off, PlayerBlock, g)
  BY <1>4, <1>8, <1>9, SameBlocks DEF DrawBlock
<1>11. \A p \in PlayerBlock : g[p] = Read(view, p)
  BY <1>9 DEF CopyBlock, PlayerBlock
<1>12. /\ Good(d) /\ d.show_x = off.show_x /\ d.show_y = off.show_y /\ Rect(d) = Rect(off)
       /\ \A p \in Rect(off) : Read(d, p) = IF p \in PlayerBlock THEN g[p] ELSE Read(off, p)
  <2>1. Good(off) /\ PlayerBlock \subseteq Rect(off)
    BY <1>7, <1>8
  <2>2. QED
    BY <1>10, <2>1, DrawnReads
<1>13. QED
  BY <1>5, <1>8, <1>11, <1>12


-----------------------------------------------------------------------------
(* The inductive invariant of a level.                                      *)

(* The window and the player while a level is played. *)
InView ==
  /\ Good(view) /\ Holds(view, Now)
  /\ Stands(walls, play_x, play_y)
  /\ Keeps(view.show_x, play_x, SCROLL_X_DIM, BLOCK_X_DIM, (Width + 1) * BLOCK_X_DIM - SHOW_MIN)
  /\ Keeps(view.show_y, play_y, SCROLL_Y_DIM, BLOCK_Y_DIM, (Height + 1) * BLOCK_Y_DIM - SHOW_MIN)

LevelInv ==
  /\ MazeInv
  /\ Border(walls)
  /\ stage \in {"ready", "play", "won"} => Furnished
  /\ IF Playing THEN InView ELSE view = InitView

(* set_mode_X: the first window lies in the buffer. *)
LEMMA FirstView == Good(InitView)
<1>1. PICK v : v = InitView
  OBVIOUS
<1>2. /\ v.show_x = 0 /\ v.show_y = 0 /\ v.img3_off = BUILD_BASE_INIT
      /\ v.build = [a \in 0..BUILD_BUF_SIZE-1 |-> None]
      /\ v = [show_x |-> 0, show_y |-> 0, img3_off |-> BUILD_BASE_INIT,
              build |-> [a \in 0..BUILD_BUF_SIZE-1 |-> None]]
  BY <1>1 DEF InitView
<1>3. v = [show_x |-> v.show_x, show_y |-> v.show_y, img3_off |-> v.img3_off,
           build |-> [a \in Buf |-> v.build[a]]]
  <2>1. PICK b : b = [a \in Buf |-> None]
    OBVIOUS
  <2>2. b = [a \in Buf |-> b[a]]
    BY <2>1
  <2>3. v.build = b
    BY <1>2, <2>1 DEF Buf
  <2>4. QED
    BY <1>2, <2>1, <2>2, <2>3 DEF Buf
<1>4. BUILD_BUF_SIZE \in Nat /\ BUILD_BASE_INIT \in Nat
      /\ BUILD_BASE_INIT + 4 * SCROLL_SIZE < BUILD_BUF_SIZE
  BY Middle
<1>5. PICK n \in Nat : n = 4 * SCROLL_SIZE
  BY Sizes
<1>6. Corner(v) = BUILD_BASE_INIT
  <2>1. Offset(0, 0) = 0
    BY Sizes DEF Offset
  <2>2. QED
    BY <1>2, <1>4, <2>1 DEF Corner
<1>7. ASSUME NEW p \in Rect(v)
      PROVE  Address(v, p) \in Buf
  <2>1. v.show_x \in Nat /\ v.show_y \in Nat /\ v.img3_off \in Int
    BY <1>2, <1>4
  <2>2. Address(v, p) \in Corner(v)..Corner(v) + 4 * SCROLL_SIZE
    BY <2>1, Takes
  <2>3. Address(v, p) \in BUILD_BASE_INIT..BUILD_BASE_INIT + n
    BY <1>5, <1>6, <2>2
  <2>4. QED
    BY <1>4, <1>5, <2>3 DEF Buf
<1>8. v.show_x \in Nat /\ v.show_y \in Nat /\ v.img3_off \in Int
  BY <1>2, <1>4
<1>9. Good(v)
  BY <1>3, <1>7, <1>8 DEF Good
<1>10. QED
  BY <1>1, <1>9

-----------------------------------------------------------------------------
(* Digging leaves the boundary alone. *)
LEMMA EdgeInner ==
  ASSUME NEW c \in Nodes, NEW d \in Dir, CanGo(c, d)
  PROVE  Ahead(c, d, 1) \in Inner /\ Ahead(c, d, 2) \in Nodes
<1>1. Ahead(c, d, 2) \in Nodes
  BY Edge
<1>2. c \in Inner
  BY NodesInner
<1>3. PICK a \in 1..Width-1, b \in 1..Height-1 : c = <<a, b>>
  BY <1>2 DEF Inner
<1>4. Ahead(c, d, 1) \in Inner
  BY <1>3, Blocks DEF Ahead, Place, CanGo, Inner, Dir
<1>5. QED
  BY <1>1, <1>4

(* Opening a square within the boundary.                                    *)
LEMMA BorderStays ==
  ASSUME NEW w, Border(w), NEW S, S \subseteq Inner
  PROVE  Border(w \ S)
<1>1. SUFFICES ASSUME NEW c \in Places, c[1] = 0 \/ c[2] <= 0 \/ c[2] >= Height
               PROVE  c \in w \ S
  BY DEF Border
<1>2. c \in w
  BY <1>1 DEF Border
<1>3. c \notin Inner
  BY <1>1, Blocks DEF Inner
<1>4. QED
  BY <1>2, <1>3

(* make_maze never opens the boundary.                                      *)
LEMMA BorderKept ==
  ASSUME MazeInv, Border(walls), MakeMaze
  PROVE  Border(walls')
<1>1. CASE PickStart
  <2>1. PICK c \in Nodes : walls' = walls \ {c}
    BY <1>1 DEF PickStart
  <2>2. QED
    BY <2>1, NodesInner, BorderStays
<1>2. ASSUME NEW d \in Dir, WormMoves(d)
      PROVE  Border(walls')
  <2>1. /\ stage = "worm" /\ CanGo(at, d)
        /\ walls' = walls \ {Ahead(at, d, 1), Ahead(at, d, 2)}
    BY <1>2 DEF WormMoves
  <2>2. PICK c \in Nodes : c = at
    BY <2>1 DEF MazeInv, Digging
  <2>3. Ahead(c, d, 1) \in Inner /\ Ahead(c, d, 2) \in Inner
    BY <2>1, <2>2, EdgeInner, NodesInner
  <2>4. QED
    BY <2>1, <2>2, <2>3, BorderStays
<1>3. ASSUME NEW d \in Dir, WormTurns(d)
      PROVE  Border(walls')
  BY <1>3 DEF WormTurns
<1>4. CASE MarkStart \/ Furnish
  BY <1>4 DEF MarkStart, Furnish
<1>5. CASE TryConnect
  <2>1. /\ stage = "connect" /\ at \in Nodes
        /\ at' \in (IF Scanning THEN {NextInScan(at)} ELSE Nodes \ reach) /\ Connect(at')
    BY <1>5 DEF TryConnect, MazeInv
  <2>2. PICK c \in Nodes : c = at'
    BY <2>1, ScanStays
  <2>3. CASE c \in reach \/ Links(c) = {}
    BY <2>1, <2>2, <2>3 DEF Connect
  <2>4. CASE ~(c \in reach \/ Links(c) = {})
    <3>1. PICK d \in Links(c) : d = First(Links(c))
      BY <2>4 DEF First, Links, Dir
    <3>2. d \in Dir /\ CanGo(c, d)
      BY <3>1 DEF Links
    <3>3. walls' = walls \ {Ahead(c, d, 1)}
      BY <2>1, <2>2, <2>4, <3>1 DEF Connect
    <3>4. QED
      BY <3>2, <3>3, EdgeInner, BorderStays
  <2>5. QED
    BY <2>3, <2>4
<1>6. QED
  BY <1>1, <1>2, <1>3, <1>4, <1>5 DEF MakeMaze

-----------------------------------------------------------------------------
(* Holds in the next state, for a maze that has been made. *)
LEMMA HoldsNext ==
  ASSUME walls' = walls, exit' = exit, NEW w, w = view', NEW m, m = Now', Holds(w, m)
  PROVE  Holds(view, Now)'
<1>1. \A c : FindBlock(c, Now)' = FindBlock(c, m)
  BY DEF FindBlock
<1>2. \A p : Pixel(p, Now)' = Pixel(p, m)
  BY <1>1 DEF Pixel
<1>3. QED
  BY <1>2 DEF Holds, Rect, Read, Address

(* A fruit is eaten, or not. *)
LEMMA FurnishedKept ==
  ASSUME Furnished, exit' = exit, NEW c, NEW m \in {Now, EnteredAt(c)}, SetMaze(m)
  PROVE  Furnished' /\ Now' = m
<1>1. CASE m = Now
  <2>1. reach' = reach /\ fruits' = fruits /\ n_fruits' = n_fruits
    BY <1>1 DEF SetMaze, Now
  <2>2. QED
    BY <1>1, <2>1 DEF Furnished, Now, Nodes, Places
<1>2. CASE m = EnteredAt(c)
  <2>1. /\ m = [reach |-> m.reach, fruits |-> m.fruits, n |-> m.n]
        /\ m.fruits = fruits \ {c} /\ m.n = (IF c \in fruits THEN n_fruits - 1 ELSE n_fruits)
    BY <1>2 DEF EnteredAt, EatenAt, Now
  <2>2. reach' = m.reach /\ fruits' = m.fruits /\ n_fruits' = m.n
    BY DEF SetMaze
  <2>3. IsFiniteSet(fruits)
    BY NodesCounted, FS_Subset DEF Furnished
  <2>4. Cardinality(fruits \ {c}) = IF c \in fruits THEN Cardinality(fruits) - 1 ELSE Cardinality(fruits)
    BY <2>3, FS_RemoveElement
  <2>5. n_fruits' = Cardinality(fruits')
    BY <2>1, <2>2, <2>4 DEF Furnished
  <2>6. Furnished'
    BY <2>1, <2>2, <2>5 DEF Furnished, Nodes, Places
  <2>7. QED
    BY <2>1, <2>2, <2>6 DEF Now
<1>3. QED
  BY <1>1, <1>2


(* A window that keeps to the player is in the maze.                        *)
LEMMA KeepsInMaze ==
  ASSUME NEW v, Good(v), NEW x, NEW y,
    Keeps(v.show_x, x, SCROLL_X_DIM, BLOCK_X_DIM, (Width + 1) * BLOCK_X_DIM - SHOW_MIN),
    Keeps(v.show_y, y, SCROLL_Y_DIM, BLOCK_Y_DIM, (Height + 1) * BLOCK_Y_DIM - SHOW_MIN)
  PROVE  InMaze(v) /\ v.show_x >= SHOW_MIN /\ v.show_y >= SHOW_MIN
<1>1. PICK a \in Int, b \in Int :
        a = (Width + 1) * BLOCK_X_DIM /\ b = (Height + 1) * BLOCK_Y_DIM
  BY Blocks
<1>2. /\ v.show_x \in Nat /\ v.show_y \in Nat /\ SHOW_MIN \in Nat
      /\ SCROLL_X_DIM \in Nat /\ SCROLL_Y_DIM \in Nat
  BY Sizes, LevelAssumption DEF Good
<1>3. /\ SHOW_MIN <= v.show_x /\ v.show_x + SCROLL_X_DIM <= a - SHOW_MIN
      /\ SHOW_MIN <= v.show_y /\ v.show_y + SCROLL_Y_DIM <= b - SHOW_MIN
  BY <1>1 DEF Keeps
<1>4. QED
  BY <1>1, <1>2, <1>3 DEF InMaze

(* prepare_maze_level *)
LEMMA PrepareKeeps ==
  ASSUME LevelInv, Prepare
  PROVE  Furnished' /\ InView'
<1>1. /\ stage = "ready" /\ play_x' = BLOCK_X_DIM /\ play_y' = BLOCK_Y_DIM
      /\ walls' = walls /\ exit' = exit /\ SetMaze(EnteredAt(<<1, 1>>))
  BY DEF Prepare
<1>2. Furnished /\ view = InitView /\ Nodes \cap walls = {}
  BY <1>1 DEF LevelInv, Playing, MazeInv
<1>3. PICK v : v = Follow(view, SHOW_MIN, SHOW_MIN)
  OBVIOUS
<1>4. Good(v) /\ v.show_x = SHOW_MIN /\ v.show_y = SHOW_MIN
  BY <1>2, <1>3, FirstView, FollowIs, LevelAssumption
<1>5. PICK P : P = Rect(v) /\ P = Window(v)
  BY <1>4, LevelAssumption, WindowIs
<1>6. PICK e : e = Drawn(v, P, Picture(P, Now))
  OBVIOUS
<1>7. Good(e) /\ e.show_x = v.show_x /\ e.show_y = v.show_y /\ Holds(e, Now)
  <2>1. P \subseteq Rect(v) /\ \A p \in Rect(v) : p \notin P => Read(v, p) = Pixel(p, Now)
    BY <1>5
  <2>2. QED
    BY <1>4, <1>6, <2>1, DrawnHolds
<1>8. /\ Keeps(e.show_x, BLOCK_X_DIM, SCROLL_X_DIM, BLOCK_X_DIM, (Width + 1) * BLOCK_X_DIM - SHOW_MIN)
      /\ Keeps(e.show_y, BLOCK_Y_DIM, SCROLL_Y_DIM, BLOCK_Y_DIM, (Height + 1) * BLOCK_Y_DIM - SHOW_MIN)
  BY <1>4, <1>7, KeptFirst, Axes
<1>9. InMaze(e)
  BY <1>7, <1>8, KeepsInMaze
<1>10. SidesFar(e, 1)
  <2>1. 1 \in 1..Width-1 /\ BLOCK_X_DIM = 1 * BLOCK_X_DIM
    BY Blocks
  <2>2. e.show_x \in Nat /\ e.show_y \in Nat
    BY <1>7 DEF Good
  <2>3. QED
    BY <1>8, <2>1, <2>2, SidesApart
<1>11. PICK c \in Inner : c = <<1, 1>> /\ c[1] = 1
  <2>1. 1 \in 1..Width-1 /\ 1 \in 1..Height-1
    BY Blocks
  <2>2. <<1, 1>> \in Inner
    BY <2>1 DEF Inner
  <2>3. QED
    BY <2>2
<1>12. PICK d : d = DrawEntered(e, c)
  OBVIOUS
<1>13. Good(d) /\ d.show_x = e.show_x /\ d.show_y = e.show_y /\ Holds(d, EnteredAt(c))
  BY <1>2, <1>7, <1>9, <1>10, <1>11, <1>12, EnteredHolds
<1>14. view' = d
  BY <1>3, <1>5, <1>6, <1>11, <1>12 DEF Prepare
<1>15. Furnished' /\ Now' = EnteredAt(c)
  BY <1>1, <1>2, <1>11, FurnishedKept
<1>16. Holds(view, Now)'
  BY <1>1, <1>13, <1>14, <1>15, HoldsNext
<1>17. Stands(walls', play_x', play_y')
  <2>1. <<1, 1>> \in Nodes
    <3>1. 0 \in 0..maze_x_dim-1 /\ 0 \in 0..maze_y_dim-1 /\ <<1, 1>> = At(0, 0)
      BY MazeAssumption DEF At
    <3>2. QED
      BY <3>1, NodeIs
  <2>2. <<1, 1>> \notin walls'
    BY <1>1, <1>2, <2>1
  <2>3. play_x' = 1 * BLOCK_X_DIM + 0 /\ play_y' = 1 * BLOCK_Y_DIM + 0
    BY <1>1, Blocks
  <2>4. StandsAt(walls', play_x', play_y', 1, 1, 0, 0)
    BY <2>2, <2>3 DEF StandsAt
  <2>5. 1 \in 1..Width-1 /\ 1 \in 1..Height-1 /\ 0 \in 0..BLOCK_X_DIM-1 /\ 0 \in 0..BLOCK_Y_DIM-1
    BY Blocks
  <2>6. QED
    BY <2>4, <2>5 DEF Stands
<1>18. Good(view)'
  <2>1. Good(view')
    BY <1>13, <1>14
  <2>2. QED
    BY <2>1 DEF Good, Rect, Address, Buf
<1>19. /\ Keeps(view.show_x, play_x, SCROLL_X_DIM, BLOCK_X_DIM, (Width + 1) * BLOCK_X_DIM - SHOW_MIN)'
       /\ Keeps(view.show_y, play_y, SCROLL_Y_DIM, BLOCK_Y_DIM, (Height + 1) * BLOCK_Y_DIM - SHOW_MIN)'
  <2>1. /\ Keeps(view'.show_x, play_x', SCROLL_X_DIM, BLOCK_X_DIM, (Width + 1) * BLOCK_X_DIM - SHOW_MIN)
        /\ Keeps(view'.show_y, play_y', SCROLL_Y_DIM, BLOCK_Y_DIM, (Height + 1) * BLOCK_Y_DIM - SHOW_MIN)
    BY <1>1, <1>8, <1>13, <1>14
  <2>2. QED
    BY <2>1 DEF Keeps, Width, Height
<1>20. QED
  BY <1>15, <1>16, <1>17, <1>18, <1>19 DEF InView, Stands, StandsAt, Width, Height


(* A pixel's step of the player, and the window after it. *)
LEMMA StepX ==
  ASSUME NEW v, Good(v), NEW z \in Nat, NEW d \in Dir \cup {Stop}, NEW x,
         Keeps(v.show_x, z, SCROLL_X_DIM, BLOCK_X_DIM, (Width + 1) * BLOCK_X_DIM - SHOW_MIN),
         x = z + (IF d = 1 THEN 1 ELSE IF d = 3 THEN -1 ELSE 0),
         BLOCK_X_DIM <= x, x <= (Width - 1) * BLOCK_X_DIM,
         NEW s, s = v.show_x + (IF d = 1 /\ PansRight(v, x) THEN 1
                                ELSE IF d = 3 /\ PansLeft(v, x) THEN -1 ELSE 0)
  PROVE  Keeps(s, x, SCROLL_X_DIM, BLOCK_X_DIM, (Width + 1) * BLOCK_X_DIM - SHOW_MIN)
<1>1. v.show_x \in Nat
  BY DEF Good
<1>2. CASE d = 1
  <2>1. x = z + 1
    BY <1>2
  <2>2. IF PansRight(v, x)
          THEN Keeps(v.show_x + 1, x, SCROLL_X_DIM, BLOCK_X_DIM, (Width + 1) * BLOCK_X_DIM - SHOW_MIN)
          ELSE Keeps(v.show_x, x, SCROLL_X_DIM, BLOCK_X_DIM, (Width + 1) * BLOCK_X_DIM - SHOW_MIN)
    BY <1>1, <2>1, KeptOn, Axes DEF PansRight
  <2>3. s = IF PansRight(v, x) THEN v.show_x + 1 ELSE v.show_x
    BY <1>1, <1>2
  <2>4. QED
    BY <2>2, <2>3, Zenon
<1>3. CASE d = 3
  <2>1. x = z - 1
    BY <1>3
  <2>2. IF PansLeft(v, x)
          THEN Keeps(v.show_x - 1, x, SCROLL_X_DIM, BLOCK_X_DIM, (Width + 1) * BLOCK_X_DIM - SHOW_MIN)
          ELSE Keeps(v.show_x, x, SCROLL_X_DIM, BLOCK_X_DIM, (Width + 1) * BLOCK_X_DIM - SHOW_MIN)
    BY <1>1, <2>1, KeptBack, Axes DEF PansLeft
  <2>3. s = IF PansLeft(v, x) THEN v.show_x - 1 ELSE v.show_x
    BY <1>1, <1>3
  <2>4. QED
    BY <2>2, <2>3, Zenon
<1>4. CASE d # 1 /\ d # 3
  <2>1. x = z /\ s = v.show_x
    BY <1>1, <1>4
  <2>2. QED
    BY <2>1
<1>5. QED
  BY <1>2, <1>3, <1>4

(* The same up and down.                                                    *)
LEMMA StepY ==
  ASSUME NEW v, Good(v), NEW z \in Nat, NEW d \in Dir \cup {Stop}, NEW y,
         Keeps(v.show_y, z, SCROLL_Y_DIM, BLOCK_Y_DIM, (Height + 1) * BLOCK_Y_DIM - SHOW_MIN),
         y = z + (IF d = 2 THEN 1 ELSE IF d = 0 THEN -1 ELSE 0),
         BLOCK_Y_DIM <= y, y <= (Height - 1) * BLOCK_Y_DIM,
         NEW s, s = v.show_y + (IF d = 2 /\ PansDown(v, y) THEN 1
                                ELSE IF d = 0 /\ PansUp(v, y) THEN -1 ELSE 0)
  PROVE  Keeps(s, y, SCROLL_Y_DIM, BLOCK_Y_DIM, (Height + 1) * BLOCK_Y_DIM - SHOW_MIN)
<1>1. v.show_y \in Nat
  BY DEF Good
<1>2. CASE d = 2
  <2>1. y = z + 1
    BY <1>2
  <2>2. IF PansDown(v, y)
          THEN Keeps(v.show_y + 1, y, SCROLL_Y_DIM, BLOCK_Y_DIM, (Height + 1) * BLOCK_Y_DIM - SHOW_MIN)
          ELSE Keeps(v.show_y, y, SCROLL_Y_DIM, BLOCK_Y_DIM, (Height + 1) * BLOCK_Y_DIM - SHOW_MIN)
    BY <1>1, <2>1, KeptOn, Axes DEF PansDown
  <2>3. s = IF PansDown(v, y) THEN v.show_y + 1 ELSE v.show_y
    BY <1>1, <1>2
  <2>4. QED
    BY <2>2, <2>3, Zenon
<1>3. CASE d = 0
  <2>1. y = z - 1
    BY <1>3
  <2>2. IF PansUp(v, y)
          THEN Keeps(v.show_y - 1, y, SCROLL_Y_DIM, BLOCK_Y_DIM, (Height + 1) * BLOCK_Y_DIM - SHOW_MIN)
          ELSE Keeps(v.show_y, y, SCROLL_Y_DIM, BLOCK_Y_DIM, (Height + 1) * BLOCK_Y_DIM - SHOW_MIN)
    BY <1>1, <2>1, KeptBack, Axes DEF PansUp
  <2>3. s = IF PansUp(v, y) THEN v.show_y - 1 ELSE v.show_y
    BY <1>1, <1>3
  <2>4. QED
    BY <2>2, <2>3, Zenon
<1>4. CASE d # 2 /\ d # 0
  <2>1. y = z /\ s = v.show_y
    BY <1>1, <1>4
  <2>2. QED
    BY <2>1
<1>5. QED
  BY <1>2, <1>3, <1>4

-----------------------------------------------------------------------------
(* At a square the next fruit is eaten and the mist lifted; elsewhere the   *)
(* maze stays as it is.                                                     *)
LEMMA Entering ==
  ASSUME Furnished, InView, NEW c, c = Square(play_x, play_y),
         NEW m, m = (IF AtSquare THEN EnteredAt(c) ELSE Now),
         NEW v, v = (IF AtSquare THEN DrawEntered(view, c) ELSE view)
  PROVE  /\ Good(v) /\ v.show_x = view.show_x /\ v.show_y = view.show_y /\ Holds(v, m)
         /\ m \in {Now, EnteredAt(c)}
<1>1. /\ Good(view) /\ Holds(view, Now) /\ Stands(walls, play_x, play_y)
      /\ Keeps(view.show_x, play_x, SCROLL_X_DIM, BLOCK_X_DIM, (Width + 1) * BLOCK_X_DIM - SHOW_MIN)
      /\ Keeps(view.show_y, play_y, SCROLL_Y_DIM, BLOCK_Y_DIM, (Height + 1) * BLOCK_Y_DIM - SHOW_MIN)
  BY DEF InView
<1>2. m \in {Now, EnteredAt(c)}
  BY Zenon
<1>3. CASE ~AtSquare
  <2>1. m = Now /\ v = view
    BY <1>3, Zenon
  <2>2. QED
    BY <1>1, <1>2, <2>1, Zenon
<1>4. CASE AtSquare
  <2>1. PICK a \in 1..Width-1, b \in 1..Height-1, i \in 0..BLOCK_X_DIM-1, j \in 0..BLOCK_Y_DIM-1 :
          StandsAt(walls, play_x, play_y, a, b, i, j)
    BY <1>1 DEF Stands
  <2>2. play_x = a * BLOCK_X_DIM + i /\ (i # 0 => a + 1 <= Width - 1)
    BY <2>1 DEF StandsAt
  <2>3. play_y = b * BLOCK_Y_DIM + j /\ (j # 0 => b + 1 <= Height - 1)
    BY <2>1 DEF StandsAt
  <2>4. play_x \div BLOCK_X_DIM = a /\ play_x % BLOCK_X_DIM = i
    BY <2>2, Along, Blocks
  <2>5. play_y \div BLOCK_Y_DIM = b /\ play_y % BLOCK_Y_DIM = j
    BY <2>3, Along, Blocks
  <2>6. i = 0 /\ j = 0
    BY <1>4, <2>4, <2>5 DEF AtSquare
  <2>7. c = <<a, b>>
    BY <2>4, <2>5 DEF Square
  <2>8. c \in Inner /\ c[1] = a
    BY <2>7 DEF Inner
  <2>9. play_x = a * BLOCK_X_DIM
    <3>1. a * BLOCK_X_DIM \in Nat
      BY Blocks
    <3>2. QED
      BY <2>2, <2>6, <3>1
  <2>10. SidesFar(view, a)
    <3>1. view.show_x \in Nat /\ view.show_y \in Nat
      BY <1>1 DEF Good
    <3>2. QED
      BY <1>1, <2>9, <3>1, SidesApart
  <2>11. InMaze(view)
    BY <1>1, KeepsInMaze
  <2>12. m = EnteredAt(c) /\ v = DrawEntered(view, c)
    BY <1>4, Zenon
  <2>13. SidesFar(view, c[1])
    BY <2>8, <2>10
  <2>14. Good(v) /\ v.show_x = view.show_x /\ v.show_y = view.show_y /\ Holds(v, EnteredAt(c))
    BY <1>1, <2>8, <2>11, <2>12, <2>13, EnteredHolds
  <2>15. QED
    BY <1>2, <2>12, <2>14, Zenon
<1>5. QED
  BY <1>3, <1>4

(* rtc_thread *)
LEMMA TickKeeps ==
  ASSUME LevelInv, NEW d \in Dir \cup {Stop}, Tick(d)
  PROVE  Furnished' /\ InView'
<1>1. PICK c : c = Square(play_x, play_y)
  OBVIOUS
<1>2. PICK m : m = (IF AtSquare THEN EnteredAt(c) ELSE Now)
  OBVIOUS
<1>3. PICK v : v = (IF AtSquare THEN DrawEntered(view, c) ELSE view)
  OBVIOUS
<1>4. /\ stage = "play" /\ SetMaze(m) /\ walls' = walls /\ exit' = exit
      /\ IF AtSquare /\ c = exit /\ m.n = 0
           THEN stage' = "won" /\ view' = v /\ UNCHANGED <<play_x, play_y>>
           ELSE /\ MayGo(d) /\ Walk(d)
                /\ view' = Followed(v, d, play_x', play_y', m)
                /\ UNCHANGED stage
  BY <1>1, <1>2, <1>3, Zenon DEF Tick
<1>5. Furnished /\ InView /\ Border(walls)
  BY <1>4 DEF LevelInv, Playing
<1>6. /\ Good(v) /\ v.show_x = view.show_x /\ v.show_y = view.show_y /\ Holds(v, m)
      /\ m \in {Now, EnteredAt(c)}
  BY <1>1, <1>2, <1>3, <1>5, Entering
<1>7. Furnished' /\ Now' = m
  BY <1>4, <1>5, <1>6, FurnishedKept
<1>8. /\ Stands(walls, play_x, play_y)
      /\ Keeps(v.show_x, play_x, SCROLL_X_DIM, BLOCK_X_DIM, (Width + 1) * BLOCK_X_DIM - SHOW_MIN)
      /\ Keeps(v.show_y, play_y, SCROLL_Y_DIM, BLOCK_Y_DIM, (Height + 1) * BLOCK_Y_DIM - SHOW_MIN)
  BY <1>5, <1>6 DEF InView
<1>9. PICK w : w = view'
  OBVIOUS
<1>10. /\ Good(w) /\ Holds(w, m) /\ Stands(walls, play_x', play_y')
       /\ Keeps(w.show_x, play_x', SCROLL_X_DIM, BLOCK_X_DIM, (Width + 1) * BLOCK_X_DIM - SHOW_MIN)
       /\ Keeps(w.show_y, play_y', SCROLL_Y_DIM, BLOCK_Y_DIM, (Height + 1) * BLOCK_Y_DIM - SHOW_MIN)
  <2>1. CASE AtSquare /\ c = exit /\ m.n = 0
    <3>1. w = v /\ play_x' = play_x /\ play_y' = play_y
      BY <1>4, <1>9, <2>1, Zenon
    <3>2. QED
      BY <1>6, <1>8, <3>1
  <2>2. CASE ~(AtSquare /\ c = exit /\ m.n = 0)
    <3>1. MayGo(d) /\ Walk(d) /\ w = Followed(v, d, play_x', play_y', m)
      BY <1>4, <1>9, <2>2, Zenon
    <3>2. PICK x : x = play_x + (IF d = 1 THEN 1 ELSE IF d = 3 THEN -1 ELSE 0)
      OBVIOUS
    <3>3. PICK y : y = play_y + (IF d = 2 THEN 1 ELSE IF d = 0 THEN -1 ELSE 0)
      OBVIOUS
    <3>4. play_x' = x /\ play_y' = y
      BY <3>1, <3>2, <3>3, Zenon DEF Walk
    <3>5. Stands(walls, x, y)
      <4>1. Stands(walls, play_x + (IF d = 1 THEN 1 ELSE IF d = 3 THEN -1 ELSE 0),
                          play_y + (IF d = 2 THEN 1 ELSE IF d = 0 THEN -1 ELSE 0))
        BY <1>5, <1>8, <3>1, Walks
      <4>2. QED
        BY <3>2, <3>3, <4>1, Zenon
    <3>6. play_x \in Nat /\ play_y \in Nat
      BY <1>8, StandsWithin
    <3>7. /\ BLOCK_X_DIM <= x /\ x <= (Width - 1) * BLOCK_X_DIM
          /\ BLOCK_Y_DIM <= y /\ y <= (Height - 1) * BLOCK_Y_DIM
      BY <3>5, StandsWithin
    <3>8. w = Followed(v, d, x, y, m)
      BY <3>1, <3>4, Zenon
    <3>9. v.show_x >= SHOW_MIN /\ v.show_y >= SHOW_MIN
      BY <1>6, <1>8, KeepsInMaze
    <3>10. /\ Good(w) /\ Holds(w, m)
           /\ w.show_x = v.show_x + (IF d = 1 /\ PansRight(v, x) THEN 1
                                     ELSE IF d = 3 /\ PansLeft(v, x) THEN -1 ELSE 0)
           /\ w.show_y = v.show_y + (IF d = 2 /\ PansDown(v, y) THEN 1
                                     ELSE IF d = 0 /\ PansUp(v, y) THEN -1 ELSE 0)
      <4>1. LET f == Followed(v, d, x, y, m)
            IN  /\ Good(f) /\ Holds(f, m)
                /\ f.show_x = v.show_x + (IF d = 1 /\ PansRight(v, x) THEN 1
                                          ELSE IF d = 3 /\ PansLeft(v, x) THEN -1 ELSE 0)
                /\ f.show_y = v.show_y + (IF d = 2 /\ PansDown(v, y) THEN 1
                                          ELSE IF d = 0 /\ PansUp(v, y) THEN -1 ELSE 0)
        BY <1>6, <3>9, FollowedHolds
      <4>2. QED
        BY <3>8, <4>1, Zenon
    <3>11. Keeps(w.show_x, x, SCROLL_X_DIM, BLOCK_X_DIM, (Width + 1) * BLOCK_X_DIM - SHOW_MIN)
      BY <1>6, <1>8, <3>2, <3>6, <3>7, <3>10, StepX
    <3>12. Keeps(w.show_y, y, SCROLL_Y_DIM, BLOCK_Y_DIM, (Height + 1) * BLOCK_Y_DIM - SHOW_MIN)
      BY <1>6, <1>8, <3>3, <3>6, <3>7, <3>10, StepY
    <3>13. QED
      BY <3>4, <3>5, <3>10, <3>11, <3>12
  <2>3. QED
    BY <2>1, <2>2
<1>11. Holds(view, Now)'
  BY <1>4, <1>7, <1>9, <1>10, HoldsNext
<1>12. Good(view)'
  <2>1. Good(view')
    BY <1>9, <1>10
  <2>2. QED
    BY <2>1 DEF Good, Rect, Address, Buf
<1>13. /\ Keeps(view.show_x, play_x, SCROLL_X_DIM, BLOCK_X_DIM, (Width + 1) * BLOCK_X_DIM - SHOW_MIN)'
       /\ Keeps(view.show_y, play_y, SCROLL_Y_DIM, BLOCK_Y_DIM, (Height + 1) * BLOCK_Y_DIM - SHOW_MIN)'
  BY <1>9, <1>10 DEF Keeps, Width, Height
<1>14. Stands(walls, play_x, play_y)'
  BY <1>4, <1>10 DEF Stands, StandsAt, Width, Height
<1>15. QED
  BY <1>7, <1>11, <1>12, <1>13, <1>14 DEF InView


(* draw_frame *)
LEMMA FrameKeeps ==
  ASSUME LevelInv, NEW text \in BOOLEAN, Frame(text)
  PROVE  (stage' = stage /\ Playing /\ InView') /\ (Furnished' <=> Furnished)
<1>1. /\ Playing /\ InView /\ view' = AfterFrame(text) /\ stage' = stage
      /\ walls' = walls /\ exit' = exit /\ reach' = reach /\ fruits' = fruits
      /\ n_fruits' = n_fruits /\ play_x' = play_x /\ play_y' = play_y
  BY DEF LevelInv, Frame, maze, Playing
<1>2. PICK w : w = view'
  OBVIOUS
<1>3. /\ Good(view) /\ Holds(view, Now) /\ Stands(walls, play_x, play_y)
      /\ Keeps(view.show_x, play_x, SCROLL_X_DIM, BLOCK_X_DIM, (Width + 1) * BLOCK_X_DIM - SHOW_MIN)
      /\ Keeps(view.show_y, play_y, SCROLL_Y_DIM, BLOCK_Y_DIM, (Height + 1) * BLOCK_Y_DIM - SHOW_MIN)
  BY <1>1 DEF InView
<1>4. play_x \in Nat /\ play_y \in Nat
  BY <1>3, StandsWithin
<1>5. /\ Good(w) /\ w.show_x = view.show_x /\ w.show_y = view.show_y /\ Rect(w) = Rect(view)
      /\ \A p \in Rect(view) : Read(w, p) = Read(view, p)
  BY <1>1, <1>2, <1>3, <1>4, FrameLeaves
<1>6. PICK m : m = Now
  OBVIOUS
<1>7. Holds(w, m)
  BY <1>3, <1>5, <1>6 DEF Holds
<1>8. Now' = m
  BY <1>1, <1>6 DEF Now
<1>9. Holds(view, Now)'
  BY <1>1, <1>2, <1>7, <1>8, HoldsNext
<1>10. Good(view)'
  <2>1. Good(view')
    BY <1>2, <1>5
  <2>2. QED
    BY <2>1 DEF Good, Rect, Address, Buf
<1>11. /\ Keeps(view.show_x, play_x, SCROLL_X_DIM, BLOCK_X_DIM, (Width + 1) * BLOCK_X_DIM - SHOW_MIN)'
       /\ Keeps(view.show_y, play_y, SCROLL_Y_DIM, BLOCK_Y_DIM, (Height + 1) * BLOCK_Y_DIM - SHOW_MIN)'
  BY <1>1, <1>2, <1>3, <1>5 DEF Keeps, Width, Height
<1>12. Stands(walls, play_x, play_y)'
  BY <1>1, <1>3 DEF Stands, StandsAt, Width, Height
<1>13. Furnished' <=> Furnished
  BY <1>1 DEF Furnished, Nodes, Places
<1>14. QED
  BY <1>1, <1>9, <1>10, <1>11, <1>12, <1>13 DEF InView

(* The maze is made before anything is drawn. *)
LEMMA MakeKeeps ==
  ASSUME LevelInv, MakeMaze, UNCHANGED game
  PROVE  /\ Border(walls') /\ view' = InitView /\ stage' \notin {"play", "won"}
         /\ stage' = "ready" => Furnished'
<1>1. stage \notin {"play", "won"} /\ stage' \notin {"play", "won"}
  BY DEF MakeMaze, PickStart, WormMoves, WormTurns, MarkStart, TryConnect, Connect, Furnish, Digging
<1>2. view' = InitView
  BY <1>1 DEF game, LevelInv, Playing
<1>3. Border(walls')
  BY BorderKept DEF LevelInv
<1>4. ASSUME stage' = "ready"
      PROVE  Furnished'
  <2>1. Furnish
    BY <1>4 DEF MakeMaze, PickStart, WormMoves, WormTurns, MarkStart, TryConnect, Connect
  <2>2. fruits' \subseteq Nodes /\ exit' \in Nodes /\ n_fruits' = Cardinality(fruits')
    BY <2>1 DEF Furnish
  <2>3. QED
    BY <2>2 DEF Furnished, Nodes, Places
<1>5. QED
  BY <1>1, <1>2, <1>3, <1>4

(* The invariant holds before the maze is made,                             *)
LEMMA LevelStarts == LevelInit => LevelInv
<1>1. SUFFICES ASSUME LevelInit
               PROVE  LevelInv
  OBVIOUS
<1>2. MazeInv
  BY <1>1, MazeStarts DEF LevelInit
<1>3. walls = Places /\ stage \notin {"ready", "play", "won"} /\ view = InitView
  BY <1>1 DEF LevelInit, Init
<1>4. Border(walls)
  BY <1>3 DEF Border
<1>5. QED
  BY <1>2, <1>3, <1>4 DEF LevelInv, Playing

(* and every step keeps it.                                                 *)
LEMMA LevelKept == LevelInv /\ [Next]_vars => LevelInv'
<1>1. SUFFICES ASSUME LevelInv, [Next]_vars
               PROVE  LevelInv'
  OBVIOUS
<1>2. MazeInv'
  BY <1>1, MazeKept DEF LevelInv
<1>3. SUFFICES /\ Border(walls')
               /\ stage' \in {"ready", "play", "won"} => Furnished'
               /\ IF Playing' THEN InView' ELSE view' = InitView
  BY <1>2 DEF LevelInv, Border, Places, Width, Height, InitView
<1>4. CASE MakeMaze /\ UNCHANGED game
  <2>1. /\ Border(walls') /\ view' = InitView /\ stage' \notin {"play", "won"}
        /\ stage' = "ready" => Furnished'
    BY <1>1, <1>4, MakeKeeps
  <2>2. QED
    BY <2>1 DEF Playing
<1>5. CASE Prepare
  <2>1. Furnished' /\ InView' /\ stage' = "play" /\ walls' = walls
    BY <1>1, <1>5, PrepareKeeps DEF Prepare
  <2>2. QED
    BY <1>1, <2>1 DEF Playing, LevelInv
<1>6. ASSUME NEW d \in Dir \cup {Stop}, Tick(d)
      PROVE  /\ Border(walls')
             /\ stage' \in {"ready", "play", "won"} => Furnished'
             /\ IF Playing' THEN InView' ELSE view' = InitView
  <2>1. Furnished' /\ InView'
    BY <1>1, <1>6, TickKeeps
  <2>2. stage' \in {"play", "won"} /\ walls' = walls
    BY <1>6 DEF Tick
  <2>3. QED
    BY <1>1, <2>1, <2>2 DEF Playing, LevelInv
<1>7. ASSUME NEW text \in BOOLEAN, Frame(text)
      PROVE  /\ Border(walls')
             /\ stage' \in {"ready", "play", "won"} => Furnished'
             /\ IF Playing' THEN InView' ELSE view' = InitView
  <2>1. stage' = stage /\ Playing /\ InView' /\ (Furnished' <=> Furnished)
    BY <1>1, <1>7, FrameKeeps
  <2>2. walls' = walls
    BY <1>7 DEF Frame, maze
  <2>3. QED
    BY <1>1, <2>1, <2>2 DEF Playing, LevelInv
<1>8. CASE UNCHANGED vars
  <2>1. /\ stage' = stage /\ walls' = walls /\ exit' = exit /\ reach' = reach /\ fruits' = fruits
        /\ n_fruits' = n_fruits /\ play_x' = play_x /\ play_y' = play_y /\ view' = view
    BY <1>8 DEF vars, maze, game
  <2>2. Furnished' <=> Furnished
    BY <2>1 DEF Furnished, Nodes, Places
  <2>3. CASE Playing
    <3>1. Furnished /\ InView
      BY <1>1, <2>3 DEF LevelInv, Playing
    <3>2. PICK v : v = view
      OBVIOUS
    <3>3. PICK m : m = Now
      OBVIOUS
    <3>4. Now' = m
      BY <2>1, <3>3 DEF Now
    <3>5. Holds(v, m)
      BY <3>1, <3>2, <3>3 DEF InView
    <3>6. v = view'
      BY <2>1, <3>2
    <3>7. Holds(view, Now)'
      BY <2>1, <3>4, <3>5, <3>6, HoldsNext
    <3>8. Good(view)'
      BY <2>1, <3>1 DEF InView, Good, Rect, Address, Buf
    <3>9. Stands(walls, play_x, play_y)'
      BY <2>1, <3>1 DEF InView, Stands, StandsAt, Width, Height
    <3>10. /\ Keeps(view.show_x, play_x, SCROLL_X_DIM, BLOCK_X_DIM, (Width + 1) * BLOCK_X_DIM - SHOW_MIN)'
           /\ Keeps(view.show_y, play_y, SCROLL_Y_DIM, BLOCK_Y_DIM, (Height + 1) * BLOCK_Y_DIM - SHOW_MIN)'
      BY <2>1, <3>1 DEF InView, Keeps, Width, Height
    <3>11. InView'
      BY <3>7, <3>8, <3>9, <3>10 DEF InView
    <3>12. QED
      BY <1>1, <2>1, <2>2, <2>3, <3>1, <3>11 DEF LevelInv, Playing
  <2>4. CASE ~Playing
    BY <1>1, <2>1, <2>2, <2>4 DEF LevelInv, Playing
  <2>5. QED
    BY <2>3, <2>4
<1>9. QED
  BY <1>1, <1>4, <1>5, <1>6, <1>7, <1>8 DEF Next

-----------------------------------------------------------------------------
(* It says that the window holds the picture,                               *)
LEMMA PictureSeen == LevelInv => PictureTrue
<1>1. SUFFICES ASSUME LevelInv, Playing
               PROVE  /\ WindowInBounds
                      /\ LET P == Window(view) IN \A p \in P : Read(view, p) = Picture(P, Now)[p]
  BY DEF PictureTrue
<1>2. /\ Good(view) /\ Holds(view, Now) /\ Stands(walls, play_x, play_y)
      /\ Keeps(view.show_x, play_x, SCROLL_X_DIM, BLOCK_X_DIM, (Width + 1) * BLOCK_X_DIM - SHOW_MIN)
      /\ Keeps(view.show_y, play_y, SCROLL_Y_DIM, BLOCK_Y_DIM, (Height + 1) * BLOCK_Y_DIM - SHOW_MIN)
  BY <1>1 DEF LevelInv, InView
<1>3. view.show_x \in Nat /\ view.show_y \in Nat
  BY <1>2 DEF Good
<1>4. play_x \in Nat /\ play_y \in Nat
  BY <1>2, StandsWithin
<1>5. PICK P : P = Window(view)
  OBVIOUS
<1>6. P = Rect(view)
  BY <1>3, <1>5, WindowIs
<1>7. \A p \in P : Read(view, p) = Picture(P, Now)[p]
  BY <1>2, <1>6 DEF Holds, Pixel, Picture
<1>8. DOMAIN view.build = Buf
  <2>1. view = [show_x |-> view.show_x, show_y |-> view.show_y, img3_off |-> view.img3_off,
                build |-> [a \in Buf |-> view.build[a]]]
    BY <1>2 DEF Good
  <2>2. view.build = [a \in Buf |-> view.build[a]]
    BY <2>1
  <2>3. DOMAIN [a \in Buf |-> view.build[a]] = Buf
    OBVIOUS
  <2>4. QED
    BY <2>2, <2>3, Zenon
<1>9. \A p \in P : Address(view, p) \in Buf
  BY <1>2, <1>6 DEF Good
<1>10. PICK a \in Int, b \in Int :
         a = (Width + 1) * BLOCK_X_DIM /\ b = (Height + 1) * BLOCK_Y_DIM
  BY Blocks
<1>11. /\ SHOW_MIN \in Nat /\ SCROLL_X_DIM \in Nat /\ SCROLL_Y_DIM \in Nat
       /\ BLOCK_X_DIM \in Nat /\ BLOCK_Y_DIM \in Nat
  BY Sizes, LevelAssumption, Blocks
<1>12. /\ SHOW_MIN <= view.show_x /\ view.show_x + SCROLL_X_DIM <= a - SHOW_MIN
       /\ SHOW_MIN <= view.show_y /\ view.show_y + SCROLL_Y_DIM <= b - SHOW_MIN
       /\ view.show_x <= play_x /\ play_x + BLOCK_X_DIM <= view.show_x + SCROLL_X_DIM
       /\ view.show_y <= play_y /\ play_y + BLOCK_Y_DIM <= view.show_y + SCROLL_Y_DIM
  BY <1>2, <1>10 DEF Keeps
<1>13. /\ view.show_x \in SHOW_MIN..a - SHOW_MIN - SCROLL_X_DIM
       /\ view.show_y \in SHOW_MIN..b - SHOW_MIN - SCROLL_Y_DIM
  BY <1>3, <1>10, <1>11, <1>12
<1>14. PICK C : C = Clipped(view, play_x, play_y, BLOCK_X_DIM, BLOCK_Y_DIM)
  OBVIOUS
<1>15. C = (play_x..play_x+BLOCK_X_DIM-1) \X (play_y..play_y+BLOCK_Y_DIM-1)
  <2>1. C \subseteq P
    BY <1>3, <1>4, <1>5, <1>11, <1>14, ClippedIn
  <2>2. \A p \in P : p \in C <=>
          p[1] \in play_x..play_x+BLOCK_X_DIM-1 /\ p[2] \in play_y..play_y+BLOCK_Y_DIM-1
    <3>1. play_x \in Int /\ play_y \in Int
      BY <1>4
    <3>2. \A p \in Window(view) : p \in Clipped(view, play_x, play_y, BLOCK_X_DIM, BLOCK_Y_DIM) <=>
            p[1] \in play_x..play_x+BLOCK_X_DIM-1 /\ p[2] \in play_y..play_y+BLOCK_Y_DIM-1
      BY <1>3, <1>11, <3>1, ClippedIn
    <3>3. QED
      BY <1>5, <1>14, <3>2, Zenon
  <2>3. ASSUME NEW i \in play_x..play_x+BLOCK_X_DIM-1, NEW j \in play_y..play_y+BLOCK_Y_DIM-1
        PROVE  <<i, j>> \in C
    <3>1. <<i, j>> \in P
      BY <1>3, <1>4, <1>6, <1>11, <1>12 DEF Rect
    <3>2. QED
      BY <2>2, <3>1
  <2>4. ASSUME NEW p \in C
        PROVE  p \in (play_x..play_x+BLOCK_X_DIM-1) \X (play_y..play_y+BLOCK_Y_DIM-1)
    <3>1. p \in P
      BY <2>1
    <3>2. p = <<p[1], p[2]>>
      BY <1>6, <3>1 DEF Rect
    <3>3. QED
      BY <2>2, <3>1, <3>2
  <2>5. QED
    BY <2>3, <2>4
<1>16. WindowInBounds
  BY <1>5, <1>8, <1>9, <1>10, <1>13, <1>14, <1>15 DEF WindowInBounds, Buf
<1>17. QED
  BY <1>5, <1>7, <1>16

(* and that the display shows it.                                           *)
LEMMA DisplayedTrue == LevelInv => DisplayTrue
<1>1. SUFFICES ASSUME LevelInv, Playing, NEW text \in BOOLEAN,
                      NEW c \in 0..SCROLL_X_DIM-1, NEW r \in 0..SCROLL_Y_DIM-1
               PROVE  LET shown  == FrameShown(text)
                          base   == Picture(Window(view), Now)
                          player == Clipped(view, play_x, play_y, BLOCK_X_DIM, BLOCK_Y_DIM)
                          over   == IF text THEN TextBlock(view, TextX, TextY) ELSE {}
                          Under(p)  == IF p \in player THEN <<"player", base[p]>> ELSE base[p]
                          Whole(p)  == IF p \in over THEN <<"text", Under(p)>> ELSE Under(p)
                      IN  Shown(shown, c, r) = Whole(<<view.show_x + c, view.show_y + r>>)
  BY DEF DisplayTrue
<1>2. Good(view) /\ Holds(view, Now) /\ Stands(walls, play_x, play_y)
  BY <1>1 DEF LevelInv, InView
<1>3. view.show_x \in Nat /\ view.show_y \in Nat
  BY <1>2 DEF Good
<1>4. play_x \in Nat /\ play_y \in Nat
  BY <1>2, StandsWithin
<1>5. PICK q : q = <<view.show_x + c, view.show_y + r>>
  OBVIOUS
<1>6. q \in Rect(view)
  BY <1>3, <1>5, Sizes DEF Rect
<1>7. PICK base : base = Picture(Window(view), Now)
  OBVIOUS
<1>8. Read(view, q) = base[q]
  <2>1. Window(view) = Rect(view)
    BY <1>3, WindowIs
  <2>2. QED
    BY <1>2, <1>6, <1>7, <2>1 DEF Holds, Pixel, Picture
<1>9. PICK w : w = PlayerDrawn(view)
  OBVIOUS
<1>10. PICK u : u = TextDrawn(w)
  OBVIOUS
<1>11. PICK f : f = FrameShown(text)
  OBVIOUS
<1>12. /\ Good(w) /\ w.show_x = view.show_x /\ w.show_y = view.show_y /\ Rect(w) = Rect(view)
       /\ \A p \in Rect(view) :
            Read(w, p) = IF p \in PlayerBlock THEN <<"player", Read(view, p)>> ELSE Read(view, p)
  BY <1>2, <1>4, <1>9, PlayerShows
<1>13. /\ Good(u) /\ u.show_x = view.show_x /\ u.show_y = view.show_y /\ Rect(u) = Rect(view)
       /\ \A p \in Rect(view) : Read(u, p) = IF p \in TheText THEN <<"text", Read(w, p)>>
                                                             ELSE Read(w, p)
  BY <1>2, <1>4, <1>9, <1>10, TextShows
<1>14. f = IF text THEN u ELSE w
  BY <1>9, <1>10, <1>11 DEF FrameShown
<1>15. Good(f) /\ f.show_x = view.show_x /\ f.show_y = view.show_y
  BY <1>12, <1>13, <1>14
<1>16. Shown(f, c, r) = Read(f, q)
  <2>1. f.show_x \in Nat /\ f.show_y \in Nat /\ f.img3_off \in Int
    BY <1>15 DEF Good
  <2>2. Shown(f, c, r) = Read(f, <<f.show_x + c, f.show_y + r>>)
    BY <2>1, ShownIs
  <2>3. QED
    BY <1>5, <1>15, <2>2
<1>17. PICK under : under = IF q \in PlayerBlock THEN <<"player", base[q]>> ELSE base[q]
  OBVIOUS
<1>18. Read(w, q) = under
  BY <1>6, <1>8, <1>12, <1>17
<1>19. Shown(f, c, r) = IF text /\ q \in TheText THEN <<"text", under>> ELSE under
  BY <1>6, <1>13, <1>14, <1>16, <1>18
<1>20. QED
  BY <1>5, <1>7, <1>11, <1>17, <1>19, Zenon DEF PlayerBlock, TheText

(* Whenever the game draws, whatever the maze, the player's way and the     *)
(* sizes are: the window is inside the maze and the buffer, and holds       *)
(* exactly the picture of the maze as it is now.                            *)
THEOREM PictureStaysTrue == Spec => []PictureTrue
<1>1. QED
  BY LevelStarts, LevelKept, PictureSeen, PTL DEF Spec

(* Whenever a frame is shown, every pixel of the display is the maze's, the *)
(* player's or the text's, in the order in which they cover each other.     *)
THEOREM DisplayStaysTrue == Spec => []DisplayTrue
<1>1. QED
  BY LevelStarts, LevelKept, DisplayedTrue, PTL DEF Spec
=============================================================================
