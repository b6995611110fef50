------------------------- MODULE UpdateImage_proofs -------------------------
(***************************************************************************)
(* What UpdateImage keeps for any images, any commands and any faults: the *)
(* dentries are a forest whose trees have one owner each, and stay one     *)
(* when everything in the journal is undone.                               *)
(***************************************************************************)
EXTENDS UpdateImage, NaturalsInduction, WellFoundedInduction, TLAPS

-----------------------------------------------------------------------------
(* The inductive invariant.                                                *)

Nodes(s) == DOMAIN s.dentries
Labels == Names \cup {Unnamed}
Dentries(X) == [X -> [name : Labels, short : BOOLEAN, dir : BOOLEAN, parent : X]]

(* There is no way in a circle, nor one that goes up for ever. *)
Acyclic(d) ==
    \A X \in SUBSET DOMAIN d : X # {} => \E n \in X : d[n].parent = n \/ d[n].parent \notin X

Forest(d) ==
    /\ d \in Dentries(DOMAIN d) /\ None \notin DOMAIN d
    /\ \A n \in DOMAIN d : d[n].parent # n => d[d[n].parent].dir
    /\ \A n, m \in DOMAIN d :
          /\ d[n].parent # n /\ d[m].parent # m
          /\ d[m].parent = d[n].parent /\ d[m].name = d[n].name
          => m = n
    /\ Acyclic(d)

(* Forest is kept by every change; what is above a dentry is well defined  *)
(* under less.                                                             *)
Rooted(d) == Acyclic(d) /\ \A n \in DOMAIN d : d[n].parent \in DOMAIN d

(* An image whose dentries are N: each of its trees has one owner, the     *)
(* image or the list of the orphans.                                       *)
Fits(s, N) ==
    /\ s = [dentries |-> s.dentries, root |-> s.root, orphans |-> s.orphans]
    /\ Forest(s.dentries) /\ Nodes(s) = N
    /\ s.root # None => s.root \in N /\ s.dentries[s.root].dir
    /\ s.orphans \subseteq N /\ s.root \notin s.orphans
    /\ \A n \in N : s.dentries[n].parent = n <=> n = s.root \/ n \in s.orphans

(* What the journal may speak of. *)
Prims(N) ==
    [op : {"link", "unlink"}, subject : N, parent : N \cup {None}]
      \cup [op : {"name"}, subject : N, old : Labels, new : Labels]
      \cup [op : {"short"}, subject : N, old : BOOLEAN]

(* Undo the last primitive of the i-th command. *)
Idle(j, i) == j[i] = <<>>
CanGoBack(j, i) == ~Idle(j, i) /\ \A k \in (i + 1)..Len(j) : Idle(j, k)
Shortened(j, i) == [j EXCEPT ![i] = RemoveAt(@, Len(@))]
GoBack(s, j, i) == <<Undo(s, j[i][Len(j[i])]), Shortened(j, i)>>

(* R is a set of images with their journals, each of which can be undone.  *)
Safe(R, N, c) ==
    \A e \in R :
        /\ e = <<e[1], e[2]>>
        /\ Fits(e[1], N)
        /\ e[2] \in Seq(Seq(Prims(N))) /\ Len(e[2]) = c
        /\ \A i \in 1..c : CanGoBack(e[2], i) => GoBack(e[1], e[2], i) \in R

(* P is the branch that is being added: it is not yet a part of the image, *)
(* and what is left of it is where it was in the tree that was scanned.    *)
Roots(d) == {n \in DOMAIN d : d[n].parent = n}
BranchOK(P, c) ==
    /\ Forest(P)
    /\ \A n \in DOMAIN P :
          /\ n = <<c, n[2]>> /\ n[2] \in Seq(Names)
          /\ n # <<c, <<>>>> => <<c, Front(n[2])>> \in DOMAIN P
          /\ n \notin Roots(P) => n # <<c, <<>>>> /\ P[n].parent = <<c, Front(n[2])>>

Adding == {"attach", "conflict", "overlay"}
BranchRoots ==
    (IF pc \in Adding THEN {Branch} ELSE {}) \cup {stack[k].branch : k \in DOMAIN stack}

(* The number in the name of a dentry is that of a command so far. *)
IdsOK ==
    \A n \in Nodes(image) :
        /\ n = <<n[1], n[2]>> /\ n[1] \in Int /\ -cur <= n[1] /\ n[1] <= cur
        /\ n[2] \in Seq(Names)
        /\ pc = "add" => n[1] # cur /\ n[1] # -cur

(* The calls of handle_conflict under way. *)
StackOK(N, P) ==
    /\ stack \in Seq([branch : DOMAIN P, existing : N])
    /\ stack # <<>> <=> pc \in {"conflict", "overlay"}
    /\ \A k \in DOMAIN stack :
          /\ stack[k].existing \notin image.orphans
          /\ Len(stack[k].branch[2]) = k - 1
          /\ k > 1 => stack[k - 1].branch = <<cur, Front(stack[k].branch[2])>>
          /\ k < Len(stack) \/ pc = "overlay" =>
                image.dentries[stack[k].branch].dir /\ image.dentries[stack[k].existing].dir
    /\ pc = "conflict" /\ image.dentries[top.existing].parent # top.existing =>
          image.dentries[top.branch].name = image.dentries[top.existing].name

(* Before the branch is attached. *)
AttachOK ==
    pc = "attach" =>
        /\ cmd.path = <<>> => image.dentries[Branch].dir
        /\ image.dentries[Branch].name = NameOf(cmd.path)
        /\ \A n \in Nodes(image) : n[1] = -cur => Get(image, n[2]) = n

CommandsOK ==
    /\ cmds \in Seq(Commands)
    /\ pc \in {"command", "add", "delete", "rename", "attach", "conflict", "overlay", "end",
               "rollback", "ok", "error"}
    /\ pc \in {"add", "delete", "rename"} => cmds # <<>> /\ cmd.op = pc
    /\ pc \in Adding => cmds # <<>> /\ cmd.op = "add"

UndoableWith(s, R, N, P) ==
    /\ image = With(s, P) /\ N \cap DOMAIN P = {}
    /\ <<s, prims>> \in R /\ Safe(R, N, cur)
    /\ BranchOK(P, cur) /\ Roots(P) = BranchRoots
    /\ StackOK(N, P)
Undoable == \E s, R, N, P : UndoableWith(s, R, N, P)
Settled ==
    /\ stack = <<>> /\ image.orphans = {}
    /\ Fits(image, Nodes(image))

IInv ==
    /\ CommandsOK
    /\ pc \notin {"ok", "error"} => Undoable /\ IdsOK /\ AttachOK
    /\ pc \in {"ok", "error"} => Settled

-----------------------------------------------------------------------------
(* Changes to a forest.                                                    *)

Move(d, n, p) == [d EXCEPT ![n].parent = p]

LEMMA MoveIs ==
    ASSUME NEW X, NEW d \in Dentries(X), NEW n \in X, NEW p \in X
    PROVE  /\ Move(d, n, p) \in Dentries(X) /\ DOMAIN Move(d, n, p) = X
           /\ Move(d, n, p)[n].parent = p /\ Move(d, n, p)[n].name = d[n].name
           /\ Move(d, n, p)[n].dir = d[n].dir /\ Move(d, n, p)[n].short = d[n].short
           /\ \A m \in X : m # n => Move(d, n, p)[m] = d[m]
BY DEF Move, Dentries

LEMMA MoveTwice ==
    ASSUME NEW X, NEW d \in Dentries(X), NEW n \in X, NEW p \in X
    PROVE  Move(Move(d, n, p), n, d[n].parent) = d
<1>0. PICK q \in X : q = d[n].parent
  BY DEF Dentries
<1> DEFINE e == Move(d, n, p)
           f == Move(e, n, q)
<1>1. /\ e \in Dentries(X) /\ e[n].name = d[n].name /\ e[n].dir = d[n].dir
      /\ e[n].short = d[n].short /\ \A m \in X : m # n => e[m] = d[m]
  BY MoveIs
<1> HIDE DEF e
<1>2. /\ f \in Dentries(X) /\ f[n].name = e[n].name /\ f[n].dir = e[n].dir
      /\ f[n].short = e[n].short /\ f[n].parent = q
      /\ \A m \in X : m # n => f[m] = e[m]
  BY <1>1, MoveIs
<1> HIDE DEF f
<1>3. f[n] = d[n]
  BY <1>0, <1>1, <1>2 DEF Dentries
<1>4. \A m \in X : f[m] = d[m]
  BY <1>1, <1>2, <1>3
<1>5. f = d
  BY <1>2, <1>4 DEF Dentries
<1> QED
  BY <1>0, <1>5 DEF f, e

LEMMA MoveToSelf ==
    ASSUME NEW d, Forest(d), NEW n \in DOMAIN d
    PROVE  Forest(Move(d, n, n))
<1> DEFINE X == DOMAIN d
           e == Move(d, n, n)
<1>1. d \in Dentries(X)
  BY DEF Forest
<1>2. /\ e \in Dentries(X) /\ DOMAIN e = X /\ e[n].parent = n /\ e[n].name = d[n].name
      /\ e[n].dir = d[n].dir /\ \A m \in X : m # n => e[m] = d[m]
  BY <1>1, MoveIs
<1> HIDE DEF e
<1>3. Acyclic(e)
  <2> SUFFICES ASSUME NEW Y \in SUBSET X, Y # {}
               PROVE  \E m \in Y : e[m].parent = m \/ e[m].parent \notin Y
    BY <1>2 DEF Acyclic
  <2>1. PICK m \in Y : d[m].parent = m \/ d[m].parent \notin Y
    BY DEF Forest, Acyclic
  <2> QED
    BY <2>1, <1>2
<1>4. \A m \in X : e[m].parent # m => e[e[m].parent].dir
  BY <1>1, <1>2 DEF Forest, Dentries
<1>5. \A m, k \in X : e[m].parent # m /\ e[k].parent # k /\ e[k].parent = e[m].parent
                       /\ e[k].name = e[m].name => k = m
  BY <1>2 DEF Forest
<1>6. None \notin X
  BY DEF Forest
<1> QED
  BY <1>2, <1>3, <1>4, <1>5, <1>6 DEF Forest, e

(* K is a part of the forest with all the ways up from it.                 *)
Closed(d, K) == K \subseteq DOMAIN d /\ \A n \in K : d[n].parent \in K

LEMMA MoveUnder ==
    ASSUME NEW d, Forest(d), NEW n \in DOMAIN d, NEW K, Closed(d, K), NEW p \in K, n \notin K,
           d[p].dir, \A m \in DOMAIN d \ {p} : d[m].parent = p => d[m].name # d[n].name
    PROVE  Forest(Move(d, n, p))
<1> DEFINE X == DOMAIN d
           e == Move(d, n, p)
<1>1. d \in Dentries(X) /\ p \in X /\ p # n
  BY DEF Forest, Closed
<1>2. /\ e \in Dentries(X) /\ DOMAIN e = X /\ e[n].parent = p /\ e[n].name = d[n].name
      /\ e[n].dir = d[n].dir /\ \A m \in X : m # n => e[m] = d[m]
  BY <1>1, MoveIs
<1> HIDE DEF e
<1>3. Acyclic(e)
  <2> SUFFICES ASSUME NEW Y \in SUBSET X, Y # {}
               PROVE  \E m \in Y : e[m].parent = m \/ e[m].parent \notin Y
    BY <1>2 DEF Acyclic
  <2>1. CASE Y \cap K = {}
    <3>1. CASE n \in Y
      BY <3>1, <2>1, <1>2
    <3>2. CASE n \notin Y
      <4>1. PICK m \in Y : d[m].parent = m \/ d[m].parent \notin Y
        BY DEF Forest, Acyclic
      <4> QED
        BY <4>1, <3>2, <1>2
    <3> QED
      BY <3>1, <3>2
  <2>2. CASE Y \cap K # {}
    <3>1. PICK m \in Y \cap K : d[m].parent = m \/ d[m].parent \notin Y \cap K
      BY <2>2 DEF Forest, Acyclic
    <3>2. d[m].parent \in K /\ m # n
      BY <3>1 DEF Closed
    <3> QED
      BY <3>1, <3>2, <1>2
  <2> QED
    BY <2>1, <2>2
<1>4. \A m \in X : e[m].parent # m => e[e[m].parent].dir
  BY <1>1, <1>2 DEF Forest, Dentries
<1>5. ASSUME NEW m \in X, NEW k \in X, e[m].parent # m, e[k].parent # k,
             e[k].parent = e[m].parent, e[k].name = e[m].name
      PROVE  k = m
  <2>1. CASE m = n
    BY <1>5, <1>2, <2>1, <1>1
  <2>2. CASE k = n
    BY <1>5, <1>2, <2>2, <1>1
  <2>3. CASE m # n /\ k # n
    BY <1>5, <1>2, <2>3 DEF Forest
  <2> QED
    BY <2>1, <2>2, <2>3
<1>6. None \notin X
  BY DEF Forest
<1> QED
  BY <1>2, <1>3, <1>4, <1>5, <1>6 DEF Forest, e

Relabel(d, n, x) == [d EXCEPT ![n].name = x]

LEMMA RelabelIs ==
    ASSUME NEW X, NEW d \in Dentries(X), NEW n \in X, NEW x \in Labels
    PROVE  /\ Relabel(d, n, x) \in Dentries(X) /\ DOMAIN Relabel(d, n, x) = X
           /\ Relabel(d, n, x)[n].name = x /\ Relabel(d, n, x)[n].parent = d[n].parent
           /\ Relabel(d, n, x)[n].dir = d[n].dir /\ Relabel(d, n, x)[n].short = d[n].short
           /\ \A m \in X : m # n => Relabel(d, n, x)[m] = d[m]
BY DEF Relabel, Dentries

LEMMA RelabelTwice ==
    ASSUME NEW X, NEW d \in Dentries(X), NEW n \in X, NEW x \in Labels
    PROVE  Relabel(Relabel(d, n, x), n, d[n].name) = d
<1>0. PICK y \in Labels : y = d[n].name
  BY DEF Dentries
<1> DEFINE e == Relabel(d, n, x)
           f == Relabel(e, n, y)
<1>1. /\ e \in Dentries(X) /\ e[n].parent = d[n].parent /\ e[n].dir = d[n].dir
      /\ e[n].short = d[n].short /\ \A m \in X : m # n => e[m] = d[m]
  BY RelabelIs
<1> HIDE DEF e
<1>2. /\ f \in Dentries(X) /\ f[n].name = y /\ f[n].dir = e[n].dir
      /\ f[n].short = e[n].short /\ f[n].parent = e[n].parent
      /\ \A m \in X : m # n => f[m] = e[m]
  BY <1>0, <1>1, RelabelIs
<1> HIDE DEF f
<1>3. f[n] = d[n]
  BY <1>0, <1>1, <1>2 DEF Dentries
<1>4. \A m \in X : f[m] = d[m]
  BY <1>1, <1>2, <1>3
<1>5. f = d
  BY <1>2, <1>4 DEF Dentries
<1> QED
  BY <1>0, <1>5 DEF f, e

LEMMA RelabelRoot ==
    ASSUME NEW d, Forest(d), NEW n \in DOMAIN d, d[n].parent = n, NEW x \in Labels
    PROVE  Forest(Relabel(d, n, x))
<1> DEFINE X == DOMAIN d
           e == Relabel(d, n, x)
<1>1. d \in Dentries(X) /\ None \notin X
  BY DEF Forest
<1>2. /\ e \in Dentries(X) /\ DOMAIN e = X /\ e[n].parent = n /\ e[n].dir = d[n].dir
      /\ \A m \in X : m # n => e[m] = d[m]
  BY <1>1, RelabelIs
<1> HIDE DEF e
<1>3. \A m \in X : e[m].parent = d[m].parent /\ e[m].dir = d[m].dir
  BY <1>2
<1>4. Acyclic(e)
  BY <1>2, <1>3 DEF Forest, Acyclic
<1>5. \A m \in X : e[m].parent # m => e[e[m].parent].dir
  BY <1>1, <1>3 DEF Forest, Dentries
<1>6. \A m, k \in X : e[m].parent # m /\ e[k].parent # k /\ e[k].parent = e[m].parent
                       /\ e[k].name = e[m].name => k = m
  BY <1>2 DEF Forest
<1> QED
  BY <1>1, <1>2, <1>4, <1>5, <1>6 DEF Forest, e

(* A DOS name is of no importance to the forest. *)
Reshort(d, n, x) == [d EXCEPT ![n].short = x]

LEMMA ReshortIs ==
    ASSUME NEW X, NEW d \in Dentries(X), NEW n \in X, NEW x \in BOOLEAN
    PROVE  /\ Reshort(d, n, x) \in Dentries(X) /\ DOMAIN Reshort(d, n, x) = X
           /\ Reshort(d, n, x)[n].name = d[n].name /\ Reshort(d, n, x)[n].parent = d[n].parent
           /\ Reshort(d, n, x)[n].dir = d[n].dir /\ Reshort(d, n, x)[n].short = x
           /\ \A m \in X : m # n => Reshort(d, n, x)[m] = d[m]
BY DEF Reshort, Dentries

LEMMA ReshortTwice ==
    ASSUME NEW X, NEW d \in Dentries(X), NEW n \in X, NEW x \in BOOLEAN
    PROVE  Reshort(Reshort(d, n, x), n, d[n].short) = d
<1>0. PICK y \in BOOLEAN : y = d[n].short
  BY DEF Dentries
<1> DEFINE e == Reshort(d, n, x)
           f == Reshort(e, n, y)
<1>1. /\ e \in Dentries(X) /\ e[n].parent = d[n].parent /\ e[n].dir = d[n].dir
      /\ e[n].name = d[n].name /\ \A m \in X : m # n => e[m] = d[m]
  BY ReshortIs
<1> HIDE DEF e
<1>2. /\ f \in Dentries(X) /\ f[n].name = e[n].name /\ f[n].dir = e[n].dir
      /\ f[n].short = y /\ f[n].parent = e[n].parent
      /\ \A m \in X : m # n => f[m] = e[m]
  BY <1>0, <1>1, ReshortIs
<1> HIDE DEF f
<1>3. f[n] = d[n]
  BY <1>0, <1>1, <1>2 DEF Dentries
<1>4. \A m \in X : f[m] = d[m]
  BY <1>1, <1>2, <1>3
<1>5. f = d
  BY <1>2, <1>4 DEF Dentries
<1> QED
  BY <1>0, <1>5 DEF f, e

LEMMA ReshortForest ==
    ASSUME NEW d, Forest(d), NEW n \in DOMAIN d, NEW x \in BOOLEAN
    PROVE  Forest(Reshort(d, n, x))
<1> DEFINE X == DOMAIN d
           e == Reshort(d, n, x)
<1>1. d \in Dentries(X) /\ None \notin X
  BY DEF Forest
<1>2. /\ e \in Dentries(X) /\ DOMAIN e = X /\ e[n].parent = d[n].parent /\ e[n].dir = d[n].dir
      /\ e[n].name = d[n].name /\ \A m \in X : m # n => e[m] = d[m]
  BY <1>1, ReshortIs
<1> HIDE DEF e
<1>3. \A m \in X : e[m].parent = d[m].parent /\ e[m].dir = d[m].dir /\ e[m].name = d[m].name
  BY <1>2
<1>4. Acyclic(e)
  BY <1>2, <1>3 DEF Forest, Acyclic
<1>5. \A m \in X : e[m].parent # m => e[e[m].parent].dir
  BY <1>1, <1>3 DEF Forest, Dentries
<1>6. \A m, k \in X : e[m].parent # m /\ e[k].parent # k /\ e[k].parent = e[m].parent
                       /\ e[k].name = e[m].name => k = m
  BY <1>3 DEF Forest
<1> QED
  BY <1>1, <1>2, <1>4, <1>5, <1>6 DEF Forest, e

(* Whole trees may go and come. *)
Part(d, K) == [n \in K |-> d[n]]

LEMMA PartForest ==
    ASSUME NEW d, Forest(d), NEW K, Closed(d, K)
    PROVE  Forest(Part(d, K)) /\ DOMAIN Part(d, K) = K /\ \A n \in K : Part(d, K)[n] = d[n]
<1> DEFINE X == DOMAIN d
           e == Part(d, K)
<1>1. d \in Dentries(X) /\ None \notin X /\ K \subseteq X /\ \A n \in K : d[n].parent \in K
  BY DEF Forest, Closed
<1>2. DOMAIN e = K /\ e = [n \in K |-> e[n]] /\ \A n \in K : e[n] = d[n]
  BY DEF Part
<1> HIDE DEF e
<1>3. e \in Dentries(K)
  <2>1. \A n \in K : e[n] \in [name : Labels, short : BOOLEAN, dir : BOOLEAN, parent : K]
    BY <1>1, <1>2 DEF Dentries
  <2> QED
    BY <2>1, <1>2 DEF Dentries
<1>4. Acyclic(e)
  BY <1>1, <1>2 DEF Forest, Acyclic
<1>5. \A m \in K : e[m].parent # m => e[e[m].parent].dir
  BY <1>1, <1>2 DEF Forest
<1>6. \A m, k \in K : e[m].parent # m /\ e[k].parent # k /\ e[k].parent = e[m].parent
                       /\ e[k].name = e[m].name => k = m
  BY <1>1, <1>2 DEF Forest
<1> QED
  BY <1>1, <1>2, <1>3, <1>4, <1>5, <1>6 DEF Forest, e

Join(d, g) == [n \in DOMAIN d \cup DOMAIN g |-> IF n \in DOMAIN g THEN g[n] ELSE d[n]]

LEMMA UnionForest ==
    ASSUME NEW d, Forest(d), NEW g, Forest(g), DOMAIN d \cap DOMAIN g = {}
    PROVE  /\ Forest(Join(d, g)) /\ DOMAIN Join(d, g) = DOMAIN d \cup DOMAIN g
           /\ \A n \in DOMAIN d : Join(d, g)[n] = d[n]
           /\ \A n \in DOMAIN g : Join(d, g)[n] = g[n]
<1> DEFINE X == DOMAIN d
           Z == DOMAIN g
           e == Join(d, g)
<1>1. d \in Dentries(X) /\ None \notin X /\ g \in Dentries(Z) /\ None \notin Z
  BY DEF Forest
<1>2. /\ DOMAIN e = X \cup Z /\ e = [n \in X \cup Z |-> e[n]]
      /\ \A n \in X : e[n] = d[n]
      /\ \A n \in Z : e[n] = g[n]
  BY DEF Join
<1> HIDE DEF e
<1>3. /\ \A n \in X : e[n].parent = d[n].parent /\ d[n].parent \in X
      /\ \A n \in Z : e[n].parent = g[n].parent /\ g[n].parent \in Z
  BY <1>1, <1>2 DEF Dentries
<1>4. e \in Dentries(X \cup Z)
  <2>1. \A n \in X \cup Z : e[n] \in [name : Labels, short : BOOLEAN, dir : BOOLEAN, parent : X \cup Z]
    BY <1>1, <1>2 DEF Dentries
  <2> QED
    BY <2>1, <1>2 DEF Dentries
<1>5. Acyclic(e)
  <2> SUFFICES ASSUME NEW Y \in SUBSET (X \cup Z), Y # {}
               PROVE  \E m \in Y : e[m].parent = m \/ e[m].parent \notin Y
    BY <1>2 DEF Acyclic
  <2>1. CASE Y \cap X # {}
    <3>1. PICK m \in Y \cap X : d[m].parent = m \/ d[m].parent \notin Y \cap X
      BY <2>1 DEF Forest, Acyclic
    <3> QED
      BY <3>1, <1>3
  <2>2. CASE Y \cap X = {}
    <3>1. PICK m \in Y \cap Z : g[m].parent = m \/ g[m].parent \notin Y \cap Z
      BY <2>2 DEF Forest, Acyclic
    <3> QED
      BY <3>1, <1>3
  <2> QED
    BY <2>1, <2>2
<1>6. \A m \in X \cup Z : e[m].parent # m => e[e[m].parent].dir
  BY <1>2, <1>3 DEF Forest
<1>7. ASSUME NEW m \in X \cup Z, NEW k \in X \cup Z, e[m].parent # m, e[k].parent # k,
             e[k].parent = e[m].parent, e[k].name = e[m].name
      PROVE  k = m
  <2>1. CASE m \in X
    BY <1>2, <1>3, <1>7, <2>1 DEF Forest
  <2>2. CASE m \in Z
    BY <1>2, <1>3, <1>7, <2>2 DEF Forest
  <2> QED
    BY <2>1, <2>2
<1> QED
  BY <1>1, <1>2, <1>4, <1>5, <1>6, <1>7 DEF Forest, e

-----------------------------------------------------------------------------
(* What lies above a dentry: Ancestors is defined by recursion, on a       *)
(* forest it is the least part that is closed under parents.               *)

Up(d, n) == {m \in DOMAIN d : \A K \in SUBSET DOMAIN d : n \in K /\ Closed(d, K) => m \in K}

LEMMA ForestRooted ==
    ASSUME NEW d, Forest(d)
    PROVE  Rooted(d)
BY DEF Forest, Rooted, Dentries

LEMMA UpIs ==
    ASSUME NEW d, Rooted(d), NEW n \in DOMAIN d
    PROVE  /\ n \in Up(d, n) /\ Closed(d, Up(d, n))
           /\ \A K : n \in K /\ Closed(d, K) => Up(d, n) \subseteq K
<1>1. \A m \in DOMAIN d : d[m].parent \in DOMAIN d
  BY DEF Rooted
<1>2. \A m \in Up(d, n) : d[m].parent \in Up(d, n)
  <2> TAKE m \in Up(d, n)
  <2>1. m \in DOMAIN d /\ d[m].parent \in DOMAIN d
    BY <1>1 DEF Up
  <2>2. ASSUME NEW K \in SUBSET DOMAIN d, n \in K, Closed(d, K) PROVE d[m].parent \in K
    BY <2>2 DEF Up, Closed
  <2> QED
    BY <2>1, <2>2 DEF Up
<1>3. ASSUME NEW K, n \in K, Closed(d, K) PROVE Up(d, n) \subseteq K
  BY <1>3 DEF Up, Closed
<1>4. n \in Up(d, n) /\ Up(d, n) \subseteq DOMAIN d
  BY DEF Up
<1> QED
  BY <1>2, <1>3, <1>4 DEF Closed

LEMMA UpUnfold ==
    ASSUME NEW d, Rooted(d), NEW n \in DOMAIN d
    PROVE  Up(d, n) = {n} \cup (IF d[n].parent = n THEN {} ELSE Up(d, d[n].parent))
<1>1. PICK p \in DOMAIN d : p = d[n].parent
  BY DEF Rooted
<1>2. n \in Up(d, n) /\ Closed(d, Up(d, n)) /\ Closed(d, Up(d, p)) /\ p \in Up(d, p)
  BY UpIs
<1>3. Up(d, p) \subseteq Up(d, n)
  <2>1. p \in Up(d, n)
    BY <1>1, <1>2 DEF Closed
  <2> QED
    BY <1>2, <2>1, UpIs
<1>4. CASE p = n
  <2>1. Closed(d, {n})
    BY <1>1, <1>4 DEF Closed
  <2>2. Up(d, n) \subseteq {n}
    BY <2>1, UpIs
  <2> QED
    BY <1>1, <1>2, <1>4, <2>2
<1>5. CASE p # n
  <2>1. Closed(d, {n} \cup Up(d, p))
    BY <1>1, <1>2 DEF Closed
  <2>2. Up(d, n) \subseteq {n} \cup Up(d, p)
    BY <2>1, UpIs
  <2> QED
    BY <1>1, <1>2, <1>3, <1>5, <2>2
<1> QED
  BY <1>4, <1>5

IsAncestry(up, d) ==
    up = [n \in DOMAIN d |-> {n} \cup (IF d[n].parent = n THEN {} ELSE up[d[n].parent])]

LEMMA AncestorsAre ==
    ASSUME NEW s, Rooted(s.dentries)
    PROVE  \A n \in Nodes(s) : Ancestors(s)[n] = Up(s.dentries, n)
<1> DEFINE d == s.dentries
           up == CHOOSE up : IsAncestry(up, d)
<1>1. Ancestors(s) = up
  BY DEF Ancestors, IsAncestry
<1>2. \E h : IsAncestry(h, d)
  <2> DEFINE g == [n \in DOMAIN d |-> Up(d, n)]
  <2>1. \A n \in DOMAIN d : d[n].parent \in DOMAIN d
    BY DEF Rooted
  <2>2. \A n \in DOMAIN d : g[n] = {n} \cup (IF d[n].parent = n THEN {} ELSE g[d[n].parent])
    <3> TAKE n \in DOMAIN d
    <3>1. Up(d, n) = {n} \cup (IF d[n].parent = n THEN {} ELSE Up(d, d[n].parent))
      BY UpUnfold
    <3> QED
      BY <2>1, <3>1
  <2>3. g = [n \in DOMAIN d |-> {n} \cup (IF d[n].parent = n THEN {} ELSE g[d[n].parent])]
    BY <2>2
  <2> HIDE DEF g, d
  <2>4. IsAncestry(g, d)
    BY <2>3 DEF IsAncestry
  <2> QED
    BY <2>4
<1>3. IsAncestry(up, d)
  BY <1>2
<1> HIDE DEF up
<1>4. \A n \in DOMAIN d : up[n] = {n} \cup (IF d[n].parent = n THEN {} ELSE up[d[n].parent])
  BY <1>3 DEF IsAncestry
<1> DEFINE X == {n \in DOMAIN d : up[n] # Up(d, n)}
<1>5. X = {}
  <2> SUFFICES ASSUME X # {} PROVE FALSE
    OBVIOUS
  <2>1. PICK n \in X : d[n].parent = n \/ d[n].parent \notin X
    <3>1. X \in SUBSET DOMAIN d
      OBVIOUS
    <3> HIDE DEF X
    <3> QED
      BY <3>1 DEF Rooted, Acyclic
  <2>2. d[n].parent \in DOMAIN d
    BY DEF Rooted
  <2>3. Up(d, n) = {n} \cup (IF d[n].parent = n THEN {} ELSE Up(d, d[n].parent))
    BY UpUnfold
  <2>4. d[n].parent # n => up[d[n].parent] = Up(d, d[n].parent)
    BY <2>1, <2>2
  <2> QED
    BY <1>4, <2>3, <2>4
<1> QED
  BY <1>1, <1>5 DEF Nodes

(* The tree below a dentry, and what is left without it.                   *)
LEMMA SubtreeIs ==
    ASSUME NEW s, Rooted(s.dentries), NEW n \in Nodes(s)
    PROVE  /\ Subtree(s, n) \subseteq Nodes(s) /\ n \in Subtree(s, n)
           /\ Closed(s.dentries, Nodes(s) \ Subtree(s, n))
           /\ \A m \in Subtree(s, n) : m = n \/ s.dentries[m].parent \in Subtree(s, n)
           /\ \A K : Closed(s.dentries, K) /\ n \notin K => Subtree(s, n) \cap K = {}
<1> DEFINE d == s.dentries
<1>1. Subtree(s, n) = {m \in DOMAIN d : n \in Up(d, m)}
  BY AncestorsAre DEF Subtree, Nodes
<1>2. n \in Up(d, n)
  BY UpIs DEF Nodes
<1>3. \A m \in DOMAIN d : d[m].parent \in DOMAIN d
  BY DEF Rooted
<1>4. \A m \in DOMAIN d : Up(d, m) = {m} \cup (IF d[m].parent = m THEN {} ELSE Up(d, d[m].parent))
  BY UpUnfold
<1>5. Closed(d, Nodes(s) \ Subtree(s, n))
  BY <1>1, <1>3, <1>4 DEF Closed, Nodes
<1>6. \A m \in Subtree(s, n) : m = n \/ d[m].parent \in Subtree(s, n)
  BY <1>1, <1>3, <1>4
<1>7. ASSUME NEW K, Closed(d, K), n \notin K PROVE Subtree(s, n) \cap K = {}
  <2>1. ASSUME NEW m \in K, n \in Up(d, m) PROVE FALSE
    <3>1. m \in DOMAIN d
      BY <1>7 DEF Closed
    <3>2. Up(d, m) \subseteq K
      BY <1>7, <3>1, UpIs
    <3> QED
      BY <1>7, <2>1, <3>2
  <2> QED
    BY <1>1, <2>1
<1> QED
  BY <1>1, <1>2, <1>5, <1>6, <1>7 DEF Nodes

-----------------------------------------------------------------------------
(* Induction over the naturals, for sets instead of predicates.            *)

LEMMA LeastOf ==
    ASSUME NEW T, T \subseteq Nat, T # {}
    PROVE  \E x \in T : \A y \in T : x <= y
<1> DEFINE R == {ss \in Nat \X Nat : ss[1] < ss[2]}
<1>1. IsWellFoundedOn(R, Nat)
  BY NatLessThanWellFounded DEF OpToRel
<1>2. PICK x \in T : \A y \in T : <<y, x>> \notin R
  <2> HIDE DEF R
  <2> QED
    BY <1>1, WFMin
<1>3. \A y \in T : x <= y
  <2> TAKE y \in T
  <2>1. y < x => <<y, x>> \in R
    OBVIOUS
  <2> QED
    BY <2>1, <1>2
<1> QED
  BY <1>3

LEMMA NatSetInduction ==
    ASSUME NEW S, 0 \in S, \A n \in Nat : n \in S => n + 1 \in S
    PROVE  \A n \in Nat : n \in S
<1> DEFINE T == {n \in Nat : n \notin S}
<1>1. SUFFICES ASSUME T # {} PROVE FALSE
  OBVIOUS
<1>2. PICK x \in T : \A y \in T : x <= y
  <2>1. T \subseteq Nat
    OBVIOUS
  <2> HIDE DEF T
  <2> QED
    BY <1>1, <2>1, LeastOf
<1>3. x - 1 \in Nat /\ x - 1 < x /\ (x - 1) + 1 = x
  OBVIOUS
<1>4. x - 1 \in S
  BY <1>2, <1>3
<1> QED
  BY <1>3, <1>4

(* A path without its last name. *)
LEMMA PathIs ==
    ASSUME NEW X, NEW p \in Seq(X), p # <<>>
    PROVE  /\ Len(p) \in Nat /\ Len(p) > 0 /\ Front(p) \in Seq(X) /\ Len(Front(p)) = Len(p) - 1
           /\ \A k \in 1..(Len(p) - 1) : Front(p)[k] = p[k]
           /\ Last(p) = p[Len(p)] /\ Last(p) \in X
           /\ p = Append(Front(p), Last(p))
<1>1. /\ Len(p) \in Nat /\ Len(p) > 0 /\ Front(p) \in Seq(X) /\ Len(Front(p)) = Len(p) - 1
      /\ \A k \in 1..(Len(p) - 1) : Front(p)[k] = p[k]
      /\ Last(p) = p[Len(p)] /\ Last(p) \in X
  <2>1. Len(p) \in Nat /\ Len(p) > 0
    OBVIOUS
  <2>2. Last(p) = p[Len(p)] /\ Last(p) \in X
    BY <2>1 DEF Last
  <2>3. Front(p) = SubSeq(p, 1, Len(p) - 1)
    BY DEF Front
  <2>4. /\ SubSeq(p, 1, Len(p) - 1) \in Seq(X) /\ Len(SubSeq(p, 1, Len(p) - 1)) = Len(p) - 1
        /\ \A k \in 1..(Len(p) - 1) : SubSeq(p, 1, Len(p) - 1)[k] = p[k]
    <3>1. PICK n \in Nat : n = Len(p) - 1
      BY <2>1
    <3>2. n <= Len(p)
      BY <2>1, <3>1
    <3>3. SubSeq(p, 1, n) \in Seq(X) /\ Len(SubSeq(p, 1, n)) = n
      BY <3>2
    <3>4. \A k \in 1..n : SubSeq(p, 1, n)[k] = p[k]
      BY <3>2
    <3> QED
      BY <3>1, <3>3, <3>4
  <2> QED
    BY <2>1, <2>2, <2>3, <2>4
<1>2. PICK f \in Seq(X), x \in X : f = Front(p) /\ x = Last(p)
  BY <1>1
<1>3. Append(f, x) \in Seq(X) /\ Len(Append(f, x)) = Len(p)
  BY <1>1, <1>2
<1>4. \A k \in 1..Len(p) : Append(f, x)[k] = p[k]
  BY <1>1, <1>2
<1>5. Append(f, x) = p
  BY <1>3, <1>4
<1> QED
  BY <1>1, <1>2, <1>5

LEMMA AppendIs ==
    ASSUME NEW X, NEW p \in Seq(X), NEW x \in X
    PROVE  /\ Append(p, x) \in Seq(X) /\ Append(p, x) # <<>> /\ Len(Append(p, x)) = Len(p) + 1
           /\ Front(Append(p, x)) = p /\ Last(Append(p, x)) = x
BY DEF Front, Last

-----------------------------------------------------------------------------
(* Primitives that are done one after the other.                           *)

Done(g, s, qs, D) ==
    g = [t \in SUBSET D |-> IF t = {} THEN s ELSE Do(g[t \ {Max(t)}], qs[Max(t)])]

LEMMA MaxOfInterval ==
    ASSUME NEW k \in Nat, NEW s \in SUBSET (1..(k + 1)), k + 1 \in s
    PROVE  Max(s) = k + 1
<1>1. k + 1 \in s /\ \A y \in s : k + 1 >= y
  OBVIOUS
<1>2. \A x \in s : (\A y \in s : x >= y) => x = k + 1
  OBVIOUS
<1> QED
  BY <1>1, <1>2 DEF Max

LEMMA DoneExists ==
    ASSUME NEW s, NEW qs
    PROVE  \A k \in Nat : \E g : Done(g, s, qs, 1..k)
<1> DEFINE S == {k \in Nat : \E g : Done(g, s, qs, 1..k)}
<1>1. 0 \in S
  <2> DEFINE g == [t \in SUBSET (1..0) |-> s]
  <2>1. \A t \in SUBSET (1..0) : t = {}
    OBVIOUS
  <2>2. g = [t \in SUBSET (1..0) |-> IF t = {} THEN s ELSE Do(g[t \ {Max(t)}], qs[Max(t)])]
    BY <2>1
  <2>3. Done(g, s, qs, 1..0)
    BY <2>2 DEF Done
  <2> QED
    BY <2>3
<1>2. ASSUME NEW k \in Nat, k \in S PROVE k + 1 \in S
  <2>1. PICK g : Done(g, s, qs, 1..k)
    BY <1>2
  <2> DEFINE G(t) == IF t = {} THEN s ELSE Do(g[t \ {Max(t)}], qs[Max(t)])
             H(t) == IF k + 1 \in t THEN Do(g[t \ {k + 1}], qs[k + 1]) ELSE g[t]
             h == [t \in SUBSET (1..(k + 1)) |-> H(t)]
  <2>2. \A t \in SUBSET (1..k) : g[t] = G(t)
    BY <2>1 DEF Done
  <2>3. ASSUME NEW t \in SUBSET (1..(k + 1))
        PROVE  h[t] = IF t = {} THEN s ELSE Do(h[t \ {Max(t)}], qs[Max(t)])
    <3>1. CASE k + 1 \in t
      <4>1. Max(t) = k + 1
        BY <3>1, MaxOfInterval
      <4>2. t \ {k + 1} \in SUBSET (1..(k + 1)) /\ k + 1 \notin t \ {k + 1}
        OBVIOUS
      <4>3. h[t \ {k + 1}] = g[t \ {k + 1}]
        BY <4>2
      <4>4. h[t] = Do(g[t \ {k + 1}], qs[k + 1])
        BY <3>1
      <4> QED
        BY <3>1, <4>1, <4>3, <4>4
    <3>2. CASE k + 1 \notin t
      <4>1. t \in SUBSET (1..k)
        BY <3>2
      <4>2. t \ {Max(t)} \in SUBSET (1..(k + 1)) /\ k + 1 \notin t \ {Max(t)}
        BY <3>2
      <4>3. h[t \ {Max(t)}] = g[t \ {Max(t)}]
        BY <4>2
      <4>4. h[t] = G(t)
        BY <3>2, <4>1, <2>2
      <4> QED
        BY <4>3, <4>4
    <3> QED
      BY <3>1, <3>2
  <2>4. Done(h, s, qs, 1..(k + 1))
    <3> HIDE DEF H
    <3>1. h = [t \in SUBSET (1..(k + 1)) |-> h[t]]
      OBVIOUS
    <3> HIDE DEF h
    <3>2. h = [t \in SUBSET (1..(k + 1)) |-> IF t = {} THEN s ELSE Do(h[t \ {Max(t)}], qs[Max(t)])]
      BY <2>3, <3>1
    <3> QED
      BY <3>2 DEF Done
  <2> QED
    BY <2>4
<1> HIDE DEF S
<1>3. \A k \in Nat : k \in S
  BY <1>1, <1>2, NatSetInduction
<1> QED
  BY <1>3 DEF S

LEMMA FoldIsDone ==
    ASSUME NEW s, NEW qs
    PROVE  FoldLeft(Do, s, qs) = (CHOOSE g : Done(g, s, qs, DOMAIN qs))[DOMAIN qs]
BY DEF FoldLeft, MapThenFoldSet, Done

LEMMA DoneAgrees ==
    ASSUME NEW s, NEW ps, NEW qs, NEW m \in Nat, NEW n \in Nat, NEW g, NEW h,
           Done(g, s, ps, 1..m), Done(h, s, qs, 1..n)
    PROVE  \A k \in Nat : k <= m /\ k <= n /\ (\A i \in 1..k : ps[i] = qs[i]) => g[1..k] = h[1..k]
<1> DEFINE T == {k \in Nat : k <= m /\ k <= n /\ (\A i \in 1..k : ps[i] = qs[i]) => g[1..k] = h[1..k]}
<1>0. /\ \A t \in SUBSET (1..m) : g[t] = IF t = {} THEN s ELSE Do(g[t \ {Max(t)}], ps[Max(t)])
      /\ \A t \in SUBSET (1..n) : h[t] = IF t = {} THEN s ELSE Do(h[t \ {Max(t)}], qs[Max(t)])
  BY DEF Done
<1>1. 0 \in T
  <2>1. 1..0 = {}
    OBVIOUS
  <2> QED
    BY <1>0, <2>1
<1>2. ASSUME NEW k \in Nat, k \in T PROVE k + 1 \in T
  <2> SUFFICES ASSUME k + 1 <= m, k + 1 <= n, \A i \in 1..(k + 1) : ps[i] = qs[i]
               PROVE  g[1..(k + 1)] = h[1..(k + 1)]
    OBVIOUS
  <2>1. g[1..k] = h[1..k] /\ ps[k + 1] = qs[k + 1]
    BY <1>2
  <2>2. 1..(k + 1) \in SUBSET (1..m) /\ 1..(k + 1) \in SUBSET (1..n) /\ 1..(k + 1) # {}
    OBVIOUS
  <2>3. Max(1..(k + 1)) = k + 1 /\ (1..(k + 1)) \ {k + 1} = 1..k
    BY MaxOfInterval
  <2>4. g[1..(k + 1)] = Do(g[(1..(k + 1)) \ {Max(1..(k + 1))}], ps[Max(1..(k + 1))])
    BY <1>0, <2>2
  <2>5. h[1..(k + 1)] = Do(h[(1..(k + 1)) \ {Max(1..(k + 1))}], qs[Max(1..(k + 1))])
    BY <1>0, <2>2
  <2> QED
    BY <2>1, <2>3, <2>4, <2>5
<1> HIDE DEF T
<1>3. \A k \in Nat : k \in T
  BY <1>1, <1>2, NatSetInduction
<1> QED
  BY <1>3 DEF T

After(s, qs, k) == FoldLeft(Do, s, SubSeq(qs, 1, k))
OneByOne(s, qs) ==
    /\ After(s, qs, 0) = s
    /\ \A k \in 0..(Len(qs) - 1) : After(s, qs, k + 1) = Do(After(s, qs, k), qs[k + 1])

LEMMA FoldSteps ==
    ASSUME NEW s, NEW X, NEW qs \in Seq(X)
    PROVE  OneByOne(s, qs)
<1>0. ASSUME NEW k \in 0..Len(qs)
      PROVE  /\ DOMAIN SubSeq(qs, 1, k) = 1..k
             /\ \A i \in 1..k : SubSeq(qs, 1, k)[i] = qs[i]
             /\ \E g : Done(g, s, SubSeq(qs, 1, k), 1..k)
                       /\ FoldLeft(Do, s, SubSeq(qs, 1, k)) = g[1..k]
  <2>1. k \in Nat
    OBVIOUS
  <2>2. DOMAIN SubSeq(qs, 1, k) = 1..k /\ \A i \in 1..k : SubSeq(qs, 1, k)[i] = qs[i]
    OBVIOUS
  <2> DEFINE q == SubSeq(qs, 1, k)
             g == CHOOSE g : Done(g, s, q, 1..k)
  <2> HIDE DEF q
  <2>3. \E h : Done(h, s, q, 1..k)
    BY <2>1, DoneExists
  <2>4. Done(g, s, q, 1..k)
    BY <2>3
  <2>5. FoldLeft(Do, s, q) = g[1..k]
    <3>1. DOMAIN q = 1..k
      BY <2>2 DEF q
    <3> QED
      BY <3>1, FoldIsDone
  <2> HIDE DEF g
  <2>6. \E h : Done(h, s, q, 1..k) /\ FoldLeft(Do, s, q) = h[1..k]
    BY <2>4, <2>5
  <2> QED
    BY <2>2, <2>6 DEF q
<1>1. FoldLeft(Do, s, SubSeq(qs, 1, 0)) = s
  <2>1. 0 \in 0..Len(qs)
    OBVIOUS
  <2>2. PICK g : Done(g, s, SubSeq(qs, 1, 0), 1..0) /\ FoldLeft(Do, s, SubSeq(qs, 1, 0)) = g[1..0]
    BY <2>1, <1>0
  <2>3. \A t \in SUBSET (1..0) : t = {} => g[t] = s
    BY <2>2 DEF Done
  <2> QED
    BY <2>2, <2>3
<1>2. ASSUME NEW k \in 0..(Len(qs) - 1)
      PROVE  FoldLeft(Do, s, SubSeq(qs, 1, k + 1)) = Do(FoldLeft(Do, s, SubSeq(qs, 1, k)), qs[k + 1])
  <2>1. k \in 0..Len(qs) /\ k + 1 \in 0..Len(qs) /\ k \in Nat /\ k + 1 \in Nat
    OBVIOUS
  <2> DEFINE p == SubSeq(qs, 1, k)
             q == SubSeq(qs, 1, k + 1)
  <2>2. PICK g : Done(g, s, p, 1..k) /\ FoldLeft(Do, s, p) = g[1..k]
    BY <2>1, <1>0
  <2>3. PICK h : Done(h, s, q, 1..(k + 1)) /\ FoldLeft(Do, s, q) = h[1..(k + 1)]
    BY <2>1, <1>0
  <2>4. (\A i \in 1..k : p[i] = q[i]) /\ q[k + 1] = qs[k + 1]
    BY <2>1, <1>0
  <2> HIDE DEF p, q
  <2>5. g[1..k] = h[1..k]
    BY <2>1, <2>2, <2>3, <2>4, DoneAgrees
  <2>6. h[1..(k + 1)] = Do(h[1..k], q[k + 1])
    <3>1. 1..(k + 1) \in SUBSET (1..(k + 1)) /\ k + 1 \in 1..(k + 1)
      BY <2>1
    <3>2. Max(1..(k + 1)) = k + 1 /\ (1..(k + 1)) \ {k + 1} = 1..k
      BY <2>1, MaxOfInterval
    <3>3. \A t \in SUBSET (1..(k + 1)) :
             h[t] = IF t = {} THEN s ELSE Do(h[t \ {Max(t)}], q[Max(t)])
      BY <2>3 DEF Done
    <3>4. h[1..(k + 1)] = Do(h[(1..(k + 1)) \ {Max(1..(k + 1))}], q[Max(1..(k + 1))])
      <4>1. 1..(k + 1) # {}
        BY <3>1
      <4> QED
        BY <3>1, <3>3, <4>1
    <3> QED
      BY <3>2, <3>4
  <2> QED
    BY <2>2, <2>3, <2>4, <2>5, <2>6 DEF p, q
<1> QED
  BY <1>1, <1>2 DEF After, OneByOne

-----------------------------------------------------------------------------
(* Looking up a path.                                                      *)

WayTo(at, s, p, n) ==
    at = [k \in 0..n |-> IF k = 0 THEN s.root
                         ELSE IF at[k - 1] = None THEN None ELSE Child(s, at[k - 1], p[k])]

LEMMA WayExists ==
    ASSUME NEW s, NEW p
    PROVE  \A n \in Nat : \E at : WayTo(at, s, p, n)
<1> DEFINE S == {n \in Nat : \E at : WayTo(at, s, p, n)}
<1>1. 0 \in S
  <2> DEFINE at == [k \in 0..0 |-> s.root]
  <2>1. \A k \in 0..0 : k = 0
    OBVIOUS
  <2>2. at = [k \in 0..0 |-> IF k = 0 THEN s.root
                             ELSE IF at[k - 1] = None THEN None ELSE Child(s, at[k - 1], p[k])]
    BY <2>1
  <2>3. WayTo(at, s, p, 0)
    BY <2>2 DEF WayTo
  <2> QED
    BY <2>3
<1>2. ASSUME NEW n \in Nat, n \in S PROVE n + 1 \in S
  <2>1. PICK at : WayTo(at, s, p, n)
    BY <1>2
  <2> DEFINE new == IF at[n] = None THEN None ELSE Child(s, at[n], p[n + 1])
             up == [k \in 0..(n + 1) |-> IF k = n + 1 THEN new ELSE at[k]]
  <2>2. \A k \in 0..n : at[k] = IF k = 0 THEN s.root
                             ELSE IF at[k - 1] = None THEN None ELSE Child(s, at[k - 1], p[k])
    BY <2>1 DEF WayTo
  <2>3. /\ DOMAIN up = 0..(n + 1) /\ up = [k \in 0..(n + 1) |-> up[k]]
        /\ up[n + 1] = new /\ \A k \in 0..n : up[k] = at[k]
    OBVIOUS
  <2> HIDE DEF up
  <2>4. ASSUME NEW k \in 0..(n + 1)
        PROVE  up[k] = IF k = 0 THEN s.root
                       ELSE IF up[k - 1] = None THEN None ELSE Child(s, up[k - 1], p[k])
    <3>1. CASE k = n + 1
      <4>1. n \in 0..n /\ k - 1 = n /\ k # 0
        BY <3>1
      <4> QED
        BY <2>3, <3>1, <4>1
    <3>2. CASE k # n + 1
      <4>1. k \in 0..n /\ (k # 0 => k - 1 \in 0..n)
        BY <3>2
      <4> QED
        BY <2>2, <2>3, <4>1
    <3> QED
      BY <3>1, <3>2
  <2>5. up = [k \in 0..(n + 1) |-> IF k = 0 THEN s.root
                       ELSE IF up[k - 1] = None THEN None ELSE Child(s, up[k - 1], p[k])]
    BY <2>3, <2>4
  <2>6. WayTo(up, s, p, n + 1)
    BY <2>5 DEF WayTo
  <2> QED
    BY <2>6
<1> HIDE DEF S
<1>3. \A n \in Nat : n \in S
  BY <1>1, <1>2, NatSetInduction
<1> QED
  BY <1>3 DEF S

LEMMA GetIs ==
    ASSUME NEW s, NEW X, NEW p \in Seq(X)
    PROVE  \E at : Get(s, p) = at[Len(p)]
               /\ \A k \in 0..Len(p) :
                     at[k] = IF k = 0 THEN s.root
                             ELSE IF at[k - 1] = None THEN None ELSE Child(s, at[k - 1], p[k])
<1>1. Len(p) \in Nat
  OBVIOUS
<1> DEFINE at == CHOOSE at : WayTo(at, s, p, Len(p))
<1>2. Get(s, p) = at[Len(p)]
  BY DEF Get, WayTo
<1>3. WayTo(at, s, p, Len(p))
  BY <1>1, WayExists
<1> HIDE DEF at
<1>4. \A k \in 0..Len(p) : at[k] = IF k = 0 THEN s.root
                             ELSE IF at[k - 1] = None THEN None ELSE Child(s, at[k - 1], p[k])
  BY <1>3 DEF WayTo
<1> QED
  BY <1>2, <1>4

LEMMA GetUnfold ==
    ASSUME NEW s, NEW X, NEW p \in Seq(X)
    PROVE  /\ p = <<>> => Get(s, p) = s.root
           /\ p # <<>> => Get(s, p) = IF Get(s, Front(p)) = None THEN None
                                      ELSE Child(s, Get(s, Front(p)), Last(p))
<1>1. PICK at : /\ Get(s, p) = at[Len(p)]
                /\ \A k \in 0..Len(p) :
                     at[k] = IF k = 0 THEN s.root
                             ELSE IF at[k - 1] = None THEN None ELSE Child(s, at[k - 1], p[k])
  BY GetIs
<1>2. ASSUME p = <<>> PROVE Get(s, p) = s.root
  <2>1. Len(p) = 0 /\ 0 \in 0..Len(p)
    BY <1>2
  <2> QED
    BY <1>1, <2>1
<1>3. ASSUME p # <<>>
      PROVE  Get(s, p) = IF Get(s, Front(p)) = None THEN None
                         ELSE Child(s, Get(s, Front(p)), Last(p))
  <2>1. PICK q \in Seq(X), n \in Nat :
            /\ q = Front(p) /\ n = Len(q) /\ n + 1 = Len(p) /\ Last(p) = p[n + 1]
            /\ \A k \in 1..n : q[k] = p[k]
    <3>1. PICK n \in Nat : n + 1 = Len(p)
      <4>1. PICK n : n = Len(p) - 1
        OBVIOUS
      <4>2. n \in Nat /\ n + 1 = Len(p)
        BY <1>3, <4>1, PathIs
      <4> QED
        BY <4>2
    <3>2. PICK q \in Seq(X) : q = Front(p)
      BY <1>3, PathIs
    <3>3. n = Len(p) - 1
      BY <3>1
    <3>4. Len(q) = n
      BY <1>3, <3>2, <3>3, PathIs
    <3>5. \A k \in 1..n : q[k] = p[k]
      BY <1>3, <3>2, <3>3, PathIs
    <3>6. Last(p) = p[n + 1]
      BY <1>3, <3>1, PathIs
    <3>7. q = Front(p) /\ n = Len(q) /\ n + 1 = Len(p) /\ Last(p) = p[n + 1]
      BY <3>1, <3>2, <3>4, <3>6
    <3> QED
      BY <3>5, <3>7
  <2>2. PICK to : /\ Get(s, q) = to[Len(q)]
                  /\ \A k \in 0..Len(q) :
                       to[k] = IF k = 0 THEN s.root
                               ELSE IF to[k - 1] = None THEN None ELSE Child(s, to[k - 1], q[k])
    BY GetIs
  <2>3. \A k \in 0..n : to[k] = IF k = 0 THEN s.root
                               ELSE IF to[k - 1] = None THEN None ELSE Child(s, to[k - 1], q[k])
    BY <2>1, <2>2
  <2>4. \A k \in 0..(n + 1) : at[k] = IF k = 0 THEN s.root
                             ELSE IF at[k - 1] = None THEN None ELSE Child(s, at[k - 1], p[k])
    BY <1>1, <2>1
  <2> DEFINE S == {k \in Nat : k <= n => at[k] = to[k]}
  <2>5. 0 \in S
    <3>1. 0 \in 0..n /\ 0 \in 0..(n + 1)
      OBVIOUS
    <3> QED
      BY <3>1, <2>3, <2>4
  <2>6. ASSUME NEW k \in Nat, k \in S PROVE k + 1 \in S
    <3> SUFFICES ASSUME k + 1 <= n PROVE at[k + 1] = to[k + 1]
      OBVIOUS
    <3>1. k + 1 \in 0..n /\ k + 1 \in 0..(n + 1) /\ k + 1 \in 1..n /\ k + 1 # 0 /\ (k + 1) - 1 = k
      OBVIOUS
    <3>2. at[k] = to[k] /\ q[k + 1] = p[k + 1]
      BY <2>1, <2>6, <3>1
    <3>3. at[k + 1] = IF at[k] = None THEN None ELSE Child(s, at[k], p[k + 1])
      BY <2>4, <3>1
    <3>4. to[k + 1] = IF to[k] = None THEN None ELSE Child(s, to[k], q[k + 1])
      BY <2>3, <3>1
    <3> QED
      BY <3>2, <3>3, <3>4
  <2> HIDE DEF S
  <2>7. \A k \in Nat : k \in S
    BY <2>5, <2>6, NatSetInduction
  <2>8. at[n] = to[n]
    BY <2>7 DEF S
  <2>9. at[n + 1] = IF at[n] = None THEN None ELSE Child(s, at[n], p[n + 1])
    <3>1. n + 1 \in 0..(n + 1) /\ n + 1 # 0 /\ (n + 1) - 1 = n
      OBVIOUS
    <3> QED
      BY <2>4, <3>1
  <2> QED
    BY <1>1, <2>1, <2>2, <2>8, <2>9
<1> QED
  BY <1>2, <1>3

(* A child, if there is one.                                               *)
LEMMA ChildIs ==
    ASSUME NEW s, None \notin Nodes(s), NEW n, NEW x
    PROVE  /\ Child(s, n, x) = None <=> Named(s, n, x) = {}
           /\ Child(s, n, x) # None =>
                 /\ Child(s, n, x) \in Nodes(s) /\ Child(s, n, x) # n
                 /\ s.dentries[Child(s, n, x)].parent = n /\ s.dentries[Child(s, n, x)].name = x
<1>1. Named(s, n, x) \subseteq Nodes(s)
  BY DEF Named, Children, Nodes
<1>2. CASE Named(s, n, x) = {}
  BY <1>2 DEF Child
<1>3. CASE Named(s, n, x) # {}
  <2>1. Child(s, n, x) \in Named(s, n, x)
    BY <1>3 DEF Child
  <2> QED
    BY <1>1, <1>3, <2>1 DEF Named, Children, Nodes
<1> QED
  BY <1>2, <1>3

(* What is found is in the image, below what is found for the way to it.   *)
LEMMA GetInImage ==
    ASSUME NEW s, NEW N, Fits(s, N), NEW p \in Seq(Names), Get(s, p) # None
    PROVE  /\ Get(s, p) \in N /\ Get(s, p) \notin s.orphans
           /\ p = <<>> => Get(s, p) = s.root
           /\ p # <<>> => /\ Get(s, Front(p)) # None
                          /\ s.dentries[Get(s, p)].parent = Get(s, Front(p))
                          /\ Get(s, p) # Get(s, Front(p))
                          /\ s.dentries[Get(s, p)].name = Last(p)
<1>0. /\ None \notin Nodes(s) /\ Nodes(s) = N
      /\ s.root # None => s.root \in N /\ s.root \notin s.orphans
      /\ \A n \in s.orphans : n \in N /\ s.dentries[n].parent = n
  BY DEF Fits, Forest, Nodes
<1> DEFINE T == {k \in Nat : \A q \in Seq(Names) : Len(q) = k /\ Get(s, q) # None =>
                    Get(s, q) \in N /\ Get(s, q) \notin s.orphans}
<1>1. ASSUME NEW q \in Seq(Names), q # <<>>, Get(s, q) # None
      PROVE  /\ Get(s, Front(q)) # None /\ Get(s, q) \in Nodes(s)
             /\ s.dentries[Get(s, q)].parent = Get(s, Front(q))
             /\ Get(s, q) # Get(s, Front(q))
             /\ s.dentries[Get(s, q)].name = Last(q)
  <2>1. Get(s, q) = IF Get(s, Front(q)) = None THEN None ELSE Child(s, Get(s, Front(q)), Last(q))
    BY <1>1, GetUnfold
  <2>2. Get(s, Front(q)) # None /\ Get(s, q) = Child(s, Get(s, Front(q)), Last(q))
    BY <1>1, <2>1
  <2> QED
    BY <1>0, <1>1, <2>2, ChildIs
<1>2. ASSUME NEW q \in Seq(Names), q = <<>> PROVE Get(s, q) = s.root
  BY <1>2, GetUnfold
<1>3. 0 \in T
  <2>1. ASSUME NEW q \in Seq(Names), Len(q) = 0 PROVE q = <<>>
    BY <2>1
  <2> QED
    BY <1>0, <1>2, <2>1
<1>4. ASSUME NEW k \in Nat, k \in T PROVE k + 1 \in T
  <2> SUFFICES ASSUME NEW q \in Seq(Names), Len(q) = k + 1, Get(s, q) # None
               PROVE  Get(s, q) \in N /\ Get(s, q) \notin s.orphans
    OBVIOUS
  <2>1. q # <<>>
    OBVIOUS
  <2> QED
    BY <1>0, <1>1, <2>1
<1> HIDE DEF T
<1>5. \A k \in Nat : k \in T
  BY <1>3, <1>4, NatSetInduction
<1>6. Get(s, p) \in N /\ Get(s, p) \notin s.orphans
  <2>1. Len(p) \in Nat
    OBVIOUS
  <2> QED
    BY <1>5, <2>1 DEF T
<1> QED
  BY <1>1, <1>2, <1>6

(* Another image finds the same, if it has the same children of what is    *)
(* in the image.                                                           *)
LEMMA GetSame ==
    ASSUME NEW s, NEW t, NEW L, s.root = t.root, s.root \in L \cup {None},
           \A n \in L : \A x \in Names :
              Child(s, n, x) # None => Child(s, n, x) \in L /\ Child(t, n, x) = Child(s, n, x),
           NEW p \in Seq(Names), Get(s, p) # None
    PROVE  Get(t, p) = Get(s, p)
<1> DEFINE T == {k \in Nat : \A q \in Seq(Names) : Len(q) = k /\ Get(s, q) # None =>
                    Get(s, q) \in L /\ Get(t, q) = Get(s, q)}
<1>1. 0 \in T
  <2>1. ASSUME NEW q \in Seq(Names), Len(q) = 0 PROVE Get(s, q) = s.root /\ Get(t, q) = t.root
    <3>1. q = <<>>
      BY <2>1
    <3> QED
      BY <3>1, GetUnfold
  <2> QED
    BY <2>1
<1>2. ASSUME NEW k \in Nat, k \in T PROVE k + 1 \in T
  <2> SUFFICES ASSUME NEW q \in Seq(Names), Len(q) = k + 1, Get(s, q) # None
               PROVE  Get(s, q) \in L /\ Get(t, q) = Get(s, q)
    OBVIOUS
  <2>1. q # <<>>
    OBVIOUS
  <2>2. Front(q) \in Seq(Names) /\ Len(Front(q)) = k /\ Last(q) \in Names
    BY <2>1, PathIs
  <2>3. Get(s, q) = IF Get(s, Front(q)) = None THEN None ELSE Child(s, Get(s, Front(q)), Last(q))
    BY <2>1, GetUnfold
  <2>4. Get(t, q) = IF Get(t, Front(q)) = None THEN None ELSE Child(t, Get(t, Front(q)), Last(q))
    BY <2>1, GetUnfold
  <2>5. Get(s, Front(q)) # None
    BY <2>3
  <2>6. Get(s, Front(q)) \in L /\ Get(t, Front(q)) = Get(s, Front(q))
    BY <1>2, <2>2, <2>5
  <2> QED
    BY <2>2, <2>3, <2>4, <2>5, <2>6
<1> HIDE DEF T
<1>3. \A k \in Nat : k \in T
  BY <1>1, <1>2, NatSetInduction
<1>4. Len(p) \in Nat
  OBVIOUS
<1> QED
  BY <1>3, <1>4 DEF T

(* The image together with what is not yet in it.                          *)
LEMMA WithIs ==
    ASSUME NEW s, NEW N, Fits(s, N), NEW P, Forest(P), N \cap DOMAIN P = {}
    PROVE  /\ With(s, P) = [dentries |-> Join(s.dentries, P), root |-> s.root,
                            orphans |-> s.orphans]
           /\ Forest(With(s, P).dentries) /\ Nodes(With(s, P)) = N \cup DOMAIN P
           /\ With(s, P).root = s.root /\ With(s, P).orphans = s.orphans
           /\ \A n \in N : With(s, P).dentries[n] = s.dentries[n] /\ s.dentries[n].parent \in N
           /\ \A n \in DOMAIN P : With(s, P).dentries[n] = P[n] /\ P[n].parent \in DOMAIN P
<1>1. s = [dentries |-> s.dentries, root |-> s.root, orphans |-> s.orphans] /\ Nodes(s) = N
  BY DEF Fits
<1>2. With(s, P) = [dentries |-> Join(s.dentries, P), root |-> s.root, orphans |-> s.orphans]
  <2>1. PICK d, r, o : d = s.dentries /\ r = s.root /\ o = s.orphans
    OBVIOUS
  <2>2. s = [dentries |-> d, root |-> r, orphans |-> o]
    BY <1>1, <2>1
  <2>3. With(s, P) = [dentries |-> Join(d, P), root |-> r, orphans |-> o]
    BY <2>2 DEF With, Join
  <2> QED
    BY <2>1, <2>3
<1>3. /\ Forest(Join(s.dentries, P)) /\ DOMAIN Join(s.dentries, P) = N \cup DOMAIN P
      /\ \A n \in N : Join(s.dentries, P)[n] = s.dentries[n]
      /\ \A n \in DOMAIN P : Join(s.dentries, P)[n] = P[n]
  <2>1. PICK d : d = s.dentries
    OBVIOUS
  <2>2. Forest(d) /\ DOMAIN d = N /\ DOMAIN d \cap DOMAIN P = {}
    BY <1>1, <2>1 DEF Fits, Nodes
  <2>3. /\ Forest(Join(d, P)) /\ DOMAIN Join(d, P) = DOMAIN d \cup DOMAIN P
        /\ \A n \in DOMAIN d : Join(d, P)[n] = d[n]
        /\ \A n \in DOMAIN P : Join(d, P)[n] = P[n]
    BY <2>2, UnionForest
  <2> QED
    BY <2>1, <2>2, <2>3
<1>4. (\A n \in N : s.dentries[n].parent \in N) /\ (\A n \in DOMAIN P : P[n].parent \in DOMAIN P)
  BY <1>1 DEF Fits, Forest, Dentries, Nodes
<1> QED
  BY <1>2, <1>3, <1>4 DEF Nodes

Some(A) == CHOOSE m \in A : TRUE

LEMMA ChildIsSome ==
    ASSUME NEW s, NEW n, NEW x
    PROVE  Child(s, n, x) = IF Named(s, n, x) = {} THEN None ELSE Some(Named(s, n, x))
BY DEF Child, Some

LEMMA ChildrenWith ==
    ASSUME NEW s, NEW N, Fits(s, N), NEW P, Forest(P), N \cap DOMAIN P = {}, NEW n \in N
    PROVE  /\ Children(With(s, P), n) = Children(s, n)
           /\ \A x : Named(With(s, P), n, x) = Named(s, n, x)
           /\ \A x : Child(With(s, P), n, x) = Child(s, n, x)
<1>1. /\ Nodes(With(s, P)) = N \cup DOMAIN P /\ Nodes(s) = N
      /\ \A m \in N : With(s, P).dentries[m] = s.dentries[m]
      /\ \A m \in DOMAIN P : With(s, P).dentries[m] = P[m] /\ P[m].parent \in DOMAIN P
  BY WithIs DEF Fits
<1>2. Children(With(s, P), n) = Children(s, n) /\ Children(s, n) \subseteq N
  BY <1>1 DEF Children, Nodes
<1>3. ASSUME NEW x PROVE Named(With(s, P), n, x) = Named(s, n, x)
  BY <1>1, <1>2 DEF Named
<1>4. ASSUME NEW x PROVE Child(With(s, P), n, x) = Child(s, n, x)
  <2>1. PICK A : A = Named(s, n, x) /\ A = Named(With(s, P), n, x)
    BY <1>3
  <2>2. Child(s, n, x) = IF A = {} THEN None ELSE Some(A)
    BY <2>1, ChildIsSome
  <2>3. Child(With(s, P), n, x) = IF A = {} THEN None ELSE Some(A)
    BY <2>1, ChildIsSome
  <2> QED
    BY <2>2, <2>3
<1> QED
  BY <1>2, <1>3, <1>4

LEMMA GetWith ==
    ASSUME NEW s, NEW N, Fits(s, N), NEW P, Forest(P), N \cap DOMAIN P = {}, NEW p \in Seq(Names)
    PROVE  Get(With(s, P), p) = Get(s, p)
<1>1. /\ With(s, P).root = s.root /\ s.root \in N \cup {None}
      /\ None \notin Nodes(s) /\ Nodes(s) = N
  BY WithIs DEF Fits, Forest, Nodes
<1>2. \A n \in N : \A x \in Names : Child(With(s, P), n, x) = Child(s, n, x)
  BY ChildrenWith
<1>3. \A n \in N : \A x \in Names : Child(s, n, x) # None => Child(s, n, x) \in N
  BY <1>1, ChildIs
<1> DEFINE w == With(s, P)
<1>4. w.root = s.root /\ w.root \in N \cup {None}
  BY <1>1
<1>5. \A n \in N : \A x \in Names :
         /\ Child(w, n, x) # None => Child(w, n, x) \in N /\ Child(s, n, x) = Child(w, n, x)
         /\ Child(s, n, x) # None => Child(s, n, x) \in N /\ Child(w, n, x) = Child(s, n, x)
  BY <1>2, <1>3
<1> HIDE DEF w
<1>6. Get(s, p) # None => Get(w, p) = Get(s, p)
  BY <1>1, <1>4, <1>5, GetSame
<1>7. ASSUME Get(w, p) # None PROVE Get(s, p) = Get(w, p)
  <2>1. \A n \in N : \A x \in Names :
           Child(w, n, x) # None => Child(w, n, x) \in N /\ Child(s, n, x) = Child(w, n, x)
    BY <1>5
  <2> QED
    BY <1>4, <1>7, <2>1, GetSame
<1> QED
  BY <1>6, <1>7 DEF w

-----------------------------------------------------------------------------
(* What doing and undoing a primitive makes of an image.                   *)

State(d, r, o) == [dentries |-> d, root |-> r, orphans |-> o]

LEMMA StateIs ==
    ASSUME NEW s, NEW N, Fits(s, N)
    PROVE  s = State(s.dentries, s.root, s.orphans)
BY DEF Fits, State

Free(s, p, x) == Named(s, p, x) = {}

LEMMA LinkIs ==
    ASSUME NEW d, NEW r, NEW o, NEW n, NEW p
    PROVE  Link(State(d, r, o), n, p) =
              IF p = None THEN State(d, n, o)
              ELSE IF Free(State(d, r, o), p, d[n].name) THEN State(Move(d, n, p), r, o)
              ELSE State(d, r, o)
<1>0. PICK s : s = State(d, r, o)
  OBVIOUS
<1>1. s = State(d, r, o) /\ s.dentries = d
  BY <1>0 DEF State
<1>2. CASE p = None
  BY <1>2 DEF Link, State
<1>3. CASE p # None /\ Free(s, p, d[n].name)
  BY <1>1, <1>3 DEF Link, State, Move, Free
<1>4. CASE p # None /\ ~Free(s, p, d[n].name)
  BY <1>1, <1>4 DEF Link, State, Move, Free
<1> QED
  BY <1>1, <1>2, <1>3, <1>4

LEMMA UnlinkIs ==
    ASSUME NEW d, NEW r, NEW o, NEW n, NEW p
    PROVE  Unlink(State(d, r, o), n, p) =
              IF p = None THEN State(d, None, o) ELSE State(Move(d, n, n), r, o)
BY DEF Unlink, State, Move

Orphaned(s, n) == [s EXCEPT !.orphans = @ \cup {n}]
Adopted(s, n) == [s EXCEPT !.orphans = @ \ {n}]

LEMMA OrphansOf ==
    ASSUME NEW d, NEW r, NEW o, NEW n, NEW x
    PROVE  /\ x = o \cup {n} => Orphaned(State(d, r, o), n) = State(d, r, x)
           /\ x = o \ {n} => Adopted(State(d, r, o), n) = State(d, r, x)
BY DEF State, Orphaned, Adopted

LEMMA DoLinkIs ==
    ASSUME NEW d, NEW r, NEW o, NEW q, NEW x, q.op = "link", x = o \ {q.subject}
    PROVE  /\ q.parent = None => Do(State(d, r, o), q) = State(d, q.subject, x)
           /\ q.parent # None =>
                 Do(State(d, r, o), q) =
                    IF Free(State(d, r, o), q.parent, d[q.subject].name)
                    THEN State(Move(d, q.subject, q.parent), r, x) ELSE State(d, r, x)
<1>0. PICK n, p : n = q.subject /\ p = q.parent
  OBVIOUS
<1>1. PICK s : s = Link(State(d, r, o), n, p)
  OBVIOUS
<1>2. Do(State(d, r, o), q) = Adopted(s, n)
  BY <1>0, <1>1 DEF Do, Adopted
<1>3. ASSUME p = None PROVE Do(State(d, r, o), q) = State(d, n, x)
  <2>1. s = State(d, n, o)
    BY <1>1, <1>3, LinkIs
  <2>2. Adopted(State(d, n, o), n) = State(d, n, x)
    BY <1>0, OrphansOf
  <2> QED
    BY <1>2, <2>1, <2>2
<1>4. ASSUME p # None
      PROVE  Do(State(d, r, o), q) = IF Free(State(d, r, o), p, d[n].name)
                                       THEN State(Move(d, n, p), r, x) ELSE State(d, r, x)
  <2>1. CASE Free(State(d, r, o), p, d[n].name)
    <3>1. s = State(Move(d, n, p), r, o)
      BY <1>1, <1>4, <2>1, LinkIs
    <3>2. Adopted(State(Move(d, n, p), r, o), n) = State(Move(d, n, p), r, x)
      BY <1>0, OrphansOf
    <3> QED
      BY <1>2, <2>1, <3>1, <3>2
  <2>2. CASE ~Free(State(d, r, o), p, d[n].name)
    <3>1. s = State(d, r, o)
      BY <1>1, <1>4, <2>2, LinkIs
    <3>2. Adopted(State(d, r, o), n) = State(d, r, x)
      BY <1>0, OrphansOf
    <3> QED
      BY <1>2, <2>2, <3>1, <3>2
  <2> QED
    BY <2>1, <2>2
<1> QED
  BY <1>0, <1>3, <1>4

LEMMA DoUnlinkIs ==
    ASSUME NEW d, NEW r, NEW o, NEW q, NEW x, q.op = "unlink", x = o \cup {q.subject}
    PROVE  /\ q.parent = None => Do(State(d, r, o), q) = State(d, None, x)
           /\ q.parent # None =>
                 Do(State(d, r, o), q) = State(Move(d, q.subject, q.subject), r, x)
<1>1. PICK n, p : n = q.subject /\ p = q.parent
  OBVIOUS
<1>2. PICK s : s = Unlink(State(d, r, o), n, p)
  OBVIOUS
<1>3. Do(State(d, r, o), q) = Orphaned(s, n)
  BY <1>1, <1>2 DEF Do, Orphaned
<1>4. ASSUME p = None PROVE Do(State(d, r, o), q) = State(d, None, x)
  <2>1. s = State(d, None, o)
    BY <1>2, <1>4, UnlinkIs
  <2>2. Orphaned(State(d, None, o), n) = State(d, None, x)
    BY <1>1, OrphansOf
  <2> QED
    BY <1>3, <2>1, <2>2
<1>5. ASSUME p # None PROVE Do(State(d, r, o), q) = State(Move(d, n, n), r, x)
  <2>1. s = State(Move(d, n, n), r, o)
    BY <1>2, <1>5, UnlinkIs
  <2>2. Orphaned(State(Move(d, n, n), r, o), n) = State(Move(d, n, n), r, x)
    BY <1>1, OrphansOf
  <2> QED
    BY <1>3, <2>1, <2>2
<1> QED
  BY <1>1, <1>4, <1>5

LEMMA DoNameIs ==
    ASSUME NEW d, NEW r, NEW o, NEW q, q.op = "name"
    PROVE  Do(State(d, r, o), q) = State(Relabel(d, q.subject, q.new), r, o)
BY DEF Do, State, Relabel

NoShort == FALSE

LEMMA DoShortIs ==
    ASSUME NEW d, NEW r, NEW o, NEW q, q.op = "short"
    PROVE  Do(State(d, r, o), q) = State(Reshort(d, q.subject, NoShort), r, o)
BY DEF Do, State, Reshort, NoShort

LEMMA UndoLinkIs ==
    ASSUME NEW d, NEW r, NEW o, NEW q, NEW x, q.op = "link", x = o \cup {q.subject}
    PROVE  /\ q.parent = None => Undo(State(d, r, o), q) = State(d, None, x)
           /\ q.parent # None =>
                 Undo(State(d, r, o), q) = State(Move(d, q.subject, q.subject), r, x)
<1>1. PICK n, p : n = q.subject /\ p = q.parent
  OBVIOUS
<1>2. PICK s : s = Unlink(State(d, r, o), n, p)
  OBVIOUS
<1>3. Undo(State(d, r, o), q) = Orphaned(s, n)
  BY <1>1, <1>2 DEF Undo, Orphaned
<1>4. ASSUME p = None PROVE Undo(State(d, r, o), q) = State(d, None, x)
  <2>1. s = State(d, None, o)
    BY <1>2, <1>4, UnlinkIs
  <2>2. Orphaned(State(d, None, o), n) = State(d, None, x)
    BY <1>1, OrphansOf
  <2> QED
    BY <1>3, <2>1, <2>2
<1>5. ASSUME p # None PROVE Undo(State(d, r, o), q) = State(Move(d, n, n), r, x)
  <2>1. s = State(Move(d, n, n), r, o)
    BY <1>2, <1>5, UnlinkIs
  <2>2. Orphaned(State(Move(d, n, n), r, o), n) = State(Move(d, n, n), r, x)
    BY <1>1, OrphansOf
  <2> QED
    BY <1>3, <2>1, <2>2
<1> QED
  BY <1>1, <1>4, <1>5

LEMMA UndoUnlinkIs ==
    ASSUME NEW d, NEW r, NEW o, NEW q, NEW x, q.op = "unlink", x = o \ {q.subject}
    PROVE  /\ q.parent = None => Undo(State(d, r, o), q) = State(d, q.subject, x)
           /\ q.parent # None =>
                 Undo(State(d, r, o), q) =
                    IF Free(State(d, r, o), q.parent, d[q.subject].name)
                    THEN State(Move(d, q.subject, q.parent), r, x) ELSE State(d, r, x)
<1>0. PICK n, p : n = q.subject /\ p = q.parent
  OBVIOUS
<1>1. PICK s : s = Link(State(d, r, o), n, p)
  OBVIOUS
<1>2. Undo(State(d, r, o), q) = Adopted(s, n)
  BY <1>0, <1>1 DEF Undo, Adopted
<1>3. ASSUME p = None PROVE Undo(State(d, r, o), q) = State(d, n, x)
  <2>1. s = State(d, n, o)
    BY <1>1, <1>3, LinkIs
  <2>2. Adopted(State(d, n, o), n) = State(d, n, x)
    BY <1>0, OrphansOf
  <2> QED
    BY <1>2, <2>1, <2>2
<1>4. ASSUME p # None
      PROVE  Undo(State(d, r, o), q) = IF Free(State(d, r, o), p, d[n].name)
                                       THEN State(Move(d, n, p), r, x) ELSE State(d, r, x)
  <2>1. CASE Free(State(d, r, o), p, d[n].name)
    <3>1. s = State(Move(d, n, p), r, o)
      BY <1>1, <1>4, <2>1, LinkIs
    <3>2. Adopted(State(Move(d, n, p), r, o), n) = State(Move(d, n, p), r, x)
      BY <1>0, OrphansOf
    <3> QED
      BY <1>2, <2>1, <3>1, <3>2
  <2>2. CASE ~Free(State(d, r, o), p, d[n].name)
    <3>1. s = State(d, r, o)
      BY <1>1, <1>4, <2>2, LinkIs
    <3>2. Adopted(State(d, r, o), n) = State(d, r, x)
      BY <1>0, OrphansOf
    <3> QED
      BY <1>2, <2>2, <3>1, <3>2
  <2> QED
    BY <2>1, <2>2
<1> QED
  BY <1>0, <1>3, <1>4

LEMMA UndoNameIs ==
    ASSUME NEW d, NEW r, NEW o, NEW q, q.op = "name"
    PROVE  Undo(State(d, r, o), q) = State(Relabel(d, q.subject, q.old), r, o)
BY DEF Undo, State, Relabel

LEMMA UndoShortIs ==
    ASSUME NEW d, NEW r, NEW o, NEW q, q.op = "short"
    PROVE  Undo(State(d, r, o), q) = State(Reshort(d, q.subject, q.old), r, o)
BY DEF Undo, State, Reshort

(* A primitive leaves an image, and undoing it leads back.                 *)
Steps(s, q, N) == q \in Prims(N) /\ Fits(Do(s, q), N) /\ Undo(Do(s, q), q) = s

LEMMA MoveNowhere ==
    ASSUME NEW X, NEW d \in Dentries(X), NEW n \in X, d[n].parent = n
    PROVE  Move(d, n, n) = d
<1> DEFINE e == Move(d, n, n)
<1>1. /\ e \in Dentries(X) /\ e[n].parent = n /\ e[n].name = d[n].name
      /\ e[n].dir = d[n].dir /\ e[n].short = d[n].short
      /\ \A m \in X : m # n => e[m] = d[m]
  BY MoveIs
<1> HIDE DEF e
<1>2. e[n] = d[n]
  BY <1>1 DEF Dentries
<1>3. \A m \in X : e[m] = d[m]
  BY <1>1, <1>2
<1>4. e = d
  BY <1>1, <1>3 DEF Dentries
<1> QED
  BY <1>4 DEF e

LEMMA DoUnlink ==
    ASSUME NEW s, NEW N, Fits(s, N), NEW n \in N, n \notin s.orphans, NEW q, q = UnlinkPrim(s, n)
    PROVE  /\ Steps(s, q, N)
           /\ Do(s, q) = State(Move(s.dentries, n, n), IF n = s.root THEN None ELSE s.root,
                               s.orphans \cup {n})
<1>1. PICK d, r, o : d = s.dentries /\ r = s.root /\ o = s.orphans
  OBVIOUS
<1>2. s = State(d, r, o)
  BY <1>1, StateIs
<1>3. /\ Forest(d) /\ DOMAIN d = N /\ d \in Dentries(N) /\ None \notin N
      /\ r # None => r \in N /\ d[r].dir
      /\ o \subseteq N /\ r \notin o
      /\ \A m \in N : d[m].parent = m <=> m = r \/ m \in o
  BY <1>1 DEF Fits, Nodes, Forest
<1>4. PICK p \in N : p = d[n].parent
  BY <1>3 DEF Dentries
<1>5. PICK o2 : o2 = o \cup {n}
  OBVIOUS
<1>15. o2 \subseteq N /\ o = o2 \ {n}
  BY <1>1, <1>3, <1>5
<1>6. PICK e : e = Move(d, n, n)
  OBVIOUS
<1>7. /\ Forest(e) /\ e \in Dentries(N) /\ DOMAIN e = N /\ e[n].parent = n /\ e[n].name = d[n].name
      /\ e[n].dir = d[n].dir /\ \A m \in N : m # n => e[m] = d[m]
  <2>1. /\ Move(d, n, n) \in Dentries(N) /\ DOMAIN Move(d, n, n) = N
        /\ Move(d, n, n)[n].parent = n /\ Move(d, n, n)[n].name = d[n].name
        /\ Move(d, n, n)[n].dir = d[n].dir
        /\ \A m \in N : m # n => Move(d, n, n)[m] = d[m]
    BY <1>3, MoveIs
  <2>2. Forest(Move(d, n, n))
    BY <1>3, MoveToSelf
  <2> QED
    BY <1>6, <2>1, <2>2
<1>8. q.op = "unlink" /\ q.subject = n /\ q.parent = IF p = n THEN None ELSE p
  BY <1>1, <1>4 DEF UnlinkPrim
<1>9. q \in Prims(N)
  <2>1. UnlinkPrim(s, n) \in [op : {"link", "unlink"}, subject : N, parent : N \cup {None}]
    BY <1>1, <1>4 DEF UnlinkPrim
  <2> QED
    BY <2>1 DEF Prims
<1>10. CASE p = n
  <2>1. n = r
    BY <1>1, <1>3, <1>4, <1>10
  <2>2. e = d
    BY <1>3, <1>4, <1>6, <1>10, MoveNowhere
  <2>3. Do(s, q) = State(d, None, o2)
    BY <1>2, <1>5, <1>15, <1>8, <1>10, DoUnlinkIs
  <2>4. Undo(State(d, None, o2), q) = State(d, n, o)
    BY <1>5, <1>15, <1>8, <1>10, UndoUnlinkIs
  <2>5. Fits(State(d, None, o2), N)
    BY <1>3, <1>5, <1>15, <2>1 DEF Fits, State, Nodes
  <2> QED
    BY <1>1, <1>2, <1>5, <1>15, <1>6, <1>9, <2>1, <2>2, <2>3, <2>4, <2>5 DEF Steps
<1>11. CASE p # n
  <2>1. n # r /\ p # None
    BY <1>1, <1>3, <1>4, <1>11
  <2>2. Do(s, q) = State(e, r, o2)
    BY <1>2, <1>5, <1>15, <1>6, <1>8, <1>11, <2>1, DoUnlinkIs
  <2>3. Named(State(e, r, o2), p, e[n].name) = {}
    <3>1. ASSUME NEW m \in N, m # p, e[m].parent = p, e[m].name = e[n].name PROVE FALSE
      <4>1. m # n
        BY <1>7, <1>11, <3>1
      <4>2. d[m].parent = p /\ d[m].name = d[n].name
        BY <1>7, <3>1, <4>1
      <4> QED
        BY <1>3, <1>4, <1>11, <3>1, <4>1, <4>2 DEF Forest
    <3> QED
      BY <1>7, <3>1 DEF Named, Children, State
  <2>4. Undo(State(e, r, o2), q) = State(Move(e, n, p), r, o)
    <3>1. q.parent = p /\ q.subject = n
      BY <1>8, <1>11
    <3>2. Free(State(e, r, o2), q.parent, e[q.subject].name)
      BY <2>3, <3>1 DEF Free
    <3>3. o = o2 \ {q.subject}
      BY <1>15, <3>1
    <3>4. Undo(State(e, r, o2), q) = State(Move(e, q.subject, q.parent), r, o)
      <4>1. q.op = "unlink" /\ q.parent # None
        BY <1>8, <2>1, <3>1
      <4> QED
        BY <4>1, <3>2, <3>3, UndoUnlinkIs
    <3> QED
      BY <3>1, <3>4
  <2>5. Move(e, n, p) = d
    BY <1>3, <1>4, <1>6, MoveTwice
  <2>6. Fits(State(e, r, o2), N)
    <3>1. \A m \in N : e[m].parent = m <=> m = r \/ m \in o2
      BY <1>3, <1>5, <1>15, <1>7
    <3>2. r # None => e[r].dir
      BY <1>3, <1>7
    <3>3. r \notin o2
      BY <1>3, <1>5, <1>15, <2>1
    <3> QED
      BY <1>3, <1>5, <1>15, <1>7, <3>1, <3>2, <3>3 DEF Fits, State, Nodes
  <2> QED
    BY <1>1, <1>2, <1>5, <1>15, <1>6, <1>9, <2>1, <2>2, <2>4, <2>5, <2>6 DEF Steps
<1> QED
  BY <1>10, <1>11

LEMMA DoLink ==
    ASSUME NEW s, NEW N, Fits(s, N), NEW n \in s.orphans, NEW p \in N, NEW K,
           Closed(s.dentries, K), p \in K, n \notin K,
           s.dentries[p].dir, Named(s, p, s.dentries[n].name) = {}, NEW q, q = LinkPrim(n, p)
    PROVE  /\ Steps(s, q, N)
           /\ Do(s, q) = State(Move(s.dentries, n, p), s.root, s.orphans \ {n})
<1>1. PICK d, r, o : d = s.dentries /\ r = s.root /\ o = s.orphans
  OBVIOUS
<1>2. s = State(d, r, o)
  BY <1>1, StateIs
<1>3. /\ Forest(d) /\ DOMAIN d = N /\ d \in Dentries(N) /\ None \notin N
      /\ r # None => r \in N /\ d[r].dir
      /\ o \subseteq N /\ r \notin o /\ n \in N /\ n # r
      /\ \A m \in N : d[m].parent = m <=> m = r \/ m \in o
  BY <1>1 DEF Fits, Nodes, Forest
<1>4. d[n].parent = n /\ p # n /\ p # None
  BY <1>1, <1>3
<1>5. PICK o2 : o2 = o \ {n}
  OBVIOUS
<1>15. o2 \subseteq N /\ o = o2 \cup {n}
  BY <1>1, <1>3, <1>5
<1>6. PICK e : e = Move(d, n, p)
  OBVIOUS
<1>7. /\ e \in Dentries(N) /\ DOMAIN e = N /\ e[n].parent = p /\ e[n].name = d[n].name
      /\ e[n].dir = d[n].dir /\ \A m \in N : m # n => e[m] = d[m]
  <2>1. /\ Move(d, n, p) \in Dentries(N) /\ DOMAIN Move(d, n, p) = N
        /\ Move(d, n, p)[n].parent = p /\ Move(d, n, p)[n].name = d[n].name
        /\ Move(d, n, p)[n].dir = d[n].dir
        /\ \A m \in N : m # n => Move(d, n, p)[m] = d[m]
    BY <1>3, MoveIs
  <2> QED
    BY <1>6, <2>1
<1>8. Forest(e)
  <2>1. \A m \in DOMAIN d \ {p} : d[m].parent = p => d[m].name # d[n].name
    BY <1>1 DEF Named, Children
  <2> QED
    BY <1>1, <1>3, <1>6, <2>1, MoveUnder
<1>9. q.op = "link" /\ q.subject = n /\ q.parent = p
  BY DEF LinkPrim
<1>10. q \in Prims(N)
  <2>1. LinkPrim(n, p) \in [op : {"link", "unlink"}, subject : N, parent : N \cup {None}]
    BY <1>3 DEF LinkPrim
  <2> QED
    BY <2>1 DEF Prims
<1>11. Do(s, q) = State(e, r, o2)
  <2>1. Free(State(d, r, o), q.parent, d[q.subject].name)
    BY <1>1, <1>2, <1>9 DEF Free
  <2>2. o2 = o \ {q.subject}
    BY <1>5, <1>9
  <2>3. Do(State(d, r, o), q) = State(Move(d, q.subject, q.parent), r, o2)
    BY <1>4, <1>9, <2>1, <2>2, DoLinkIs
  <2> QED
    BY <1>2, <1>6, <1>9, <2>3
<1>12. Undo(State(e, r, o2), q) = State(Move(e, n, n), r, o)
  <2>1. o = o2 \cup {q.subject}
    BY <1>15, <1>9
  <2>2. Undo(State(e, r, o2), q) = State(Move(e, q.subject, q.subject), r, o)
    BY <1>4, <1>9, <2>1, UndoLinkIs
  <2> QED
    BY <1>9, <2>2
<1>13. Move(e, n, n) = d
  BY <1>3, <1>4, <1>6, MoveTwice
<1>14. Fits(State(e, r, o2), N)
  <2>1. \A m \in N : e[m].parent = m <=> m = r \/ m \in o2
    BY <1>3, <1>4, <1>5, <1>15, <1>7
  <2>2. r # None => e[r].dir
    BY <1>3, <1>7
  <2> QED
    BY <1>3, <1>5, <1>15, <1>7, <1>8, <2>1, <2>2 DEF Fits, State, Nodes
<1> QED
  BY <1>1, <1>2, <1>5, <1>15, <1>6, <1>10, <1>11, <1>12, <1>13, <1>14 DEF Steps

LEMMA DoLinkRoot ==
    ASSUME NEW s, NEW N, Fits(s, N), NEW n \in s.orphans, s.root = None,
           s.dentries[n].dir, NEW q, q = LinkPrim(n, None)
    PROVE  /\ Steps(s, q, N)
           /\ Do(s, q) = State(s.dentries, n, s.orphans \ {n})
<1>1. PICK d, r, o : d = s.dentries /\ r = s.root /\ o = s.orphans
  OBVIOUS
<1>2. s = State(d, r, o)
  BY <1>1, StateIs
<1>3. /\ Forest(d) /\ DOMAIN d = N /\ d \in Dentries(N) /\ None \notin N
      /\ o \subseteq N /\ r \notin o /\ n \in N /\ n # r
      /\ \A m \in N : d[m].parent = m <=> m = r \/ m \in o
  BY <1>1 DEF Fits, Nodes, Forest
<1>5. PICK o2 : o2 = o \ {n}
  OBVIOUS
<1>15. o2 \subseteq N /\ o = o2 \cup {n}
  BY <1>1, <1>3, <1>5
<1>9. q.op = "link" /\ q.subject = n /\ q.parent = None
  BY DEF LinkPrim
<1>10. q \in Prims(N)
  <2>1. LinkPrim(n, None) \in [op : {"link", "unlink"}, subject : N, parent : N \cup {None}]
    BY <1>3 DEF LinkPrim
  <2> QED
    BY <2>1 DEF Prims
<1>11. Do(s, q) = State(d, n, o2)
  BY <1>2, <1>5, <1>15, <1>9, DoLinkIs
<1>12. Undo(State(d, n, o2), q) = State(d, None, o)
  BY <1>5, <1>15, <1>9, UndoLinkIs
<1>14. Fits(State(d, n, o2), N)
  BY <1>1, <1>3, <1>5, <1>15 DEF Fits, State, Nodes
<1> QED
  BY <1>1, <1>2, <1>5, <1>15, <1>10, <1>11, <1>12, <1>14 DEF Steps

LEMMA DoName ==
    ASSUME NEW s, NEW N, Fits(s, N), NEW n \in s.orphans, NEW x \in Labels, NEW q,
           q = [op |-> "name", subject |-> n, old |-> s.dentries[n].name, new |-> x]
    PROVE  /\ Steps(s, q, N)
           /\ Do(s, q) = State(Relabel(s.dentries, n, x), s.root, s.orphans)
<1>1. PICK d, r, o : d = s.dentries /\ r = s.root /\ o = s.orphans
  OBVIOUS
<1>2. s = State(d, r, o)
  BY <1>1, StateIs
<1>3. /\ Forest(d) /\ DOMAIN d = N /\ d \in Dentries(N) /\ None \notin N
      /\ r # None => r \in N /\ d[r].dir
      /\ o \subseteq N /\ r \notin o /\ n \in N /\ n # r /\ n \in o
      /\ \A m \in N : d[m].parent = m <=> m = r \/ m \in o
  BY <1>1 DEF Fits, Nodes, Forest
<1>6. PICK e : e = Relabel(d, n, x)
  OBVIOUS
<1>7. /\ e \in Dentries(N) /\ DOMAIN e = N /\ e[n].parent = d[n].parent
      /\ e[n].dir = d[n].dir /\ \A m \in N : m # n => e[m] = d[m]
  BY <1>3, <1>6, RelabelIs
<1>8. Forest(e)
  BY <1>3, <1>6, RelabelRoot
<1>9. q.op = "name" /\ q.subject = n /\ q.new = x /\ q.old = d[n].name /\ d[n].name \in Labels
  BY <1>1, <1>3 DEF Dentries
<1>10. q \in Prims(N)
  <2>1. q \in [op : {"name"}, subject : N, old : Labels, new : Labels]
    BY <1>1, <1>3, <1>9
  <2> QED
    BY <2>1 DEF Prims
<1>11. Do(s, q) = State(e, r, o)
  BY <1>2, <1>6, <1>9, DoNameIs
<1>12. Undo(State(e, r, o), q) = State(Relabel(e, n, d[n].name), r, o)
  BY <1>9, UndoNameIs
<1>13. Relabel(e, n, d[n].name) = d
  BY <1>3, <1>6, RelabelTwice
<1>14. Fits(State(e, r, o), N)
  BY <1>3, <1>7, <1>8 DEF Fits, State, Nodes
<1> QED
  BY <1>1, <1>2, <1>6, <1>10, <1>11, <1>12, <1>13, <1>14 DEF Steps

LEMMA DoShort ==
    ASSUME NEW s, NEW N, Fits(s, N), NEW n \in N, NEW q,
           q = [op |-> "short", subject |-> n, old |-> s.dentries[n].short]
    PROVE  /\ Steps(s, q, N)
           /\ \E x \in BOOLEAN : Do(s, q) = State(Reshort(s.dentries, n, x), s.root, s.orphans)
<1>1. PICK d, r, o : d = s.dentries /\ r = s.root /\ o = s.orphans
  OBVIOUS
<1>2. s = State(d, r, o)
  BY <1>1, StateIs
<1>3. /\ Forest(d) /\ DOMAIN d = N /\ d \in Dentries(N) /\ None \notin N
      /\ r # None => r \in N /\ d[r].dir
      /\ o \subseteq N /\ r \notin o
      /\ \A m \in N : d[m].parent = m <=> m = r \/ m \in o
  BY <1>1 DEF Fits, Nodes, Forest
<1>4. PICK x \in BOOLEAN : x = NoShort
  BY DEF NoShort
<1>6. PICK e : e = Reshort(d, n, x)
  OBVIOUS
<1>7. /\ e \in Dentries(N) /\ DOMAIN e = N /\ e[n].parent = d[n].parent
      /\ e[n].dir = d[n].dir /\ \A m \in N : m # n => e[m] = d[m]
  BY <1>3, <1>4, <1>6, ReshortIs
<1>8. Forest(e)
  BY <1>3, <1>4, <1>6, ReshortForest
<1>9. q.op = "short" /\ q.subject = n /\ q.old = d[n].short /\ d[n].short \in BOOLEAN
  BY <1>1, <1>3 DEF Dentries
<1>10. q \in Prims(N)
  <2>1. q \in [op : {"short"}, subject : N, old : BOOLEAN]
    BY <1>1, <1>9
  <2> QED
    BY <2>1 DEF Prims
<1>11. Do(s, q) = State(e, r, o)
  <2>1. Do(State(d, r, o), q) = State(Reshort(d, q.subject, x), r, o)
    BY <1>4, <1>9, DoShortIs
  <2> QED
    BY <1>2, <1>6, <1>9, <2>1
<1>12. Undo(State(e, r, o), q) = State(Reshort(e, n, d[n].short), r, o)
  BY <1>9, UndoShortIs
<1>13. Reshort(e, n, d[n].short) = d
  BY <1>3, <1>4, <1>6, ReshortTwice
<1>14. Fits(State(e, r, o), N)
  <2>1. \A m \in N : e[m].parent = d[m].parent /\ e[m].dir = d[m].dir
    BY <1>7
  <2> QED
    BY <1>3, <1>7, <1>8, <2>1 DEF Fits, State, Nodes
<1> QED
  BY <1>1, <1>2, <1>4, <1>6, <1>10, <1>11, <1>12, <1>13, <1>14 DEF Steps

-----------------------------------------------------------------------------
(* Recording primitives keeps the images safe.                             *)

LEMMA PlusOne ==
    ASSUME NEW X, NEW a \in Seq(X), NEW qs \in Seq(X), NEW k \in 0..(Len(qs) - 1)
    PROVE  /\ a \o SubSeq(qs, 1, k) \in Seq(X) /\ qs[k + 1] \in X
           /\ a \o SubSeq(qs, 1, k + 1) = Append(a \o SubSeq(qs, 1, k), qs[k + 1])
<1>1. k \in 0..Len(qs) /\ k + 1 \in 0..Len(qs) /\ k + 1 \in 1..Len(qs)
  OBVIOUS
<1>8. PICK b : b = SubSeq(qs, 1, k)
  OBVIOUS
<1>2. b \in Seq(X) /\ Len(b) = k /\ \A i \in 1..k : b[i] = qs[i]
  BY <1>1, <1>8
<1>9. PICK f : f = SubSeq(qs, 1, k + 1)
  OBVIOUS
<1>3. f \in Seq(X) /\ Len(f) = k + 1 /\ \A i \in 1..(k + 1) : f[i] = qs[i]
  BY <1>1, <1>9
<1>4. PICK x \in X : x = qs[k + 1]
  BY <1>1
<1>5. f = Append(b, x)
  <2>1. Append(b, x) \in Seq(X) /\ Len(Append(b, x)) = k + 1
    BY <1>2, <1>4
  <2>2. \A i \in 1..(k + 1) : Append(b, x)[i] = f[i]
    BY <1>2, <1>3, <1>4
  <2> QED
    BY <1>3, <2>1, <2>2
<1>6. a \o Append(b, x) = Append(a \o b, x)
  BY <1>2
<1>7. a \o b \in Seq(X)
  BY <1>2
<1> QED
  BY <1>2, <1>3, <1>4, <1>5, <1>6, <1>7, <1>8, <1>9

LEMMA RemoveLast ==
    ASSUME NEW X, NEW a \in Seq(X), NEW x \in X
    PROVE  RemoveAt(Append(a, x), Len(Append(a, x))) = a
<1>0. PICK b, n : b = Append(a, x) /\ n = Len(a)
  OBVIOUS
<1>1. /\ b \in Seq(X) /\ n \in Nat /\ b = Append(a, x) /\ n = Len(a)
      /\ Len(b) = n + 1 /\ \A i \in 1..n : b[i] = a[i]
  BY <1>0
<1>2. RemoveAt(b, n + 1) = SubSeq(b, 1, (n + 1) - 1) \o SubSeq(b, (n + 1) + 1, Len(b))
  BY DEF RemoveAt
<1>3. (n + 1) - 1 = n /\ (n + 1) + 1 = n + 2
  BY <1>1
<1>4. SubSeq(b, 1, n) = a
  <2>1. SubSeq(b, 1, n) \in Seq(X) /\ Len(SubSeq(b, 1, n)) = n
    BY <1>1
  <2>2. \A i \in 1..n : SubSeq(b, 1, n)[i] = a[i]
    BY <1>1
  <2> QED
    BY <1>1, <2>1, <2>2
<1>5. SubSeq(b, n + 2, Len(b)) = <<>>
  BY <1>1
<1>6. a \o <<>> = a
  OBVIOUS
<1> QED
  BY <1>1, <1>2, <1>3, <1>4, <1>5, <1>6

(* The journal when the first k of qs have been recorded for the command c. *)
Extended(j, c, qs, k) == [j EXCEPT ![c] = @ \o SubSeq(qs, 1, k)]

LEMMA ExtendedIs ==
    ASSUME NEW X, NEW j \in Seq(Seq(X)), NEW c \in 1..Len(j), NEW qs \in Seq(X),
           NEW k \in 0..Len(qs)
    PROVE  /\ Extended(j, c, qs, k) \in Seq(Seq(X)) /\ Len(Extended(j, c, qs, k)) = Len(j)
           /\ \A i \in 1..Len(j) : i # c => Extended(j, c, qs, k)[i] = j[i]
<1>1. PICK a \in Seq(X) : a = j[c]
  OBVIOUS
<1>2. PICK f : f = SubSeq(qs, 1, k)
  OBVIOUS
<1>3. f \in Seq(X)
  BY <1>2
<1>4. PICK b : b = a \o f
  OBVIOUS
<1>5. b \in Seq(X)
  BY <1>3, <1>4
<1>6. Extended(j, c, qs, k) = [j EXCEPT ![c] = b]
  BY <1>1, <1>2, <1>4 DEF Extended
<1>7. /\ [j EXCEPT ![c] = b] \in Seq(Seq(X)) /\ Len([j EXCEPT ![c] = b]) = Len(j)
      /\ \A i \in 1..Len(j) : i # c => [j EXCEPT ![c] = b][i] = j[i]
  BY <1>5
<1> QED
  BY <1>6, <1>7

LEMMA ExtendedNot ==
    ASSUME NEW X, NEW j \in Seq(Seq(X)), NEW c \in 1..Len(j), NEW qs \in Seq(X)
    PROVE  Extended(j, c, qs, 0) = j
<1>1. PICK a \in Seq(X) : a = j[c]
  OBVIOUS
<1>2. SubSeq(qs, 1, 0) = <<>>
  OBVIOUS
<1>3. a \o <<>> = a
  OBVIOUS
<1>4. [j EXCEPT ![c] = a] = j
  BY <1>1
<1> QED
  BY <1>1, <1>2, <1>3, <1>4 DEF Extended

LEMMA ExtendedBack ==
    ASSUME NEW X, NEW j \in Seq(Seq(X)), NEW c \in 1..Len(j), NEW qs \in Seq(X),
           NEW k \in 0..(Len(qs) - 1), NEW g, g = Extended(j, c, qs, k + 1)
    PROVE  /\ ~Idle(g, c)
           /\ \A s : GoBack(s, g, c) = <<Undo(s, qs[k + 1]), Extended(j, c, qs, k)>>
<1>1. PICK a \in Seq(X) : a = j[c]
  OBVIOUS
<1>5. \A i : Extended(j, c, qs, i) = [j EXCEPT ![c] = a \o SubSeq(qs, 1, i)]
  BY <1>1 DEF Extended
<1>4. ASSUME NEW b \in Seq(X)
      PROVE  [j EXCEPT ![c] = b][c] = b
  OBVIOUS
<1>21. PICK b \in Seq(X), x \in X :
          b = a \o SubSeq(qs, 1, k) /\ x = qs[k + 1] /\ a \o SubSeq(qs, 1, k + 1) = Append(b, x)
  <2>1. a \o SubSeq(qs, 1, k) \in Seq(X) /\ qs[k + 1] \in X
        /\ a \o SubSeq(qs, 1, k + 1) = Append(a \o SubSeq(qs, 1, k), qs[k + 1])
    BY PlusOne
  <2> QED
    BY <2>1
<1>26. PICK f : f = Append(b, x)
  OBVIOUS
<1>22. f \in Seq(X) /\ f = Append(b, x) /\ f # <<>> /\ f[Len(f)] = x /\ RemoveAt(f, Len(f)) = b
  <2>1. f \in Seq(X) /\ f # <<>> /\ f[Len(f)] = x
    <3> HIDE <1>21
    <3>1. PICK n \in Nat : n = Len(b)
      OBVIOUS
    <3>2. f \in Seq(X) /\ Len(f) = n + 1
      BY <1>26, <3>1
    <3>3. f[n + 1] = x
      BY <1>26, <3>1
    <3> QED
      BY <3>2, <3>3
  <2> QED
    BY <1>26, <2>1, RemoveLast
<1>23. Extended(j, c, qs, k) = [j EXCEPT ![c] = b] /\ Extended(j, c, qs, k + 1) = [j EXCEPT ![c] = f]
  BY <1>5, <1>21, <1>22
<1>24. g = [j EXCEPT ![c] = f] /\ g[c] = f
  BY <1>4, <1>22, <1>23
<1>25. [g EXCEPT ![c] = RemoveAt(g[c], Len(g[c]))] = [j EXCEPT ![c] = b]
  <2>1. [g EXCEPT ![c] = b] = [j EXCEPT ![c] = b]
    BY <1>24
  <2> QED
    BY <1>22, <1>24, <2>1
<1> QED
  BY <1>21, <1>22, <1>23, <1>24, <1>25 DEF Shortened, Idle, GoBack

Walk(s, qs, N, t) ==
    /\ qs \in Seq(Prims(N)) /\ t = After(s, qs, Len(qs))
    /\ \A k \in 0..(Len(qs) - 1) : Steps(After(s, qs, k), qs[k + 1], N)

LEMMA JournalIsSafe ==
    ASSUME NEW R, NEW N, NEW j, NEW c, Safe(R, N, c), c # 0,
           NEW s, <<s, j>> \in R, NEW qs, NEW t, Walk(s, qs, N, t), NEW K \in 0..Len(qs)
    PROVE  \E S : Safe(S, N, c) /\ <<After(s, qs, K), Extended(j, c, qs, K)>> \in S
<1>0. PICK X : X = Prims(N)
  OBVIOUS
<1> DEFINE F(k) == After(s, qs, k)
           J(k) == Extended(j, c, qs, k)
           S == R \cup {<<F(k), J(k)>> : k \in 0..K}
<1>1. /\ j \in Seq(Seq(X)) /\ c \in 1..Len(j) /\ qs \in Seq(X) /\ c \in Nat /\ c >= 1 /\ Len(j) = c
      /\ Fits(s, N)
  <2>1. j \in Seq(Seq(X)) /\ Fits(s, N) /\ Len(j) = c
    BY <1>0 DEF Safe
  <2>2. Len(j) \in Nat
    BY <2>1
  <2> QED
    BY <1>0, <2>1, <2>2 DEF Walk
<1>2. /\ J(0) = j
      /\ \A k \in 0..Len(qs) :
            /\ J(k) \in Seq(Seq(X)) /\ Len(J(k)) = c
            /\ \A i \in 1..c : i # c => J(k)[i] = j[i]
      /\ \A k \in 0..(Len(qs) - 1) :
            /\ ~Idle(J(k + 1), c)
            /\ \A f : GoBack(f, J(k + 1), c) = <<Undo(f, qs[k + 1]), J(k)>>
  <2>0. j \in Seq(Seq(X)) /\ c \in 1..Len(j) /\ qs \in Seq(X)
    BY <1>1
  <2>1. J(0) = j
    BY <2>0, ExtendedNot
  <2>2. ASSUME NEW k \in 0..Len(qs)
        PROVE  /\ J(k) \in Seq(Seq(X)) /\ Len(J(k)) = Len(j)
               /\ \A i \in 1..Len(j) : i # c => J(k)[i] = j[i]
    <3>1. J(k) \in Seq(Seq(X))
      BY <2>0, ExtendedIs
    <3>2. Len(J(k)) = Len(j)
      BY <2>0, ExtendedIs
    <3>3. \A i \in 1..Len(j) : i # c => J(k)[i] = j[i]
      BY <2>0, ExtendedIs
    <3> QED
      BY <3>1, <3>2, <3>3
  <2>3. ASSUME NEW k \in 0..(Len(qs) - 1)
        PROVE  /\ ~Idle(J(k + 1), c)
               /\ \A f : GoBack(f, J(k + 1), c) = <<Undo(f, qs[k + 1]), J(k)>>
    <3>1. ~Idle(J(k + 1), c)
      BY <2>0, ExtendedBack
    <3>2. \A f : GoBack(f, J(k + 1), c) = <<Undo(f, qs[k + 1]), J(k)>>
      BY <2>0, ExtendedBack
    <3> QED
      BY <3>1, <3>2
  <2> QED
    BY <1>1, <2>1, <2>2, <2>3
<1>3. /\ F(0) = s
      /\ \A k \in 0..(Len(qs) - 1) : F(k + 1) = Do(F(k), qs[k + 1])
  <2>1. OneByOne(s, qs)
    BY <1>1, FoldSteps
  <2> QED
    BY <2>1 DEF OneByOne
<1>4. \A k \in 0..(Len(qs) - 1) : Fits(F(k + 1), N) /\ Undo(F(k + 1), qs[k + 1]) = F(k)
  BY <1>3 DEF Walk, Steps
<1> HIDE DEF F, J
<1>5. ASSUME NEW e \in R
      PROVE  /\ e = <<e[1], e[2]>> /\ Fits(e[1], N) /\ e[2] \in Seq(Seq(X)) /\ Len(e[2]) = c
             /\ \A i \in 1..c : CanGoBack(e[2], i) => GoBack(e[1], e[2], i) \in S
  BY <1>0 DEF Safe
<1>6. ASSUME NEW k \in Nat, k + 1 <= K
      PROVE  /\ Fits(F(k + 1), N) /\ J(k + 1) \in Seq(Seq(X)) /\ Len(J(k + 1)) = c
             /\ \A i \in 1..c : CanGoBack(J(k + 1), i) => GoBack(F(k + 1), J(k + 1), i) \in S
  <2>1. k \in 0..(Len(qs) - 1) /\ k + 1 \in 0..Len(qs) /\ k \in 0..K
    BY <1>6
  <2>2. PICK f, g, x : f = F(k + 1) /\ g = J(k + 1) /\ x = qs[k + 1]
    OBVIOUS
  <2>3. /\ g \in Seq(Seq(X)) /\ Len(g) = c /\ ~Idle(g, c)
        /\ GoBack(f, g, c) = <<Undo(f, x), J(k)>>
    BY <1>2, <2>1, <2>2
  <2>4. Fits(f, N) /\ Undo(f, x) = F(k)
    BY <1>4, <2>1, <2>2
  <2>5. ASSUME NEW i \in 1..c, CanGoBack(g, i) PROVE GoBack(f, g, i) \in S
    <3>1. i = c
      <4>1. ASSUME i # c PROVE FALSE
        <5>1. c \in (i + 1)..Len(g)
          BY <1>1, <2>3, <4>1
        <5> QED
          BY <2>3, <2>5, <5>1 DEF CanGoBack
      <4> QED
        BY <4>1
    <3>2. GoBack(f, g, c) = <<F(k), J(k)>>
      <4> HIDE DEF S
      <4> QED
        BY <2>3, <2>4
    <3> QED
      BY <2>1, <3>1, <3>2
  <2> HIDE DEF S
  <2> QED
    BY <2>2, <2>3, <2>4, <2>5
<1>7. ASSUME NEW e \in S
      PROVE  /\ e = <<e[1], e[2]>> /\ Fits(e[1], N) /\ e[2] \in Seq(Seq(X)) /\ Len(e[2]) = c
             /\ \A i \in 1..c : CanGoBack(e[2], i) => GoBack(e[1], e[2], i) \in S
  <2>1. CASE e \in R
    <3> HIDE DEF S
    <3> QED
      BY <1>5, <2>1
  <2>2. CASE e \notin R
    <3>1. PICK k \in 0..K : e = <<F(k), J(k)>>
      BY <2>2
    <3>2. k # 0
      BY <1>2, <1>3, <2>2, <3>1
    <3>3. PICK m \in Nat : k = m + 1
      <4>1. k - 1 \in Nat /\ k = (k - 1) + 1
        BY <3>2
      <4> QED
        BY <4>1
    <3>4. e[1] = F(m + 1) /\ e[2] = J(m + 1) /\ m + 1 <= K
      BY <3>1, <3>3
    <3>5. e = <<e[1], e[2]>>
      BY <3>1
    <3> HIDE DEF S
    <3> QED
      BY <1>6, <3>4, <3>5
  <2> QED
    BY <2>1, <2>2
<1>8. <<F(K), J(K)>> \in S
  OBVIOUS
<1> HIDE DEF S
<1>9. Safe(S, N, c)
  BY <1>0, <1>7 DEF Safe
<1> QED
  BY <1>8, <1>9 DEF F, J

LEMMA WalkNowhere ==
    ASSUME NEW s, NEW N
    PROVE  Walk(s, <<>>, N, s)
<1>1. PICK X : X = Prims(N)
  OBVIOUS
<1>2. PICK qs : qs = <<>>
  OBVIOUS
<1>3. qs \in Seq(X) /\ Len(qs) = 0
  BY <1>2
<1>4. FoldLeft(Do, s, SubSeq(qs, 1, 0)) = s
  <2>1. OneByOne(s, qs)
    BY <1>3, FoldSteps
  <2> QED
    BY <2>1 DEF OneByOne, After
<1>5. \A k \in 0..(Len(qs) - 1) : FALSE
  BY <1>3
<1> QED
  BY <1>1, <1>2, <1>3, <1>4, <1>5 DEF Walk, After

LEMMA WalkOn ==
    ASSUME NEW s, NEW N, NEW qs, NEW t, Walk(s, qs, N, t), NEW q, Steps(t, q, N)
    PROVE  Walk(s, Append(qs, q), N, Do(t, q))
<1>1. PICK X : X = Prims(N)
  OBVIOUS
<1>2. qs \in Seq(X) /\ q \in X
  BY <1>1 DEF Walk, Steps
<1>3. PICK ps, n : ps = Append(qs, q) /\ n = Len(qs)
  OBVIOUS
<1>4. ps \in Seq(X) /\ n \in Nat /\ Len(ps) = n + 1 /\ ps[n + 1] = q /\ \A k \in 1..n : ps[k] = qs[k]
  BY <1>2, <1>3
<1>5. ASSUME NEW k \in 0..n PROVE SubSeq(ps, 1, k) = SubSeq(qs, 1, k)
  <2>1. k <= Len(ps) /\ k <= Len(qs) /\ k \in Nat
    BY <1>3, <1>4
  <2>2. PICK f, g : f = SubSeq(ps, 1, k) /\ g = SubSeq(qs, 1, k)
    OBVIOUS
  <2>3. f \in Seq(X) /\ Len(f) = k /\ \A i \in 1..k : f[i] = ps[i]
    BY <1>4, <2>1, <2>2
  <2>4. g \in Seq(X) /\ Len(g) = k /\ \A i \in 1..k : g[i] = qs[i]
    BY <1>2, <2>1, <2>2
  <2>5. \A i \in 1..k : f[i] = g[i]
    BY <1>4, <2>3, <2>4
  <2> QED
    BY <2>2, <2>3, <2>4, <2>5
<1>6. \A k \in 0..n : After(s, ps, k) = After(s, qs, k)
  BY <1>5 DEF After
<1>7. /\ t = After(s, qs, n)
      /\ \A k \in 0..(n - 1) : Steps(After(s, qs, k), qs[k + 1], N)
  BY <1>3 DEF Walk
<1>8. After(s, ps, n + 1) = Do(t, q)
  <2>1. n \in 0..(Len(ps) - 1) /\ n \in 0..n
    BY <1>4
  <2>2. After(s, ps, n + 1) = Do(After(s, ps, n), ps[n + 1])
    <3>1. OneByOne(s, ps)
      BY <1>4, FoldSteps
    <3>2. \A k \in 0..(Len(ps) - 1) : After(s, ps, k + 1) = Do(After(s, ps, k), ps[k + 1])
      BY <3>1 DEF OneByOne
    <3> QED
      BY <2>1, <3>2
  <2>3. After(s, ps, n) = t
    BY <1>6, <1>7, <2>1
  <2> QED
    BY <1>4, <2>2, <2>3 DEF After
<1>9. ASSUME NEW k \in 0..((n + 1) - 1) PROVE Steps(After(s, ps, k), ps[k + 1], N)
  <2>1. CASE k = n
    BY <1>4, <1>6, <1>7, <2>1
  <2>2. CASE k # n
    <3>1. k \in 0..n /\ k \in 0..(n - 1) /\ k + 1 \in 1..n
      BY <1>4, <2>2
    <3> QED
      BY <1>4, <1>6, <1>7, <3>1
  <2> QED
    BY <2>1, <2>2
<1> QED
  BY <1>1, <1>3, <1>4, <1>8, <1>9 DEF Walk

-----------------------------------------------------------------------------
(* More dentries beside those of the image: what the journal says is done  *)
(* and undone as before.                                                   *)

Put(s, g, a) == State(Join(s.dentries, g), s.root, s.orphans \cup a)

LEMMA PrimIs ==
    ASSUME NEW N, NEW q \in Prims(N)
    PROVE  /\ q.op \in {"link", "unlink", "name", "short"} /\ q.subject \in N
           /\ q.op \in {"link", "unlink"} => q.parent \in N \cup {None}
           /\ q.op = "name" => q.old \in Labels /\ q.new \in Labels
           /\ q.op = "short" => q.old \in BOOLEAN
BY DEF Prims

LEMMA JoinMove ==
    ASSUME NEW X, NEW d \in Dentries(X), NEW g, X \cap DOMAIN g = {}, NEW n \in X
    PROVE  /\ \A p : Join(Move(d, n, p), g) = Move(Join(d, g), n, p)
           /\ \A x : Join(Relabel(d, n, x), g) = Relabel(Join(d, g), n, x)
           /\ \A x : Join(Reshort(d, n, x), g) = Reshort(Join(d, g), n, x)
<1>1. DOMAIN d = X
  BY DEF Dentries
<1>2. ASSUME NEW y
      PROVE  Join([d EXCEPT ![n] = y], g) = [Join(d, g) EXCEPT ![n] = y]
  BY <1>1 DEF Join
<1>3. Join(d, g)[n] = d[n]
  BY <1>1 DEF Join
<1>4. ASSUME NEW p PROVE Join(Move(d, n, p), g) = Move(Join(d, g), n, p)
  BY <1>2, <1>3 DEF Move
<1>5. ASSUME NEW x PROVE Join(Relabel(d, n, x), g) = Relabel(Join(d, g), n, x)
  BY <1>2, <1>3 DEF Relabel
<1>6. ASSUME NEW x PROVE Join(Reshort(d, n, x), g) = Reshort(Join(d, g), n, x)
  BY <1>2, <1>3 DEF Reshort
<1> QED
  BY <1>4, <1>5, <1>6

LEMMA PutIs ==
    ASSUME NEW d, NEW r, NEW o, NEW g, NEW a, NEW x, x = o \cup a
    PROVE  Put(State(d, r, o), g, a) = State(Join(d, g), r, x)
<1>1. PICK s : s = State(d, r, o)
  OBVIOUS
<1>2. s.dentries = d /\ s.root = r /\ s.orphans = o
  BY <1>1 DEF State
<1> QED
  BY <1>1, <1>2 DEF Put

(* g is no part of an image with the dentries N. *)
Apart(g, a, N) ==
    N \cap DOMAIN g = {} /\ N \cap a = {} /\ \A n \in DOMAIN g : g[n].parent \in DOMAIN g

LEMMA FreePut ==
    ASSUME NEW N, NEW d \in Dentries(N), NEW r, NEW o, NEW g, NEW a, Apart(g, a, N), NEW p \in N,
           NEW x, NEW e, e = Join(d, g), NEW y
    PROVE  Free(State(d, r, o), p, y) <=> Free(State(e, r, x), p, y)
<1>1. /\ DOMAIN d = N /\ DOMAIN e = N \cup DOMAIN g
      /\ \A n \in N : e[n] = d[n]
      /\ \A n \in DOMAIN g : e[n].parent \in DOMAIN g
      /\ N \cap DOMAIN g = {}
  BY DEF Dentries, Join, Apart
<1>2. PICK s, t : s = State(d, r, o) /\ t = State(e, r, x)
  OBVIOUS
<1>3. s.dentries = d /\ t.dentries = e
  BY <1>2 DEF State
<1>4. ASSUME NEW n PROVE n \in Named(s, p, y) <=> n \in Named(t, p, y)
  BY <1>1, <1>3 DEF Named, Children
<1> QED
  BY <1>2, <1>4 DEF Free

LEMMA PutDo ==
    ASSUME NEW N, NEW s, Fits(s, N), NEW g, NEW a, Apart(g, a, N), NEW q \in Prims(N)
    PROVE  Do(Put(s, g, a), q) = Put(Do(s, q), g, a)
<1>1. PICK d, r, o : d = s.dentries /\ r = s.root /\ o = s.orphans
  OBVIOUS
<1>2. s = State(d, r, o)
  BY <1>1, StateIs
<1>3. d \in Dentries(N) /\ None \notin N
  BY <1>1 DEF Fits, Forest, Nodes
<1> DEFINE n == q.subject
           p == q.parent
<1>4. n \in N
  BY PrimIs
<1>5. PICK e : e = Join(d, g)
  OBVIOUS
<1>6. /\ \A b : Join(Move(d, n, b), g) = Move(e, n, b)
      /\ \A b : Join(Relabel(d, n, b), g) = Relabel(e, n, b)
      /\ \A b : Join(Reshort(d, n, b), g) = Reshort(e, n, b)
  BY <1>3, <1>4, <1>5, JoinMove DEF Apart
<1>7. PICK x, y, z : x = o \cup a /\ y = o \ {n} /\ z = o \cup {n}
  OBVIOUS
<1>8. PICK u, v : u = y \cup a /\ v = z \cup a
  OBVIOUS
<1>9. u = x \ {n} /\ v = x \cup {n}
  BY <1>4, <1>7, <1>8 DEF Apart
<1>10. Put(s, g, a) = State(e, r, x)
  BY <1>2, <1>5, <1>7, PutIs
<1>11. CASE q.op = "link" /\ p = None
  <2>1. Do(s, q) = State(d, n, y)
    BY <1>2, <1>4, <1>7, <1>11, DoLinkIs
  <2>2. Do(State(e, r, x), q) = State(e, n, u)
    BY <1>4, <1>9, <1>11, DoLinkIs
  <2>3. Put(State(d, n, y), g, a) = State(e, n, u)
    BY <1>5, <1>8, PutIs
  <2> QED
    BY <1>10, <2>1, <2>2, <2>3
<1>12. CASE q.op = "link" /\ p # None
  <2>1. Do(s, q) = IF Free(State(d, r, o), p, d[n].name)
                     THEN State(Move(d, n, p), r, y) ELSE State(d, r, y)
    BY <1>2, <1>4, <1>7, <1>12, DoLinkIs
  <2>2. Do(State(e, r, x), q) = IF Free(State(e, r, x), p, e[n].name)
                                  THEN State(Move(e, n, p), r, u) ELSE State(e, r, u)
    BY <1>4, <1>9, <1>12, DoLinkIs
  <2>3. p \in N /\ e[n] = d[n]
    <3>1. p \in N
      BY <1>4, <1>12, PrimIs
    <3> QED
      BY <1>3, <1>4, <1>5, <3>1 DEF Join, Apart, Dentries
  <2>4. Free(State(e, r, x), p, e[n].name) <=> Free(State(d, r, o), p, d[n].name)
    BY <1>3, <1>5, <2>3, FreePut
  <2>5. Put(State(Move(d, n, p), r, y), g, a) = State(Move(e, n, p), r, u)
    BY <1>6, <1>8, PutIs
  <2>6. Put(State(d, r, y), g, a) = State(e, r, u)
    BY <1>5, <1>8, PutIs
  <2> QED
    BY <1>10, <2>1, <2>2, <2>4, <2>5, <2>6
<1>13. CASE q.op = "unlink" /\ p = None
  <2>1. Do(s, q) = State(d, None, z)
    BY <1>2, <1>4, <1>7, <1>13, DoUnlinkIs
  <2>2. Do(State(e, r, x), q) = State(e, None, v)
    BY <1>4, <1>9, <1>13, DoUnlinkIs
  <2>3. Put(State(d, None, z), g, a) = State(e, None, v)
    BY <1>5, <1>8, PutIs
  <2> QED
    BY <1>10, <2>1, <2>2, <2>3
<1>14. CASE q.op = "unlink" /\ p # None
  <2>1. Do(s, q) = State(Move(d, n, n), r, z)
    BY <1>2, <1>4, <1>7, <1>14, DoUnlinkIs
  <2>2. Do(State(e, r, x), q) = State(Move(e, n, n), r, v)
    BY <1>4, <1>9, <1>14, DoUnlinkIs
  <2>3. Put(State(Move(d, n, n), r, z), g, a) = State(Move(e, n, n), r, v)
    BY <1>6, <1>8, PutIs
  <2> QED
    BY <1>10, <2>1, <2>2, <2>3
<1>15. CASE q.op = "name"
  <2>1. PICK b : b = q.new
    OBVIOUS
  <2>2. Do(s, q) = State(Relabel(d, n, b), r, o)
    BY <1>2, <1>4, <1>15, <2>1, DoNameIs
  <2>3. Do(State(e, r, x), q) = State(Relabel(e, n, b), r, x)
    BY <1>4, <1>15, <2>1, DoNameIs
  <2>4. Put(State(Relabel(d, n, b), r, o), g, a) = State(Relabel(e, n, b), r, x)
    BY <1>6, <1>7, PutIs
  <2> QED
    BY <1>10, <2>2, <2>3, <2>4
<1>16. CASE q.op = "short"
  <2>1. PICK b : b = NoShort
    OBVIOUS
  <2>2. Do(s, q) = State(Reshort(d, n, b), r, o)
    BY <1>2, <1>4, <1>16, <2>1, DoShortIs
  <2>3. Do(State(e, r, x), q) = State(Reshort(e, n, b), r, x)
    BY <1>4, <1>16, <2>1, DoShortIs
  <2>4. Put(State(Reshort(d, n, b), r, o), g, a) = State(Reshort(e, n, b), r, x)
    BY <1>6, <1>7, PutIs
  <2> QED
    BY <1>10, <2>2, <2>3, <2>4
<1> QED
  BY <1>11, <1>12, <1>13, <1>14, <1>15, <1>16, PrimIs

LEMMA PutUndo ==
    ASSUME NEW N, NEW s, Fits(s, N), NEW g, NEW a, Apart(g, a, N), NEW q \in Prims(N)
    PROVE  Undo(Put(s, g, a), q) = Put(Undo(s, q), g, a)
<1>1. PICK d, r, o : d = s.dentries /\ r = s.root /\ o = s.orphans
  OBVIOUS
<1>2. s = State(d, r, o)
  BY <1>1, StateIs
<1>3. d \in Dentries(N) /\ None \notin N
  BY <1>1 DEF Fits, Forest, Nodes
<1> DEFINE n == q.subject
           p == q.parent
<1>4. n \in N
  BY PrimIs
<1>5. PICK e : e = Join(d, g)
  OBVIOUS
<1>6. /\ \A b : Join(Move(d, n, b), g) = Move(e, n, b)
      /\ \A b : Join(Relabel(d, n, b), g) = Relabel(e, n, b)
      /\ \A b : Join(Reshort(d, n, b), g) = Reshort(e, n, b)
  BY <1>3, <1>4, <1>5, JoinMove DEF Apart
<1>7. PICK x, y, z : x = o \cup a /\ y = o \ {n} /\ z = o \cup {n}
  OBVIOUS
<1>8. PICK u, v : u = y \cup a /\ v = z \cup a
  OBVIOUS
<1>9. u = x \ {n} /\ v = x \cup {n}
  BY <1>4, <1>7, <1>8 DEF Apart
<1>10. Put(s, g, a) = State(e, r, x)
  BY <1>2, <1>5, <1>7, PutIs
<1>11. CASE q.op = "unlink" /\ p = None
  <2>1. Undo(s, q) = State(d, n, y)
    BY <1>2, <1>4, <1>7, <1>11, UndoUnlinkIs
  <2>2. Undo(State(e, r, x), q) = State(e, n, u)
    BY <1>4, <1>9, <1>11, UndoUnlinkIs
  <2>3. Put(State(d, n, y), g, a) = State(e, n, u)
    BY <1>5, <1>8, PutIs
  <2> QED
    BY <1>10, <2>1, <2>2, <2>3
<1>12. CASE q.op = "unlink" /\ p # None
  <2>1. Undo(s, q) = IF Free(State(d, r, o), p, d[n].name)
                     THEN State(Move(d, n, p), r, y) ELSE State(d, r, y)
    BY <1>2, <1>4, <1>7, <1>12, UndoUnlinkIs
  <2>2. Undo(State(e, r, x), q) = IF Free(State(e, r, x), p, e[n].name)
                                  THEN State(Move(e, n, p), r, u) ELSE State(e, r, u)
    BY <1>4, <1>9, <1>12, UndoUnlinkIs
  <2>3. p \in N /\ e[n] = d[n]
    <3>1. p \in N
      BY <1>4, <1>12, PrimIs
    <3> QED
      BY <1>3, <1>4, <1>5, <3>1 DEF Join, Apart, Dentries
  <2>4. Free(State(e, r, x), p, e[n].name) <=> Free(State(d, r, o), p, d[n].name)
    BY <1>3, <1>5, <2>3, FreePut
  <2>5. Put(State(Move(d, n, p), r, y), g, a) = State(Move(e, n, p), r, u)
    BY <1>6, <1>8, PutIs
  <2>6. Put(State(d, r, y), g, a) = State(e, r, u)
    BY <1>5, <1>8, PutIs
  <2> QED
    BY <1>10, <2>1, <2>2, <2>4, <2>5, <2>6
<1>13. CASE q.op = "link" /\ p = None
  <2>1. Undo(s, q) = State(d, None, z)
    BY <1>2, <1>4, <1>7, <1>13, UndoLinkIs
  <2>2. Undo(State(e, r, x), q) = State(e, None, v)
    BY <1>4, <1>9, <1>13, UndoLinkIs
  <2>3. Put(State(d, None, z), g, a) = State(e, None, v)
    BY <1>5, <1>8, PutIs
  <2> QED
    BY <1>10, <2>1, <2>2, <2>3
<1>14. CASE q.op = "link" /\ p # None
  <2>1. Undo(s, q) = State(Move(d, n, n), r, z)
    BY <1>2, <1>4, <1>7, <1>14, UndoLinkIs
  <2>2. Undo(State(e, r, x), q) = State(Move(e, n, n), r, v)
    BY <1>4, <1>9, <1>14, UndoLinkIs
  <2>3. Put(State(Move(d, n, n), r, z), g, a) = State(Move(e, n, n), r, v)
    BY <1>6, <1>8, PutIs
  <2> QED
    BY <1>10, <2>1, <2>2, <2>3
<1>15. CASE q.op = "name"
  <2>1. PICK b : b = q.old
    OBVIOUS
  <2>2. Undo(s, q) = State(Relabel(d, n, b), r, o)
    BY <1>2, <1>4, <1>15, <2>1, UndoNameIs
  <2>3. Undo(State(e, r, x), q) = State(Relabel(e, n, b), r, x)
    BY <1>4, <1>15, <2>1, UndoNameIs
  <2>4. Put(State(Relabel(d, n, b), r, o), g, a) = State(Relabel(e, n, b), r, x)
    BY <1>6, <1>7, PutIs
  <2> QED
    BY <1>10, <2>2, <2>3, <2>4
<1>16. CASE q.op = "short"
  <2>1. PICK b : b = q.old
    OBVIOUS
  <2>2. Undo(s, q) = State(Reshort(d, n, b), r, o)
    BY <1>2, <1>4, <1>16, <2>1, UndoShortIs
  <2>3. Undo(State(e, r, x), q) = State(Reshort(e, n, b), r, x)
    BY <1>4, <1>16, <2>1, UndoShortIs
  <2>4. Put(State(Reshort(d, n, b), r, o), g, a) = State(Reshort(e, n, b), r, x)
    BY <1>6, <1>7, PutIs
  <2> QED
    BY <1>10, <2>2, <2>3, <2>4
<1> QED
  BY <1>11, <1>12, <1>13, <1>14, <1>15, <1>16, PrimIs

LEMMA WithIsPut ==
    ASSUME NEW s, NEW N, Fits(s, N), NEW P, Forest(P), N \cap DOMAIN P = {}
    PROVE  With(s, P) = Put(s, P, {}) /\ Apart(P, {}, N)
<1>1. PICK d, r, o : d = s.dentries /\ r = s.root /\ o = s.orphans
  OBVIOUS
<1>2. s = State(d, r, o)
  BY <1>1, StateIs
<1>3. o = o \cup {}
  OBVIOUS
<1>4. Put(s, P, {}) = State(Join(d, P), r, o)
  BY <1>2, <1>3, PutIs
<1>5. With(s, P) = State(Join(d, P), r, o)
  BY <1>1, WithIs DEF State
<1>6. Apart(P, {}, N)
  BY DEF Apart, Forest, Dentries
<1> QED
  BY <1>4, <1>5, <1>6

LEMMA WalkFits ==
    ASSUME NEW s, NEW N, Fits(s, N), NEW qs, NEW t, Walk(s, qs, N, t)
    PROVE  /\ Len(qs) \in Nat /\ After(s, qs, 0) = s
           /\ \A k \in 0..Len(qs) : Fits(After(s, qs, k), N)
           /\ \A k \in 0..(Len(qs) - 1) :
                 qs[k + 1] \in Prims(N) /\ After(s, qs, k + 1) = Do(After(s, qs, k), qs[k + 1])
<1>1. PICK X : X = Prims(N)
  OBVIOUS
<1>2. qs \in Seq(X) /\ Len(qs) \in Nat
  BY <1>1 DEF Walk
<1>3. After(s, qs, 0) = s
  BY <1>2, FoldSteps DEF OneByOne
<1>4. \A k \in 0..(Len(qs) - 1) : After(s, qs, k + 1) = Do(After(s, qs, k), qs[k + 1])
  <2>1. OneByOne(s, qs)
    BY <1>2, FoldSteps
  <2> QED
    BY <2>1 DEF OneByOne
<1>5. \A k \in 0..(Len(qs) - 1) : qs[k + 1] \in X /\ Fits(Do(After(s, qs, k), qs[k + 1]), N)
  BY <1>1 DEF Walk, Steps
<1>6. ASSUME NEW k \in 0..Len(qs) PROVE Fits(After(s, qs, k), N)
  <2>1. CASE k = 0
    BY <1>3, <2>1
  <2>2. CASE k # 0
    <3>1. PICK m \in 0..(Len(qs) - 1) : k = m + 1
      <4>1. k - 1 \in 0..(Len(qs) - 1) /\ k = (k - 1) + 1
        BY <1>2, <2>2
      <4> QED
        BY <4>1
    <3> QED
      BY <1>4, <1>5, <3>1
  <2> QED
    BY <2>1, <2>2
<1> QED
  BY <1>1, <1>2, <1>3, <1>4, <1>5, <1>6

LEMMA WalkWith ==
    ASSUME NEW s, NEW N, Fits(s, N), NEW qs, NEW t, Walk(s, qs, N, t),
           NEW P, Forest(P), N \cap DOMAIN P = {}
    PROVE  \A k \in 0..Len(qs) : After(With(s, P), qs, k) = With(After(s, qs, k), P)
<1>1. PICK X : X = Prims(N)
  OBVIOUS
<1>2. qs \in Seq(X) /\ Len(qs) \in Nat
  BY <1>1 DEF Walk
<1>3. PICK w : w = With(s, P)
  OBVIOUS
<1>4. After(w, qs, 0) = w
  BY <1>2, FoldSteps DEF OneByOne
<1>5. \A k \in 0..(Len(qs) - 1) : After(w, qs, k + 1) = Do(After(w, qs, k), qs[k + 1])
  <2>1. OneByOne(w, qs)
    BY <1>2, FoldSteps
  <2> QED
    BY <2>1 DEF OneByOne
<1> DEFINE T == {k \in Nat : k <= Len(qs) => After(w, qs, k) = With(After(s, qs, k), P)}
<1>6. 0 \in T
  BY <1>3, <1>4, WalkFits
<1>7. ASSUME NEW k \in Nat, k \in T PROVE k + 1 \in T
  <2> SUFFICES ASSUME k + 1 <= Len(qs)
               PROVE  After(w, qs, k + 1) = With(After(s, qs, k + 1), P)
    OBVIOUS
  <2>1. k \in 0..(Len(qs) - 1) /\ k \in 0..Len(qs) /\ k + 1 \in 0..Len(qs)
    BY <1>2
  <2>2. PICK f, g, q : f = After(s, qs, k) /\ g = After(s, qs, k + 1) /\ q = qs[k + 1]
    OBVIOUS
  <2>3. Fits(f, N) /\ Fits(g, N) /\ q \in Prims(N) /\ g = Do(f, q)
    BY <2>1, <2>2, WalkFits
  <2>4. After(w, qs, k) = Put(f, P, {}) /\ Apart(P, {}, N)
    BY <1>2, <1>7, <2>2, <2>3, WithIsPut
  <2>5. After(w, qs, k + 1) = Do(Put(f, P, {}), q)
    BY <1>5, <2>1, <2>2, <2>4
  <2>6. Do(Put(f, P, {}), q) = Put(g, P, {})
    BY <2>3, <2>4, PutDo
  <2> QED
    BY <2>2, <2>3, <2>5, <2>6, WithIsPut
<1> HIDE DEF T
<1>8. \A k \in Nat : k \in T
  BY <1>6, <1>7, NatSetInduction
<1> QED
  BY <1>2, <1>3, <1>8 DEF T

-----------------------------------------------------------------------------
(* A tree of new dentries joins the image, first as an orphan.             *)

LEMMA PutFits ==
    ASSUME NEW s, NEW N, Fits(s, N), NEW g, Forest(g), N \cap DOMAIN g = {}, NEW b, Roots(g) = {b}
    PROVE  Fits(Put(s, g, {b}), N \cup DOMAIN g) /\ Apart(g, {b}, N)
<1>1. PICK d, r, o, x, e : /\ d = s.dentries /\ r = s.root /\ o = s.orphans /\ x = o \cup {b}
                           /\ e = Join(d, g)
  OBVIOUS
<1>2. s = State(d, r, o)
  BY <1>1, StateIs
<1>3. Put(s, g, {b}) = State(e, r, x)
  BY <1>1, <1>2, PutIs
<1>4. /\ Forest(d) /\ DOMAIN d = N
      /\ r # None => r \in N /\ d[r].dir
      /\ o \subseteq N /\ r \notin o
      /\ \A m \in N : d[m].parent = m <=> m = r \/ m \in o
  BY <1>1 DEF Fits, Nodes
<1>5. /\ b \in DOMAIN g /\ b \notin N /\ \A n \in DOMAIN g : g[n].parent = n <=> n = b
  BY DEF Roots
<1>6. Forest(e) /\ DOMAIN e = N \cup DOMAIN g
      /\ (\A n \in N : e[n] = d[n]) /\ (\A n \in DOMAIN g : e[n] = g[n])
  <2>1. DOMAIN d \cap DOMAIN g = {}
    BY <1>4
  <2>2. /\ Forest(Join(d, g)) /\ DOMAIN Join(d, g) = DOMAIN d \cup DOMAIN g
        /\ \A n \in DOMAIN d : Join(d, g)[n] = d[n]
        /\ \A n \in DOMAIN g : Join(d, g)[n] = g[n]
    BY <1>4, <2>1, UnionForest
  <2> QED
    BY <1>1, <1>4, <2>2
<1>7. b # None
  BY <1>5 DEF Forest
<1>8. r \notin DOMAIN g
  BY <1>4 DEF Forest
<1>9. \A m \in N \cup DOMAIN g : e[m].parent = m <=> m = r \/ m \in x
  <2>1. ASSUME NEW m \in N PROVE e[m].parent = m <=> m = r \/ m \in x
    BY <1>1, <1>4, <1>5, <1>6
  <2>2. ASSUME NEW m \in DOMAIN g PROVE e[m].parent = m <=> m = r \/ m \in x
    BY <1>1, <1>4, <1>5, <1>6, <1>8
  <2> QED
    BY <2>1, <2>2
<1>10. /\ r # None => r \in N \cup DOMAIN g /\ e[r].dir
       /\ x \subseteq N \cup DOMAIN g /\ r \notin x
  BY <1>1, <1>4, <1>5, <1>6, <1>8
<1>11. Fits(State(e, r, x), N \cup DOMAIN g)
  BY <1>6, <1>9, <1>10 DEF Fits, State, Nodes
<1>12. Apart(g, {b}, N)
  BY <1>5 DEF Apart, Forest, Dentries
<1> QED
  BY <1>3, <1>11, <1>12

Enlarged(R, g, b) == {<<Put(e[1], g, {b}), e[2]>> : e \in R}

LEMMA Enlarge ==
    ASSUME NEW R, NEW N, NEW c, Safe(R, N, c), NEW g, Forest(g), N \cap DOMAIN g = {},
           NEW b, Roots(g) = {b}, NEW M, M = N \cup DOMAIN g
    PROVE  Safe(Enlarged(R, g, b), M, c)
<1> DEFINE S == {<<Put(e[1], g, {b}), e[2]>> : e \in R}
<1>1. Prims(N) \subseteq Prims(M)
  BY DEF Prims
<1>2. ASSUME NEW e \in R
      PROVE  /\ Fits(Put(e[1], g, {b}), M)
             /\ e[2] \in Seq(Seq(Prims(M))) /\ Len(e[2]) = c
             /\ \A i \in 1..c : CanGoBack(e[2], i) => GoBack(Put(e[1], g, {b}), e[2], i) \in S
  <2>1. PICK s, j : s = e[1] /\ j = e[2]
    OBVIOUS
  <2>2. /\ Fits(s, N) /\ j \in Seq(Seq(Prims(N))) /\ Len(j) = c
        /\ \A i \in 1..c : CanGoBack(j, i) => GoBack(s, j, i) \in R
    BY <2>1 DEF Safe
  <2>3. Fits(Put(s, g, {b}), M) /\ Apart(g, {b}, N)
    BY <2>2, PutFits
  <2>4. j \in Seq(Seq(Prims(M)))
    <3>1. PICK X, Y : X = Prims(N) /\ Y = Prims(M)
      OBVIOUS
    <3>2. j \in Seq(Seq(X)) /\ X \subseteq Y
      BY <1>1, <2>2, <3>1
    <3>3. Seq(X) \subseteq Seq(Y)
      BY <3>2
    <3>4. j \in Seq(Seq(Y))
      BY <3>2, <3>3
    <3> QED
      BY <3>1, <3>4
  <2>5. ASSUME NEW i \in 1..c, CanGoBack(j, i) PROVE GoBack(Put(s, g, {b}), j, i) \in S
    <3>1. PICK q : q = j[i][Len(j[i])]
      OBVIOUS
    <3>2. q \in Prims(N)
      <4>1. j[i] \in Seq(Prims(N)) /\ j[i] # <<>>
        BY <2>2, <2>5 DEF CanGoBack, Idle
      <4> HIDE <2>2
      <4>2. PICK k : k = j[i]
        OBVIOUS
      <4>3. k \in Seq(Prims(N)) /\ k # <<>>
        BY <4>1, <4>2
      <4>4. k[Len(k)] \in Prims(N)
        BY <4>3
      <4> QED
        BY <3>1, <4>2, <4>4
    <3>3. PICK f : f = GoBack(s, j, i) /\ f \in R
      BY <2>2, <2>5
    <3>4. f[1] = Undo(s, q) /\ f[2] = Shortened(j, i)
      BY <3>1, <3>3 DEF GoBack
    <3>5. Undo(Put(s, g, {b}), q) = Put(Undo(s, q), g, {b})
      BY <2>2, <2>3, <3>2, PutUndo
    <3>6. GoBack(Put(s, g, {b}), j, i) = <<Put(f[1], g, {b}), f[2]>>
      BY <3>1, <3>4, <3>5 DEF GoBack
    <3> QED
      BY <3>3, <3>6
  <2> HIDE DEF S
  <2> QED
    BY <2>1, <2>2, <2>3, <2>4, <2>5
<1>3. ASSUME NEW f \in S
      PROVE  /\ f = <<f[1], f[2]>> /\ Fits(f[1], M)
             /\ f[2] \in Seq(Seq(Prims(M))) /\ Len(f[2]) = c
             /\ \A i \in 1..c : CanGoBack(f[2], i) => GoBack(f[1], f[2], i) \in S
  <2>1. PICK e \in R : f = <<Put(e[1], g, {b}), e[2]>>
    OBVIOUS
  <2> HIDE DEF S
  <2>2. f[1] = Put(e[1], g, {b}) /\ f[2] = e[2] /\ f = <<f[1], f[2]>>
    BY <2>1
  <2> QED
    BY <1>2, <2>2
<1> HIDE DEF S
<1>4. Safe(S, M, c)
  BY <1>3 DEF Safe
<1> QED
  BY <1>4 DEF S, Enlarged

-----------------------------------------------------------------------------
(* No branch is being added.                                               *)

LEMMA NoRoots ==
    ASSUME NEW P, Forest(P), Roots(P) = {}
    PROVE  DOMAIN P = {}
<1> SUFFICES ASSUME DOMAIN P # {} PROVE FALSE
  OBVIOUS
<1>1. PICK n \in DOMAIN P : P[n].parent = n \/ P[n].parent \notin DOMAIN P
  BY DEF Forest, Acyclic
<1>2. P[n].parent \in DOMAIN P
  BY DEF Forest, Dentries
<1> QED
  BY <1>1, <1>2 DEF Roots

LEMMA WithNothing ==
    ASSUME NEW s, NEW N, Fits(s, N), NEW P, Forest(P), DOMAIN P = {}
    PROVE  With(s, P) = s
<1>1. PICK d, r, o : d = s.dentries /\ r = s.root /\ o = s.orphans
  OBVIOUS
<1>2. s = State(d, r, o) /\ Forest(d)
  BY <1>1, StateIs DEF Fits
<1>3. With(s, P) = State(Join(d, P), r, o)
  BY <1>1, WithIs DEF State
<1>4. Join(d, P) = d
  BY <1>2 DEF Join, Forest, Dentries
<1> QED
  BY <1>2, <1>3, <1>4

LEMMA EmptyForest ==
    ASSUME NEW P, P = [n \in {} |-> n]
    PROVE  Forest(P) /\ DOMAIN P = {} /\ Roots(P) = {} /\ \A c : BranchOK(P, c)
<1>1. DOMAIN P = {}
  OBVIOUS
<1>2. P \in Dentries(DOMAIN P)
  BY <1>1 DEF Dentries
<1>3. Acyclic(P)
  BY <1>1 DEF Acyclic
<1>4. Forest(P)
  BY <1>1, <1>2, <1>3 DEF Forest
<1> QED
  BY <1>1, <1>4 DEF Roots, BranchOK

(* Between the commands, while one is undone and when one begins. *)
AtRest(R, N) ==
    stack = <<>> /\ Fits(image, N) /\ <<image, prims>> \in R /\ Safe(R, N, cur)

LEMMA RestIs ==
    ASSUME Undoable, pc \notin Adding
    PROVE  \E R : AtRest(R, Nodes(image))
<1>1. PICK s, R, N, P : UndoableWith(s, R, N, P)
  BY DEF Undoable
<1>2. stack = <<>>
  BY <1>1 DEF UndoableWith, StackOK, Adding
<1>3. Roots(P) = {}
  BY <1>1, <1>2 DEF UndoableWith, BranchRoots
<1>4. Forest(P) /\ DOMAIN P = {}
  BY <1>1, <1>3, NoRoots DEF UndoableWith, BranchOK
<1>5. Fits(s, N)
  BY <1>1 DEF UndoableWith, Safe
<1>6. image = s
  BY <1>1, <1>4, <1>5, WithNothing DEF UndoableWith
<1>7. N = Nodes(image)
  BY <1>5, <1>6 DEF Fits
<1> QED
  BY <1>1, <1>2, <1>5, <1>6, <1>7 DEF UndoableWith, AtRest

LEMMA RestIsUndoable ==
    ASSUME NEW R, NEW N, AtRest(R, N)', pc' \notin Adding
    PROVE  Undoable'
<1>1. PICK P : P = [n \in {} |-> n]
  OBVIOUS
<1>2. /\ stack' = <<>> /\ Fits(image', N) /\ <<image', prims'>> \in R
      /\ Safe(R, N, cur')
  BY DEF AtRest
<1>3. Forest(P) /\ DOMAIN P = {} /\ Roots(P) = {} /\ BranchOK(P, cur')
  BY <1>1, EmptyForest
<1>4. image' = With(image', P)
  BY <1>2, <1>3, WithNothing
<1>5. BranchRoots' = {}
  BY <1>2 DEF BranchRoots
<1>6. StackOK(N, P)'
  BY <1>2 DEF StackOK, Adding
<1>7. PICK s : s = image'
  OBVIOUS
<1>8. UndoableWith(s, R, N, P)'
  BY <1>2, <1>3, <1>4, <1>5, <1>6, <1>7 DEF UndoableWith
<1> QED
  BY <1>8 DEF Undoable

LEMMA StillAtRest ==
    ASSUME Undoable, pc \notin Adding, pc' \notin Adding,
           image' = image, prims' = prims, stack' = stack, cmds' = cmds
    PROVE  Undoable'
<1>1. PICK R, N : AtRest(R, N)
  BY RestIs
<1>2. AtRest(R, N)'
  BY <1>1 DEF AtRest, cur
<1> QED
  BY <1>2, RestIsUndoable

(* A command that only journals. *)
LEMMA JournalIs ==
    ASSUME NEW w, NEW qs, NEW failed, Journal(w, qs, failed)
    PROVE  \E k \in 0..Len(qs) :
              /\ image' = After(w, qs, k) /\ prims' = Extended(prims, cur, qs, k)
              /\ failed = (k < Len(qs))
BY DEF Journal, After, Extended

LEMMA RestJournal ==
    ASSUME NEW R, NEW N, AtRest(R, N), cur # 0, NEW qs, NEW t, Walk(image, qs, N, t),
           NEW failed, Journal(image, qs, failed), cmds' = cmds, stack' = stack,
           pc' \notin Adding
    PROVE  Undoable' /\ Nodes(image') = N
<1>1. PICK k \in 0..Len(qs) : image' = After(image, qs, k) /\ prims' = Extended(prims, cur, qs, k)
  BY JournalIs
<1>2. PICK s, j, c : s = image /\ j = prims /\ c = cur
  OBVIOUS
<1>3. Safe(R, N, c) /\ <<s, j>> \in R /\ c # 0 /\ Walk(s, qs, N, t) /\ Fits(s, N)
  BY <1>2 DEF AtRest
<1>4. PICK S : Safe(S, N, c) /\ <<After(s, qs, k), Extended(j, c, qs, k)>> \in S
  BY <1>3, JournalIsSafe
<1>5. Fits(After(s, qs, k), N)
  BY <1>3, WalkFits
<1>6. cur' = c /\ stack' = <<>>
  BY <1>2 DEF cur, AtRest
<1>7. AtRest(S, N)'
  BY <1>1, <1>2, <1>4, <1>5, <1>6 DEF AtRest
<1>8. Nodes(image') = N
  BY <1>1, <1>2, <1>5 DEF Fits
<1> QED
  BY <1>7, <1>8, RestIsUndoable

LEMMA IdsKept ==
    ASSUME IdsOK, Nodes(image') \subseteq Nodes(image), cmds' = cmds, pc' # "add"
    PROVE  IdsOK'
BY DEF IdsOK, cur

LEMMA CommandIs ==
    ASSUME CommandsOK
    PROVE  /\ cur \in Nat
           /\ pc \in {"add", "delete", "rename"} \cup Adding =>
                 cur # 0 /\ cmd \in Commands
           /\ pc \in {"add"} \cup Adding =>
                 cmd.op = "add" /\ cmd.path \in Seq(Names) /\ IsTree(cmd.tree)
           /\ pc = "delete" => cmd.path \in Seq(Names)
           /\ pc = "rename" => cmd.from \in Seq(Names) /\ cmd.to \in Seq(Names)
<1>1. cmds \in Seq(Commands) /\ Len(cmds) \in Nat
  BY DEF CommandsOK
<1>2. ASSUME pc \in {"add", "delete", "rename"} \cup Adding PROVE cur # 0 /\ cmd \in Commands
  <2>1. cmds # <<>>
    BY <1>2 DEF CommandsOK
  <2> QED
    BY <1>1, <2>1 DEF cur, cmd
<1> QED
  BY <1>1, <1>2, CommandsAssumption DEF CommandsOK, cur

LEMMA DeletePathKeeps ==
    ASSUME IInv, DeletePath
    PROVE  IInv'
<1>1. /\ pc = "delete" /\ pc' \in {"end", "rollback"} /\ cmds' = cmds /\ stack' = stack
  BY DEF DeletePath
<1>2. CommandsOK /\ Undoable /\ IdsOK
  BY <1>1 DEF IInv
<1>3. CommandsOK'
  BY <1>1, <1>2 DEF CommandsOK, Adding
<1>4. PICK R, N : AtRest(R, N) /\ N = Nodes(image)
  BY <1>1, <1>2, RestIs DEF Adding
<1>5. cur # 0 /\ cmd.path \in Seq(Names)
  BY <1>1, <1>2, CommandIs
<1>6. PICK p : p = cmd.path
  OBVIOUS
<1>7. PICK n : n = Get(image, p)
  OBVIOUS
<1>8. ASSUME image' = image, prims' = prims PROVE Undoable'
  BY <1>1, <1>2, <1>8, StillAtRest DEF Adding
<1>9. ASSUME NEW failed, n # None, Journal(image, <<UnlinkPrim(image, n)>>, failed)
      PROVE  Undoable' /\ Nodes(image') = N
  <2>1. PICK s, q : s = image /\ q = UnlinkPrim(image, n)
    OBVIOUS
  <2>2. Fits(s, N)
    BY <1>4, <2>1 DEF AtRest
  <2>3. n \in N /\ n \notin s.orphans
    BY <1>5, <1>6, <1>7, <1>9, <2>1, <2>2, GetInImage
  <2>4. Steps(s, q, N)
    BY <2>1, <2>2, <2>3, DoUnlink
  <2>5. Walk(s, Append(<<>>, q), N, Do(s, q))
    BY <2>4, WalkNowhere, WalkOn
  <2>6. Append(<<>>, q) = <<q>>
    OBVIOUS
  <2> QED
    BY <1>1, <1>4, <1>5, <1>9, <2>1, <2>5, <2>6, RestJournal DEF Adding
<1>10. Undoable' /\ Nodes(image') = Nodes(image)
  <2>1. CASE image' = image /\ prims' = prims
    BY <1>4, <1>8, <2>1
  <2>2. CASE \E failed \in BOOLEAN : n # None /\ Journal(image, <<UnlinkPrim(image, n)>>, failed)
    BY <1>4, <1>9, <2>2
  <2> QED
    BY <1>6, <1>7, <2>1, <2>2 DEF DeletePath
<1>11. IdsOK' /\ AttachOK'
  BY <1>1, <1>2, <1>10, IdsKept DEF AttachOK
<1> QED
  BY <1>1, <1>3, <1>10, <1>11 DEF IInv

LEMMA AppendExcept ==
    ASSUME NEW X, NEW j \in Seq(X), NEW i \in 1..Len(j), NEW v \in X, NEW y \in X
    PROVE  [Append(j, y) EXCEPT ![i] = v] = Append([j EXCEPT ![i] = v], y)
<1>1. PICK h, g : h = Append(j, y) /\ g = [j EXCEPT ![i] = v]
  OBVIOUS
<1>2. /\ h \in Seq(X) /\ Len(h) = Len(j) + 1 /\ Len(j) \in Nat
      /\ \A k \in 1..Len(j) : h[k] = j[k]
      /\ h[Len(j) + 1] = y
  BY <1>1
<1>3. /\ g \in Seq(X) /\ Len(g) = Len(j) /\ g[i] = v
      /\ \A k \in 1..Len(j) : k # i => g[k] = j[k]
  BY <1>1
<1>4. PICK a, b : a = [h EXCEPT ![i] = v] /\ b = Append(g, y)
  OBVIOUS
<1>5. /\ a \in Seq(X) /\ Len(a) = Len(j) + 1
      /\ \A k \in 1..(Len(j) + 1) : a[k] = IF k = i THEN v ELSE h[k]
  BY <1>2, <1>4
<1>6. /\ b \in Seq(X) /\ Len(b) = Len(j) + 1
      /\ \A k \in 1..Len(j) : b[k] = g[k]
      /\ b[Len(j) + 1] = y
  BY <1>3, <1>4
<1>7. ASSUME NEW k \in 1..(Len(j) + 1) PROVE a[k] = b[k]
  <2>1. CASE k = i
    BY <1>3, <1>5, <1>6, <2>1
  <2>2. CASE k # i /\ k \in 1..Len(j)
    <3>1. a[k] = h[k]
      BY <1>5, <2>2
    <3>2. h[k] = j[k] /\ g[k] = j[k] /\ b[k] = g[k]
      BY <1>2, <1>3, <1>6, <2>2
    <3> QED
      BY <3>1, <3>2
  <2>3. CASE k = Len(j) + 1
    <3>1. k # i
      BY <1>2, <2>3
    <3>2. a[k] = h[k]
      BY <1>5, <3>1
    <3> QED
      BY <1>2, <1>6, <2>3, <3>2
  <2> QED
    BY <1>2, <2>1, <2>2, <2>3
<1>8. a = b
  BY <1>5, <1>6, <1>7
<1> QED
  BY <1>1, <1>4, <1>8

LEMMA Begun ==
    ASSUME NEW R, NEW N, NEW c \in Nat, Safe(R, N, c), NEW S,
           S = {<<e[1], Append(e[2], <<>>)>> : e \in R}
    PROVE  Safe(S, N, c + 1)
<1>1. PICK X : X = Prims(N)
  OBVIOUS
<1>2. ASSUME NEW f \in S
      PROVE  /\ f = <<f[1], f[2]>> /\ Fits(f[1], N)
             /\ f[2] \in Seq(Seq(X)) /\ Len(f[2]) = c + 1
             /\ \A i \in 1..(c + 1) : CanGoBack(f[2], i) => GoBack(f[1], f[2], i) \in S
  <2>1. PICK e \in R : f = <<e[1], Append(e[2], <<>>)>>
    BY <1>2
  <2>2. PICK s, j, h : s = e[1] /\ j = e[2] /\ h = Append(j, <<>>)
    OBVIOUS
  <2>3. f = <<f[1], f[2]>> /\ f[1] = s /\ f[2] = h
    BY <2>1, <2>2
  <2>4. /\ Fits(s, N) /\ j \in Seq(Seq(X)) /\ Len(j) = c
        /\ \A i \in 1..c : CanGoBack(j, i) => GoBack(s, j, i) \in R
    BY <1>1, <2>2 DEF Safe
  <2>5. <<>> \in Seq(X)
    OBVIOUS
  <2>6. /\ h \in Seq(Seq(X)) /\ Len(h) = c + 1 /\ h[c + 1] = <<>>
        /\ \A k \in 1..c : h[k] = j[k]
    BY <2>2, <2>4, <2>5
  <2>7. ASSUME NEW i \in 1..(c + 1), CanGoBack(h, i) PROVE GoBack(s, h, i) \in S
    <3>1. i \in 1..c /\ h[i] = j[i]
      <4>1. i # c + 1
        BY <2>6, <2>7 DEF CanGoBack, Idle
      <4>2. i \in 1..c
        BY <2>7, <4>1
      <4> QED
        BY <2>6, <4>2
    <3>2. CanGoBack(j, i)
      BY <2>4, <2>6, <2>7, <3>1 DEF CanGoBack, Idle
    <3>3. PICK g : g = GoBack(s, j, i) /\ g \in R
      BY <2>4, <3>1, <3>2
    <3>4. PICK v : v = RemoveAt(j[i], Len(j[i]))
      OBVIOUS
    <3>5. g[1] = Undo(s, j[i][Len(j[i])]) /\ g[2] = [j EXCEPT ![i] = v]
      BY <3>3, <3>4 DEF GoBack, Shortened
    <3>6. v \in Seq(X)
      <4>1. g[2] \in Seq(Seq(X))
        BY <1>1, <3>3 DEF Safe
      <4>2. i \in DOMAIN j /\ g[2][i] = v /\ DOMAIN g[2] = DOMAIN j
        BY <2>4, <3>1, <3>5
      <4>3. i \in 1..Len(g[2])
        BY <4>1, <4>2
      <4> QED
        BY <4>1, <4>2, <4>3
    <3>7. Shortened(h, i) = Append(g[2], <<>>)
      <4>1. Shortened(h, i) = [h EXCEPT ![i] = v]
        BY <3>1, <3>4 DEF Shortened
      <4>2. PICK Y, y : Y = Seq(X) /\ y = <<>>
        OBVIOUS
      <4>3. j \in Seq(Y) /\ i \in 1..Len(j) /\ v \in Y /\ y \in Y
        BY <2>4, <2>5, <3>1, <3>6, <4>2
      <4>4. [Append(j, y) EXCEPT ![i] = v] = Append([j EXCEPT ![i] = v], y)
        BY <4>3, AppendExcept
      <4> QED
        BY <2>2, <3>5, <4>1, <4>2, <4>4
    <3>8. GoBack(s, h, i) = <<g[1], Append(g[2], <<>>)>>
      BY <3>1, <3>5, <3>7 DEF GoBack
    <3> QED
      BY <3>3, <3>8
  <2> QED
    BY <2>3, <2>4, <2>6, <2>7
<1> QED
  BY <1>1, <1>2 DEF Safe

LEMMA BeginCommandKeeps ==
    ASSUME IInv, BeginCommand
    PROVE  IInv'
<1>1. PICK x \in Commands : /\ cmds' = Append(cmds, x) /\ prims' = Append(prims, <<>>)
                            /\ pc' = x.op \/ pc' = "rollback"
                            /\ pc = "command" /\ image' = image /\ stack' = stack
  BY DEF BeginCommand
<1>2. CommandsOK /\ Undoable /\ IdsOK
  BY <1>1 DEF IInv
<1>3. /\ cmds' \in Seq(Commands) /\ cmds' # <<>> /\ cur \in Nat /\ cur' = cur + 1
      /\ cmd' = x
  BY <1>1, <1>2 DEF CommandsOK, cur, cmd
<1>4. x.op \in {"add", "delete", "rename"}
  BY CommandsAssumption
<1>5. CommandsOK'
  BY <1>1, <1>3, <1>4 DEF CommandsOK, Adding
<1>6. PICK R, N : AtRest(R, N) /\ N = Nodes(image)
  BY <1>1, <1>2, RestIs DEF Adding
<1>7. PICK S : S = {<<e[1], Append(e[2], <<>>)>> : e \in R}
  OBVIOUS
<1>8. PICK c : c = cur
  OBVIOUS
<1>9. Safe(S, N, c + 1)
  BY <1>3, <1>6, <1>7, <1>8, Begun DEF AtRest
<1>10. <<image', prims'>> \in S
  <2>1. PICK e : e = <<image, prims>>
    OBVIOUS
  <2>2. e \in R /\ e[1] = image /\ e[2] = prims
    BY <1>6, <2>1 DEF AtRest
  <2> QED
    BY <1>1, <1>7, <2>2
<1>11. AtRest(S, N)'
  BY <1>1, <1>3, <1>6, <1>8, <1>9, <1>10 DEF AtRest
<1>12. Undoable' /\ AttachOK'
  BY <1>1, <1>4, <1>11, RestIsUndoable DEF Adding, AttachOK
<1>13. IdsOK'
  <2>1. ASSUME NEW n \in Nodes(image)
        PROVE  /\ n = <<n[1], n[2]>> /\ n[1] \in Int /\ -(c + 1) <= n[1] /\ n[1] <= c + 1
               /\ n[1] # c + 1 /\ n[1] # -(c + 1) /\ n[2] \in Seq(Names)
    BY <1>2, <1>3, <1>8 DEF IdsOK
  <2> QED
    BY <1>1, <1>3, <1>8, <2>1 DEF IdsOK
<1> QED
  BY <1>1, <1>4, <1>5, <1>12, <1>13 DEF IInv

LEMMA EndCommandKeeps ==
    ASSUME IInv, EndCommand
    PROVE  IInv'
<1>1. /\ pc = "end" /\ pc' \in {"command", "rollback"}
      /\ image' = image /\ prims' = prims /\ stack' = stack /\ cmds' = cmds
  BY DEF EndCommand
<1>2. CommandsOK /\ Undoable /\ IdsOK
  BY <1>1 DEF IInv
<1>3. Undoable'
  BY <1>1, <1>2, StillAtRest DEF Adding
<1>4. CommandsOK' /\ IdsOK' /\ AttachOK'
  BY <1>1, <1>2 DEF CommandsOK, Adding, IdsOK, cur, AttachOK
<1> QED
  BY <1>1, <1>3, <1>4 DEF IInv

LEMMA RollbackOneKeeps ==
    ASSUME IInv, RollbackOne
    PROVE  IInv'
<1>1. /\ pc = "rollback" /\ pc' = "rollback" /\ cmds' = cmds /\ stack' = stack
  BY DEF RollbackOne
<1>2. CommandsOK /\ Undoable /\ IdsOK
  BY <1>1 DEF IInv
<1>3. PICK R, N : AtRest(R, N) /\ N = Nodes(image)
  BY <1>1, <1>2, RestIs DEF Adding
<1>4. PICK i \in 1..cur : /\ prims[i] # <<>> /\ \A k \in (i + 1)..cur : prims[k] = <<>>
                          /\ image' = Undo(image, prims[i][Len(prims[i])])
                          /\ prims' = [prims EXCEPT ![i] = RemoveAt(@, Len(@))]
  BY DEF RollbackOne, NextToUndo
<1>5. PICK s, j, c : s = image /\ j = prims /\ c = cur
  OBVIOUS
<1>6. /\ <<s, j>> \in R /\ Safe(R, N, c)
  BY <1>3, <1>5 DEF AtRest
<1>7. Len(j) = c /\ (\A k \in 1..c : CanGoBack(j, k) => GoBack(s, j, k) \in R)
  <2>1. PICK e : e = <<s, j>>
    OBVIOUS
  <2>2. e[1] = s /\ e[2] = j /\ e \in R
    BY <1>6, <2>1
  <2> QED
    BY <1>6, <2>2 DEF Safe
<1>8. CanGoBack(j, i) /\ i \in 1..c
  BY <1>4, <1>5, <1>7 DEF CanGoBack, Idle
<1>9. <<image', prims'>> \in R
  BY <1>4, <1>5, <1>7, <1>8 DEF GoBack, Shortened
<1>10. Fits(image', N)
  <2>1. PICK e : e = <<image', prims'>>
    OBVIOUS
  <2> QED
    BY <1>6, <1>9, <2>1 DEF Safe
<1>11. AtRest(R, N)'
  BY <1>1, <1>3, <1>9, <1>10 DEF AtRest, cur
<1>12. Undoable'
  BY <1>1, <1>11, RestIsUndoable DEF Adding
<1>13. CommandsOK' /\ AttachOK'
  BY <1>1, <1>2 DEF CommandsOK, Adding, AttachOK
<1>14. IdsOK'
  BY <1>1, <1>2, <1>3, <1>10, IdsKept DEF Fits
<1> QED
  BY <1>1, <1>12, <1>13, <1>14 DEF IInv

-----------------------------------------------------------------------------
(* Trees that are freed.                                                   *)

LEMMA WithoutIs ==
    ASSUME NEW d, NEW r, NEW o, NEW K, NEW G, K = DOMAIN d \ G
    PROVE  Without(State(d, r, o), G) = State(Part(d, K), r, o)
<1>1. PICK s : s = State(d, r, o)
  OBVIOUS
<1>2. s.dentries = d
  BY <1>1 DEF State
<1>3. PICK e : e = Part(d, K)
  OBVIOUS
<1>4. e = [n \in DOMAIN s.dentries \ G |-> s.dentries[n]]
  BY <1>2, <1>3 DEF Part
<1>5. Without(s, G) = [s EXCEPT !.dentries = e]
  BY <1>4 DEF Without
<1>6. [s EXCEPT !.dentries = e] = State(e, r, o)
  BY <1>1 DEF State
<1> QED
  BY <1>1, <1>3, <1>5, <1>6

LEMMA FreeOrphansIs ==
    ASSUME NEW s, NEW N, Fits(s, N)
    PROVE  \E K : /\ Fits(FreeOrphans(s), K) /\ FreeOrphans(s).orphans = {}
<1>1. PICK d, r, o : d = s.dentries /\ r = s.root /\ o = s.orphans
  OBVIOUS
<1>2. s = State(d, r, o)
  BY <1>1, StateIs
<1>3. /\ Forest(d) /\ DOMAIN d = N /\ Nodes(s) = N
      /\ r # None => r \in N /\ d[r].dir
      /\ o \subseteq N /\ r \notin o
      /\ \A m \in N : d[m].parent = m <=> m = r \/ m \in o
  BY <1>1 DEF Fits, Nodes
<1>4. PICK G, K : G = UNION {Subtree(s, n) : n \in o} /\ K = N \ G
  OBVIOUS
<1>5. Rooted(d)
  BY <1>3, ForestRooted
<1>6. \A n \in o : n \in Subtree(s, n) /\ Subtree(s, n) \subseteq N
                   /\ Closed(d, N \ Subtree(s, n))
  BY <1>1, <1>3, <1>5, SubtreeIs
<1>7. o \subseteq G
  BY <1>4, <1>6
<1>8. Closed(d, K)
  <2>1. ASSUME NEW n \in K PROVE d[n].parent \in K
    <3>1. \A m \in o : n \in N \ Subtree(s, m)
      BY <1>4, <2>1
    <3>2. \A m \in o : d[n].parent \in N \ Subtree(s, m)
      BY <1>6, <3>1 DEF Closed
    <3>3. d[n].parent \in N
      BY <1>3, <1>4, <2>1 DEF Forest, Dentries
    <3> QED
      BY <1>4, <3>2, <3>3
  <2> QED
    BY <1>3, <1>4, <2>1 DEF Closed
<1>9. r # None => r \in K
  <2> SUFFICES ASSUME r # None PROVE r \in K
    OBVIOUS
  <2>1. Closed(d, {r})
    BY <1>3 DEF Closed
  <2>2. ASSUME NEW n \in o PROVE r \notin Subtree(s, n)
    <3>1. n \notin {r}
      BY <1>3
    <3>2. n \in Nodes(s) /\ Rooted(s.dentries) /\ Closed(s.dentries, {r})
      BY <1>1, <1>3, <1>5, <2>1
    <3>3. PICK L : L = {r}
      OBVIOUS
    <3>4. Subtree(s, n) \cap L = {}
      BY <3>1, <3>2, <3>3, SubtreeIs
    <3> QED
      BY <3>3, <3>4
  <2> QED
    BY <1>3, <1>4, <2>2
<1>10. PICK e : e = Part(d, K)
  OBVIOUS
<1>11. Forest(e) /\ DOMAIN e = K /\ \A n \in K : e[n] = d[n]
  BY <1>3, <1>8, <1>10, PartForest
<1>12. Without(s, G) = State(e, r, o)
  BY <1>2, <1>3, <1>4, <1>10, WithoutIs
<1>13. FreeOrphans(s) = State(e, r, {})
  <2>1. PICK t : t = State(e, r, o)
    OBVIOUS
  <2>2. [t EXCEPT !.orphans = {}] = State(e, r, {})
    BY <2>1 DEF State
  <2> QED
    BY <1>1, <1>4, <1>12, <2>1, <2>2 DEF FreeOrphans
<1>14. Fits(State(e, r, {}), K)
  <2>1. \A m \in K : e[m].parent = m <=> m = r
    BY <1>3, <1>4, <1>7, <1>11
  <2>2. r # None => e[r].dir
    BY <1>3, <1>9, <1>11
  <2> QED
    BY <1>9, <1>11, <2>1, <2>2 DEF Fits, State, Nodes
<1> QED
  BY <1>13, <1>14 DEF State

LEMMA CommitKeeps ==
    ASSUME IInv, Commit \/ RollbackDone
    PROVE  IInv'
<1>1. /\ pc \in {"command", "rollback"} /\ pc' \in {"ok", "error"}
      /\ cmds' = cmds /\ stack' = stack /\ image' = FreeOrphans(image)
  BY DEF Commit, RollbackDone
<1>2. CommandsOK /\ Undoable
  BY <1>1 DEF IInv
<1>3. PICK R, N : AtRest(R, N)
  BY <1>1, <1>2, RestIs DEF Adding
<1>4. PICK s : s = image /\ Fits(s, N)
  BY <1>3 DEF AtRest
<1>5. PICK K : Fits(FreeOrphans(s), K) /\ FreeOrphans(s).orphans = {}
  BY <1>4, FreeOrphansIs
<1>6. Settled'
  BY <1>1, <1>3, <1>4, <1>5 DEF Settled, Fits, AtRest
<1>7. CommandsOK'
  BY <1>1, <1>2 DEF CommandsOK, Adding
<1> QED
  BY <1>1, <1>6, <1>7 DEF IInv

-----------------------------------------------------------------------------
(* A tree that is made from a list of paths.                               *)

LEMMA GoingUpIsAcyclic ==
    ASSUME NEW d,
           \A n \in DOMAIN d : /\ Len(n[2]) \in Nat
                               /\ d[n].parent = n \/ Len(d[n].parent[2]) < Len(n[2])
    PROVE  Acyclic(d)
<1> SUFFICES ASSUME NEW X \in SUBSET DOMAIN d, X # {}
             PROVE  \E n \in X : d[n].parent = n \/ d[n].parent \notin X
  BY DEF Acyclic
<1>1. PICK T : T = {Len(n[2]) : n \in X}
  OBVIOUS
<1>2. T \subseteq Nat /\ T # {}
  BY <1>1
<1>3. PICK k \in T : \A y \in T : k <= y
  BY <1>2, LeastOf
<1>4. PICK n \in X : k = Len(n[2])
  BY <1>1, <1>3
<1>5. d[n].parent \in X => k <= Len(d[n].parent[2]) /\ Len(d[n].parent[2]) \in Nat
  BY <1>1, <1>3
<1>6. k \in Nat
  BY <1>2
<1> QED
  BY <1>4, <1>5, <1>6

IsGrown(d, i, dirs) ==
    /\ Forest(d) /\ BranchOK(d, i) /\ Roots(d) \subseteq {<<i, <<>>>>}
    /\ DOMAIN d = {<<i, p>> : p \in DOMAIN dirs}
    /\ \A p \in DOMAIN dirs : d[<<i, p>>].dir = dirs[p]
    /\ <<>> \in DOMAIN dirs => Roots(d) = {<<i, <<>>>>}

LEMMA GrownIs ==
    ASSUME NEW i, NEW dirs, IsTree(dirs), NEW x \in BOOLEAN, NEW d, d = Grown(i, dirs, x)
    PROVE  IsGrown(d, i, dirs)
<1>1. DOMAIN d = {<<i, p>> : p \in DOMAIN dirs}
  BY DEF Grown
<1>2. ASSUME NEW p \in DOMAIN dirs
      PROVE  /\ <<i, p>> \in DOMAIN d
             /\ d[<<i, p>>].name = NameOf(p) /\ d[<<i, p>>].short = x /\ d[<<i, p>>].dir = dirs[p]
             /\ d[<<i, p>>].parent = IF p = <<>> THEN <<i, p>> ELSE <<i, Front(p)>>
             /\ d[<<i, p>>] = [name |-> NameOf(p), short |-> x, dir |-> dirs[p],
                               parent |-> IF p = <<>> THEN <<i, p>> ELSE <<i, Front(p)>>]
             /\ p \in Seq(Names) /\ Len(p) \in Nat /\ dirs[p] \in BOOLEAN /\ NameOf(p) \in Labels
             /\ p # <<>> => /\ Front(p) \in DOMAIN dirs /\ dirs[Front(p)]
                            /\ Len(Front(p)) = Len(p) - 1 /\ Len(p) > 0
                            /\ p = Append(Front(p), NameOf(p))
  <2>1. PICK n : n = <<i, p>>
    OBVIOUS
  <2>2. n \in DOMAIN d /\ n[2] = p
    BY <1>1, <2>1
  <2>3. d[n] = [name |-> NameOf(n[2]), short |-> x, dir |-> dirs[n[2]],
                parent |-> IF n[2] = <<>> THEN n ELSE <<i, Front(n[2])>>]
    BY <1>1, <2>2 DEF Grown
  <2>4. d[n] = [name |-> NameOf(p), short |-> x, dir |-> dirs[p],
                parent |-> IF p = <<>> THEN n ELSE <<i, Front(p)>>]
    BY <2>2, <2>3
  <2>5. /\ d[n].name = NameOf(p) /\ d[n].short = x /\ d[n].dir = dirs[p]
        /\ d[n].parent = IF p = <<>> THEN n ELSE <<i, Front(p)>>
    BY <2>4
  <2>6. /\ p \in Seq(Names) /\ Len(p) \in Nat /\ dirs[p] \in BOOLEAN
        /\ p # <<>> => Front(p) \in DOMAIN dirs /\ dirs[Front(p)]
    BY DEF IsTree
  <2>7. ASSUME p # <<>>
        PROVE  /\ Len(Front(p)) = Len(p) - 1 /\ Len(p) > 0 /\ NameOf(p) \in Names
               /\ p = Append(Front(p), NameOf(p))
    BY <2>6, <2>7, PathIs DEF NameOf
  <2>8. NameOf(p) \in Labels
    <3>1. CASE p = <<>>
      <4>1. NameOf(p) = Unnamed
        BY <3>1 DEF NameOf
      <4> QED
        BY <4>1 DEF Labels
    <3>2. CASE p # <<>>
      BY <2>7, <3>2 DEF Labels
    <3> QED
      BY <3>1, <3>2
  <2> QED
    BY <2>1, <2>2, <2>4, <2>5, <2>6, <2>7, <2>8
<1>3. \A n \in DOMAIN d : \E p \in DOMAIN dirs : n = <<i, p>> /\ n[2] = p /\ n[1] = i
  BY <1>1
<1>4. d \in Dentries(DOMAIN d)
  <2>1. ASSUME NEW n \in DOMAIN d
        PROVE  d[n] \in [name : Labels, short : BOOLEAN, dir : BOOLEAN, parent : DOMAIN d]
    <3>1. PICK p \in DOMAIN dirs : n = <<i, p>>
      BY <1>3
    <3>2. PICK y : y = IF p = <<>> THEN <<i, p>> ELSE <<i, Front(p)>>
      OBVIOUS
    <3>3. y \in DOMAIN d
      BY <1>2, <3>2
    <3>4. d[n] = [name |-> NameOf(p), short |-> x, dir |-> dirs[p], parent |-> y]
      BY <1>2, <3>1, <3>2
    <3>5. NameOf(p) \in Labels /\ dirs[p] \in BOOLEAN
      BY <1>2
    <3> QED
      BY <3>3, <3>4, <3>5
  <2>2. d = [n \in DOMAIN d |-> d[n]]
    BY DEF Grown
  <2> QED
    BY <2>1, <2>2 DEF Dentries
<1>5. None \notin DOMAIN d
  <2> SUFFICES ASSUME None \in DOMAIN d PROVE FALSE
    OBVIOUS
  <2>1. PICK p \in DOMAIN dirs : None = <<i, p>>
    BY <1>3
  <2>2. p = <<Unnamed>>
    <3>1. PICK e : e = None
      OBVIOUS
    <3>2. e[2] = <<Unnamed>>
      BY <3>1 DEF None
    <3>3. e[2] = p
      BY <2>1, <3>1
    <3> QED
      BY <3>2, <3>3
  <2>3. p \in Seq(Names)
    BY <1>2
  <2>4. p # <<>> /\ Last(p) = Unnamed
    BY <2>2 DEF Last
  <2>5. Last(p) \in Names
    BY <2>3, <2>4, PathIs
  <2> QED
    BY <2>4, <2>5, NamesAssumption
<1>6. Acyclic(d)
  <2>1. ASSUME NEW n \in DOMAIN d
        PROVE  Len(n[2]) \in Nat /\ (d[n].parent = n \/ Len(d[n].parent[2]) < Len(n[2]))
    <3>1. PICK p \in DOMAIN dirs : n = <<i, p>> /\ n[2] = p
      BY <1>3
    <3>2. CASE p = <<>>
      BY <1>2, <3>1, <3>2
    <3>3. CASE p # <<>>
      <4>1. PICK y : y = <<i, Front(p)>>
        OBVIOUS
      <4>2. d[n].parent = y /\ y[2] = Front(p)
        BY <1>2, <3>1, <3>3, <4>1
      <4>3. Len(Front(p)) = Len(p) - 1 /\ Len(p) \in Nat
        BY <1>2, <3>3
      <4>4. Len(Front(p)) < Len(p)
        BY <4>3
      <4> QED
        BY <3>1, <4>2, <4>3, <4>4
    <3> QED
      BY <3>2, <3>3
  <2> QED
    BY <2>1, GoingUpIsAcyclic
<1>7. ASSUME NEW n \in DOMAIN d, d[n].parent # n
      PROVE  \E p \in DOMAIN dirs : /\ n = <<i, p>> /\ p # <<>> /\ d[n].parent = <<i, Front(p)>>
                                    /\ d[<<i, Front(p)>>].dir /\ d[n].name = NameOf(p)
                                    /\ p = Append(Front(p), NameOf(p))
  <2>1. PICK p \in DOMAIN dirs : n = <<i, p>>
    BY <1>3
  <2>2. p # <<>>
    BY <1>2, <1>7, <2>1
  <2>3. Front(p) \in DOMAIN dirs /\ d[<<i, Front(p)>>].dir
    BY <1>2, <2>2
  <2> QED
    BY <1>2, <2>1, <2>2, <2>3
<1>8. ASSUME NEW n \in DOMAIN d, NEW m \in DOMAIN d, d[n].parent # n, d[m].parent # m,
             d[m].parent = d[n].parent, d[m].name = d[n].name
      PROVE  m = n
  <2>1. PICK p \in DOMAIN dirs : /\ n = <<i, p>> /\ d[n].parent = <<i, Front(p)>>
                                 /\ d[n].name = NameOf(p) /\ p = Append(Front(p), NameOf(p))
    BY <1>7, <1>8
  <2>2. PICK q \in DOMAIN dirs : /\ m = <<i, q>> /\ d[m].parent = <<i, Front(q)>>
                                 /\ d[m].name = NameOf(q) /\ q = Append(Front(q), NameOf(q))
    BY <1>7, <1>8
  <2>3. Front(p) = Front(q) /\ NameOf(p) = NameOf(q)
    <3>1. PICK y, z : y = <<i, Front(p)>> /\ z = <<i, Front(q)>>
      OBVIOUS
    <3>2. y[2] = Front(p) /\ z[2] = Front(q)
      BY <3>1
    <3>3. y = z
      BY <1>8, <2>1, <2>2, <3>1
    <3> QED
      BY <1>8, <2>1, <2>2, <3>2, <3>3
  <2>4. Append(Front(p), NameOf(p)) = Append(Front(q), NameOf(q))
    BY <2>3
  <2>5. p = q
    BY <2>1, <2>2, <2>4
  <2> QED
    BY <2>1, <2>2, <2>5
<1>9. Forest(d)
  BY <1>4, <1>5, <1>6, <1>7, <1>8 DEF Forest
<1>10. ASSUME NEW n \in DOMAIN d
       PROVE  /\ n = <<i, n[2]>> /\ n[2] \in Seq(Names)
              /\ n # <<i, <<>>>> => <<i, Front(n[2])>> \in DOMAIN d
              /\ n \notin Roots(d) => n # <<i, <<>>>> /\ d[n].parent = <<i, Front(n[2])>>
              /\ n \in Roots(d) => n = <<i, <<>>>>
  <2>1. PICK p \in DOMAIN dirs : n = <<i, p>> /\ n[2] = p
    BY <1>3
  <2>2. p # <<>> => <<i, Front(p)>> \in DOMAIN d /\ <<i, Front(p)>> # <<i, p>>
    <3> SUFFICES ASSUME p # <<>>
                 PROVE  <<i, Front(p)>> \in DOMAIN d /\ <<i, Front(p)>> # <<i, p>>
      OBVIOUS
    <3>1. Front(p) \in DOMAIN dirs /\ Len(Front(p)) = Len(p) - 1 /\ Len(p) \in Nat
      BY <1>2
    <3>2. Front(p) # p
      BY <3>1
    <3>3. PICK y, z : y = <<i, Front(p)>> /\ z = <<i, p>>
      OBVIOUS
    <3>4. y[2] = Front(p) /\ z[2] = p
      BY <3>3
    <3> QED
      BY <1>1, <3>1, <3>2, <3>3, <3>4
  <2>3. n \in Roots(d) <=> p = <<>>
    <3>1. d[n].parent = IF p = <<>> THEN <<i, p>> ELSE <<i, Front(p)>>
      BY <1>2, <2>1
    <3> QED
      BY <2>1, <2>2, <3>1 DEF Roots
  <2> QED
    BY <1>2, <2>1, <2>2, <2>3
<1>11. BranchOK(d, i)
  BY <1>9, <1>10 DEF BranchOK
<1>12. Roots(d) \subseteq {<<i, <<>>>>}
  BY <1>10 DEF Roots
<1>13. <<>> \in DOMAIN dirs => <<i, <<>>>> \in Roots(d)
  BY <1>2 DEF Roots
<1>14. <<>> \in DOMAIN dirs => Roots(d) = {<<i, <<>>>>}
  BY <1>12, <1>13
<1>15. \A p \in DOMAIN dirs : d[<<i, p>>].dir = dirs[p]
  BY <1>2
<1> QED
  BY <1>1, <1>9, <1>11, <1>12, <1>14, <1>15 DEF IsGrown

LEMMA InitHolds ==
    ASSUME Init
    PROVE  IInv
<1>1. PICK img \in Images :
          image = [dentries |-> Grown(0, DirsOf(img), TRUE),
                   root |-> IF img = <<>> THEN None ELSE <<0, <<>>>>, orphans |-> {}]
  BY DEF Init
<1>2. pc = "command" /\ cmds = <<>> /\ prims = <<>> /\ stack = <<>>
  BY DEF Init
<1>3. PICK dirs, d, r : /\ dirs = DirsOf(img) /\ d = Grown(0, dirs, TRUE)
                        /\ r = IF img = <<>> THEN None ELSE <<0, <<>>>>
  OBVIOUS
<1>4. image = State(d, r, {})
  BY <1>1, <1>3 DEF State
<1>5. /\ IsTree(dirs) /\ DOMAIN dirs = DOMAIN img
      /\ img # <<>> => <<>> \in DOMAIN dirs /\ dirs[<<>>]
  BY <1>3, ImagesAssumption DEF DirsOf
<1>6. /\ Forest(d) /\ Roots(d) \subseteq {<<0, <<>>>>}
      /\ DOMAIN d = {<<0, p>> : p \in DOMAIN dirs}
      /\ \A p \in DOMAIN dirs : d[<<0, p>>].dir = dirs[p]
      /\ <<>> \in DOMAIN dirs => Roots(d) = {<<0, <<>>>>}
  <2>1. PICK y \in BOOLEAN : y = TRUE
    OBVIOUS
  <2>2. d = Grown(0, dirs, y)
    BY <1>3, <2>1
  <2>3. IsGrown(d, 0, dirs)
    BY <1>5, <2>2, GrownIs
  <2> QED
    BY <2>3 DEF IsGrown
<1>7. img = <<>> => DOMAIN d = {}
  BY <1>5, <1>6
<1>8. r # None => r \in DOMAIN d /\ d[r].dir /\ Roots(d) = {r}
  BY <1>3, <1>5, <1>6
<1>9. \A n \in DOMAIN d : d[n].parent = n <=> n = r
  <2>1. CASE img = <<>>
    BY <1>7, <2>1
  <2>2. CASE img # <<>>
    <3>1. r = <<0, <<>>>> /\ Roots(d) = {r}
      BY <1>3, <1>5, <1>6, <2>2
    <3> QED
      BY <3>1 DEF Roots
  <2> QED
    BY <2>1, <2>2
<1>10. PICK N, R, j : N = DOMAIN d /\ j = <<>> /\ R = {<<image, j>>}
  OBVIOUS
<1>11. Fits(image, N)
  BY <1>4, <1>6, <1>8, <1>9, <1>10 DEF Fits, State, Nodes
<1>12. Safe(R, N, 0)
  <2>1. ASSUME NEW e \in R
        PROVE  e = <<e[1], e[2]>> /\ e[1] = image /\ e[2] = j
    BY <1>10, <2>1
  <2>2. PICK X : X = Prims(N)
    OBVIOUS
  <2>3. j \in Seq(Seq(X)) /\ Len(j) = 0
    BY <1>10
  <2>4. 1..0 = {}
    OBVIOUS
  <2> QED
    BY <1>11, <2>1, <2>2, <2>3, <2>4 DEF Safe
<1>13. PICK P : P = [n \in {} |-> n]
  OBVIOUS
<1>14. Forest(P) /\ DOMAIN P = {} /\ Roots(P) = {} /\ BranchOK(P, 0)
  BY <1>13, EmptyForest
<1>15. image = With(image, P)
  BY <1>11, <1>14, WithNothing
<1>16. BranchRoots = {} /\ cur = 0 /\ StackOK(N, P)
  BY <1>2 DEF BranchRoots, Adding, cur, StackOK
<1>17. UndoableWith(image, R, N, P)
  BY <1>2, <1>10, <1>12, <1>14, <1>15, <1>16 DEF UndoableWith
<1>18. Undoable
  BY <1>17 DEF Undoable
<1>19. IdsOK
  <2>1. Nodes(image) = DOMAIN d
    BY <1>4 DEF Nodes, State
  <2>2. ASSUME NEW n \in DOMAIN d PROVE n = <<n[1], n[2]>> /\ n[1] = 0 /\ n[2] \in Seq(Names)
    BY <1>5, <1>6 DEF IsTree
  <2> QED
    BY <1>2, <1>16, <2>1, <2>2 DEF IdsOK
<1>20. CommandsOK /\ AttachOK
  BY <1>2 DEF CommandsOK, AttachOK, Adding
<1> QED
  BY <1>2, <1>18, <1>19, <1>20 DEF IInv

LEMMA ScanKeeps ==
    ASSUME IInv, Scan
    PROVE  IInv'
<1>1. pc = "add" /\ cmds' = cmds /\ stack' = stack /\ prims' = prims
  BY DEF Scan
<1>2. CommandsOK /\ Undoable /\ IdsOK
  BY <1>1 DEF IInv
<1>3. CASE pc' \in {"rollback", "end"} /\ image' = image
  <2>1. Undoable'
    BY <1>1, <1>2, <1>3, StillAtRest DEF Adding
  <2>2. CommandsOK' /\ IdsOK' /\ AttachOK'
    BY <1>1, <1>2, <1>3 DEF CommandsOK, Adding, IdsOK, cur, AttachOK
  <2> QED
    BY <1>1, <1>3, <2>1, <2>2 DEF IInv
<1>4. CASE /\ cmd.tree # <<>> /\ ~RootIsFile /\ pc' = "attach"
           /\ image' = With(image,
                [Grown(cur, cmd.tree, FALSE) EXCEPT ![Branch].name = NameOf(cmd.path)])
  <2>1. PICK R, N : AtRest(R, N) /\ N = Nodes(image)
    BY <1>1, <1>2, RestIs DEF Adding
  <2>2. /\ cur \in Nat /\ cur # 0 /\ cmd \in Commands /\ cmd.op = "add"
        /\ cmd.path \in Seq(Names) /\ IsTree(cmd.tree)
    BY <1>1, <1>2, CommandIs
  <2>3. PICK c, dirs, p, d, b, x, P :
            /\ c = cur /\ dirs = cmd.tree /\ p = cmd.path /\ d = Grown(c, dirs, FALSE)
            /\ b = <<c, <<>>>> /\ x = NameOf(p) /\ P = Relabel(d, b, x)
    OBVIOUS
  <2>4. image' = With(image, P) /\ b = Branch
    BY <1>4, <2>3 DEF Relabel, Branch
  <2>5. <<>> \in DOMAIN dirs /\ IsTree(dirs)
    BY <1>4, <2>2, <2>3 DEF IsTree
  <2>6. /\ Forest(d) /\ BranchOK(d, c) /\ Roots(d) = {b}
        /\ DOMAIN d = {<<c, q>> : q \in DOMAIN dirs}
        /\ \A q \in DOMAIN dirs : d[<<c, q>>].dir = dirs[q]
    <3>1. PICK y \in BOOLEAN : y = FALSE
      OBVIOUS
    <3>2. d = Grown(c, dirs, y)
      BY <2>3, <3>1
    <3>3. IsGrown(d, c, dirs)
      BY <2>5, <3>2, GrownIs
    <3> QED
      BY <2>3, <2>5, <3>3 DEF IsGrown
  <2>7. b \in DOMAIN d /\ d[b].parent = b
    BY <2>6 DEF Roots
  <2>8. x \in Labels
    BY <2>2, <2>3, PathIs DEF NameOf, Labels
  <2>9. /\ DOMAIN P = DOMAIN d /\ P[b].name = x /\ P[b].parent = b /\ P[b].dir = d[b].dir
        /\ \A m \in DOMAIN d : m # b => P[m] = d[m]
    <3>1. d \in Dentries(DOMAIN d)
      BY <2>6 DEF Forest
    <3>2. PICK X : X = DOMAIN d
      OBVIOUS
    <3>3. d \in Dentries(X) /\ b \in X
      BY <2>7, <3>1, <3>2
    <3>4. /\ DOMAIN Relabel(d, b, x) = X /\ Relabel(d, b, x)[b].name = x
          /\ Relabel(d, b, x)[b].parent = d[b].parent /\ Relabel(d, b, x)[b].dir = d[b].dir
          /\ \A m \in X : m # b => Relabel(d, b, x)[m] = d[m]
      BY <2>8, <3>3, RelabelIs
    <3> QED
      BY <2>3, <2>7, <3>2, <3>4
  <2>10. Forest(P)
    BY <2>3, <2>6, <2>7, <2>8, RelabelRoot
  <2>11. Roots(P) = {b}
    BY <2>6, <2>9 DEF Roots
  <2>12. BranchOK(P, c)
    <3>1. ASSUME NEW n \in DOMAIN P
          PROVE  /\ n = <<c, n[2]>> /\ n[2] \in Seq(Names)
                 /\ n # <<c, <<>>>> => <<c, Front(n[2])>> \in DOMAIN P
                 /\ n \notin Roots(P) => n # <<c, <<>>>> /\ P[n].parent = <<c, Front(n[2])>>
      BY <2>6, <2>9, <2>11 DEF BranchOK
    <3> QED
      BY <2>10, <3>1 DEF BranchOK
  <2>13. N \cap DOMAIN P = {}
    <3>1. \A n \in N : n[1] # c
      BY <1>1, <1>2, <2>1, <2>3 DEF IdsOK
    <3>2. \A n \in DOMAIN P : n[1] = c
      BY <2>6, <2>9
    <3> QED
      BY <3>1, <3>2
  <2>14. stack = <<>> /\ Fits(image, N) /\ <<image, prims>> \in R /\ Safe(R, N, c)
    BY <2>1, <2>3 DEF AtRest
  <2>15. cur' = c /\ cmd' = cmd /\ Branch' = b
    BY <1>1, <2>3 DEF cur, cmd, Branch
  <2>16. BranchRoots' = {b} /\ StackOK(N, P)'
    BY <1>1, <1>4, <2>14, <2>15 DEF BranchRoots, Adding, StackOK
  <2>17. PICK s : s = image
    OBVIOUS
  <2>18. UndoableWith(s, R, N, P)'
    BY <1>1, <2>4, <2>11, <2>12, <2>13, <2>14, <2>15, <2>16, <2>17 DEF UndoableWith
  <2>19. Undoable'
    BY <2>18 DEF Undoable
  <2>20. /\ Nodes(image') = N \cup DOMAIN P
         /\ \A n \in DOMAIN P : image'.dentries[n] = P[n]
    BY <2>4, <2>10, <2>13, <2>14, WithIs
  <2>21. IdsOK'
    <3>1. ASSUME NEW n \in N
          PROVE  /\ n = <<n[1], n[2]>> /\ n[1] \in Int /\ -c <= n[1] /\ n[1] <= c
                 /\ n[2] \in Seq(Names)
      BY <1>2, <2>1, <2>3 DEF IdsOK
    <3>2. ASSUME NEW n \in DOMAIN P
          PROVE  /\ n = <<n[1], n[2]>> /\ n[1] \in Int /\ -c <= n[1] /\ n[1] <= c
                 /\ n[2] \in Seq(Names)
      <4>1. n = <<c, n[2]>> /\ c \in Nat /\ n[2] \in Seq(Names)
        BY <2>2, <2>3, <2>12, <3>2 DEF BranchOK
      <4>2. n[1] = c
        BY <4>1
      <4> QED
        BY <4>1, <4>2
    <3> QED
      BY <1>4, <2>15, <2>20, <3>1, <3>2 DEF IdsOK
  <2>22. AttachOK'
    <3>1. p = <<>> => P[b].dir
      BY <1>4, <2>3, <2>5, <2>6, <2>9 DEF RootIsFile
    <3>2. \A n \in N \cup DOMAIN P : n[1] # -c
      <4>1. \A n \in N : n[1] # -c
        BY <1>1, <1>2, <2>1, <2>3 DEF IdsOK
      <4>2. \A n \in DOMAIN P : n[1] = c
        BY <2>6, <2>9
      <4>3. c # -c
        BY <2>2, <2>3
      <4> QED
        BY <4>1, <4>2, <4>3
    <3>3. image'.dentries[b] = P[b]
      BY <2>7, <2>9, <2>20
    <3>4. /\ cmd'.path = p /\ x = NameOf(p) /\ cur' = c /\ Branch' = b
          /\ Nodes(image') = N \cup DOMAIN P
      BY <2>3, <2>15, <2>20
    <3>5. P[b].name = x
      BY <2>9
    <3> QED
      BY <3>1, <3>2, <3>3, <3>4, <3>5 DEF AttachOK
  <2>23. CommandsOK'
    BY <1>1, <1>2, <1>4, <2>2, <2>15 DEF CommandsOK, Adding
  <2> QED
    BY <1>4, <2>19, <2>21, <2>22, <2>23 DEF IInv
<1> QED
  BY <1>3, <1>4 DEF Scan

-----------------------------------------------------------------------------
(* rename_wim_path                                                         *)

LEMMA RootIsBusy ==
    ASSUME NEW s, NEW N, Fits(s, N), NEW p \in Seq(Names), p # <<>>, Get(s, p) # None
    PROVE  Children(s, s.root) # {}
<1> DEFINE T == {k \in Nat : \A q \in Seq(Names) :
                    Len(q) = k + 1 /\ Get(s, q) # None => Children(s, s.root) # {}}
<1>1. 0 \in T
  <2> SUFFICES ASSUME NEW q \in Seq(Names), Len(q) = 0 + 1, Get(s, q) # None
               PROVE  Children(s, s.root) # {}
    OBVIOUS
  <2>1. q # <<>> /\ Front(q) \in Seq(Names) /\ Len(Front(q)) = 0
    <3>1. q # <<>>
      <4>1. ASSUME NEW k \in Nat, Len(q) = k + 1 PROVE q # <<>>
        BY <4>1
      <4> QED
        BY <4>1
    <3>2. Front(q) \in Seq(Names) /\ Len(Front(q)) = Len(q) - 1
      BY <3>1, PathIs
    <3> QED
      BY <3>1, <3>2
  <2>2. Front(q) = <<>>
    BY <2>1
  <2>3. /\ Get(s, q) \in N /\ s.dentries[Get(s, q)].parent = Get(s, <<>>)
        /\ Get(s, q) # Get(s, <<>>)
    BY <2>1, <2>2, GetInImage
  <2>4. Get(s, <<>>) = s.root
    BY <2>1, <2>2, GetUnfold
  <2> QED
    BY <2>3, <2>4 DEF Children, Fits, Nodes
<1>2. ASSUME NEW k \in Nat, k \in T PROVE k + 1 \in T
  <2> SUFFICES ASSUME NEW q \in Seq(Names), Len(q) = (k + 1) + 1, Get(s, q) # None
               PROVE  Children(s, s.root) # {}
    OBVIOUS
  <2>1. q # <<>> /\ Front(q) \in Seq(Names) /\ Len(Front(q)) = k + 1
    <3>1. q # <<>>
      OBVIOUS
    <3> QED
      BY <3>1, PathIs
  <2>2. Get(s, Front(q)) # None
    BY <2>1, GetInImage
  <2> QED
    BY <1>2, <2>1, <2>2
<1> HIDE DEF T
<1>3. \A k \in Nat : k \in T
  BY <1>1, <1>2, NatSetInduction
<1>4. Len(p) - 1 \in Nat /\ Len(p) = (Len(p) - 1) + 1
  BY PathIs
<1> QED
  BY <1>3, <1>4 DEF T

LEMMA RenameTail ==
    ASSUME NEW w, NEW N, NEW qs, NEW s, Walk(w, qs, N, s), Fits(s, N),
           NEW src \in N, src \notin s.orphans, NEW K, Closed(s.dentries, K), NEW par \in K,
           src \notin K, s.dentries[par].dir, NEW x \in Labels, Named(s, par, x) \subseteq {src},
           NEW q1, q1 = UnlinkPrim(s, src), NEW q2, q2 = NamePrim(s, src, x),
           NEW q3, q3 = ShortNamePrim(s, src), NEW q4, q4 = LinkPrim(src, par)
    PROVE  \E t : Walk(w, Append(Append(Append(Append(qs, q1), q2), q3), q4), N, t)
<1>1. PICK d, r, o, o2 : d = s.dentries /\ r = s.root /\ o = s.orphans /\ o2 = o \cup {src}
  OBVIOUS
<1>2. d \in Dentries(N) /\ DOMAIN d = N /\ K \subseteq N
  BY <1>1 DEF Fits, Forest, Nodes, Closed
<1>3. PICK r2 : r2 = IF src = s.root THEN None ELSE s.root
  OBVIOUS
<1>4. PICK d2, d3 : d2 = Move(d, src, src) /\ d3 = Relabel(d2, src, x)
  OBVIOUS
<1>5. PICK s2 : s2 = Do(s, q1)
  OBVIOUS
<1>6. Steps(s, q1, N) /\ s2 = State(d2, r2, o2)
  BY <1>1, <1>3, <1>4, <1>5, DoUnlink
<1>7. /\ Fits(s2, N) /\ src \in s2.orphans /\ s2.dentries = d2 /\ s2.orphans = o2 /\ s2.root = r2
  BY <1>1, <1>5, <1>6 DEF Steps, State
<1>8. /\ d2 \in Dentries(N) /\ d2[src].parent = src /\ d2[src].name = d[src].name
      /\ d2[src].short = d[src].short /\ \A m \in N : m # src => d2[m] = d[m]
  <2>1. /\ Move(d, src, src) \in Dentries(N) /\ Move(d, src, src)[src].parent = src
        /\ Move(d, src, src)[src].name = d[src].name
        /\ Move(d, src, src)[src].short = d[src].short
        /\ \A m \in N : m # src => Move(d, src, src)[m] = d[m]
    BY <1>2, MoveIs
  <2> QED
    BY <1>4, <2>1
<1>9. q2 = [op |-> "name", subject |-> src, old |-> s2.dentries[src].name, new |-> x]
  BY <1>1, <1>7, <1>8 DEF NamePrim
<1>10. PICK s3 : s3 = Do(s2, q2)
  OBVIOUS
<1>11. Steps(s2, q2, N) /\ s3 = State(d3, r2, o2)
  BY <1>4, <1>7, <1>9, <1>10, DoName
<1>12. Fits(s3, N) /\ s3.dentries = d3 /\ s3.orphans = o2 /\ s3.root = r2
  BY <1>10, <1>11 DEF Steps, State
<1>13. /\ d3 \in Dentries(N) /\ d3[src].parent = src /\ d3[src].name = x
       /\ d3[src].short = d[src].short /\ \A m \in N : m # src => d3[m] = d[m]
  <2>1. d2 \in Dentries(N) /\ d3 = Relabel(d2, src, x)
    BY <1>4, <1>8
  <2>2. d3 \in Dentries(N)
    BY <2>1, RelabelIs
  <2>3. d3[src].parent = d2[src].parent /\ d3[src].name = x /\ d3[src].short = d2[src].short
    BY <2>1, RelabelIs
  <2>4. \A m \in N : m # src => d3[m] = d2[m]
    BY <2>1, RelabelIs
  <2> QED
    BY <1>8, <2>2, <2>3, <2>4
<1>14. q3 = [op |-> "short", subject |-> src, old |-> s3.dentries[src].short]
  BY <1>1, <1>12, <1>13 DEF ShortNamePrim
<1>15. PICK s4 : s4 = Do(s3, q3)
  OBVIOUS
<1>16. Steps(s3, q3, N) /\ \E y \in BOOLEAN : Do(s3, q3) = State(Reshort(d3, src, y), r2, o2)
  BY <1>12, <1>14, DoShort
<1>17. PICK y \in BOOLEAN : s4 = State(Reshort(d3, src, y), r2, o2)
  BY <1>15, <1>16
<1>18. PICK d4 : d4 = Reshort(d3, src, y)
  OBVIOUS
<1>19. Fits(s4, N) /\ s4.dentries = d4 /\ s4.orphans = o2 /\ src \in s4.orphans
  BY <1>1, <1>15, <1>16, <1>17, <1>18 DEF Steps, State
<1>20. /\ d4 \in Dentries(N) /\ d4[src].parent = src /\ d4[src].name = x
       /\ \A m \in N : m # src => d4[m] = d[m]
  BY <1>13, <1>18, ReshortIs
<1>21. DOMAIN d4 = N
  BY <1>20 DEF Dentries
<1>22. Closed(s4.dentries, K)
  BY <1>1, <1>2, <1>19, <1>20, <1>21 DEF Closed
<1>23. par \in N /\ s4.dentries[par].dir
  BY <1>1, <1>2, <1>19, <1>20
<1>24. Named(s4, par, s4.dentries[src].name) = {}
  <2> SUFFICES ASSUME NEW m \in Named(s4, par, x) PROVE FALSE
    BY <1>19, <1>20
  <2>1. m \in N /\ m # par /\ d4[m].parent = par /\ d4[m].name = x
    BY <1>19, <1>21 DEF Named, Children
  <2>2. m # src
    BY <1>20, <2>1
  <2>3. m \in Named(s, par, x)
    BY <1>1, <1>2, <1>20, <2>1, <2>2 DEF Named, Children
  <2> QED
    BY <2>2, <2>3
<1>25. Steps(s4, q4, N)
  BY <1>19, <1>22, <1>23, <1>24, DoLink
<1>26. Walk(w, Append(qs, q1), N, s2)
  BY <1>5, <1>6, WalkOn
<1>27. Walk(w, Append(Append(qs, q1), q2), N, s3)
  BY <1>10, <1>11, <1>26, WalkOn
<1>28. Walk(w, Append(Append(Append(qs, q1), q2), q3), N, s4)
  BY <1>15, <1>16, <1>27, WalkOn
<1>29. Walk(w, Append(Append(Append(Append(qs, q1), q2), q3), q4), N, Do(s4, q4))
  BY <1>25, <1>28, WalkOn
<1> QED
  BY <1>29

LEMMA RenameWalks ==
    ASSUME NEW s, NEW N, Fits(s, N), s = image, NEW from \in Seq(Names), NEW to \in Seq(Names),
           NEW src, src = Get(s, from), NEW dst, dst = Get(s, to), src # dst,
           NEW par, par = IF dst # None THEN s.dentries[dst].parent
                          ELSE IF to = <<>> THEN s.root ELSE Get(s, Front(to)),
           CanRename(src, dst, par)
    PROVE  \E t : Walk(s, RenamePrims(src, dst, par, NameOf(to)), N, t)
<1>1. PICK d, r, o, x : d = s.dentries /\ r = s.root /\ o = s.orphans /\ x = NameOf(to)
  OBVIOUS
<1>2. /\ Forest(d) /\ DOMAIN d = N /\ Nodes(s) = N /\ o \subseteq N /\ d \in Dentries(N)
  BY <1>1 DEF Fits, Nodes, Forest
<1>3. /\ src # None /\ par # None /\ d[par].dir /\ src \notin Ancestors(s)[par]
      /\ dst # None => Children(s, dst) = {}
  BY <1>1 DEF CanRename
<1>4. src \in N /\ src \notin o
  BY <1>1, <1>3, GetInImage
<1>5. dst # None => dst \in N /\ dst \notin o
  BY <1>1, GetInImage
<1>6. to # <<>>
  <2> SUFFICES ASSUME to = <<>> PROVE FALSE
    OBVIOUS
  <2>1. dst = r
    BY <1>1, GetUnfold
  <2>2. CASE dst = None
    BY <1>1, <1>3, <2>1, <2>2
  <2>3. CASE dst # None
    <3>1. from # <<>>
      BY <1>1, <2>1, GetUnfold
    <3>2. Children(s, s.root) # {}
      BY <1>3, <3>1, RootIsBusy
    <3> QED
      BY <1>1, <1>3, <2>1, <2>3, <3>2
  <2> QED
    BY <2>2, <2>3
<1>7. x = Last(to) /\ x \in Names /\ x \in Labels
  BY <1>1, <1>6, PathIs DEF NameOf, Labels
<1>8. par = Get(s, Front(to)) /\ Front(to) \in Seq(Names)
      /\ (dst # None => par # dst /\ d[dst].parent = par /\ d[dst].name = x)
  <2>1. CASE dst = None
    BY <1>6, <2>1, PathIs
  <2>2. CASE dst # None
    BY <1>1, <1>6, <1>7, <2>2, GetInImage, PathIs
  <2> QED
    BY <2>1, <2>2
<1>9. par \in N
  BY <1>3, <1>8, GetInImage
<1>10. \A m \in Named(s, par, x) : m = dst /\ dst # None
  <2>1. CASE dst = None
    <3>1. Child(s, par, x) = None
      BY <1>3, <1>6, <1>7, <1>8, <2>1, GetUnfold
    <3> QED
      BY <1>2, <3>1, ChildIs DEF Forest, Nodes, Fits
  <2>2. CASE dst # None
    <3> SUFFICES ASSUME NEW m \in Named(s, par, x) PROVE m = dst
      BY <2>2
    <3>1. m \in N /\ d[m].parent = par /\ d[m].name = x /\ m # par
      BY <1>1, <1>2 DEF Named, Children
    <3> QED
      BY <1>2, <1>5, <1>8, <2>2, <3>1 DEF Forest
  <2> QED
    BY <2>1, <2>2
<1>11. PICK K : K = Up(d, par)
  OBVIOUS
<1>12. Rooted(d)
  BY <1>2, ForestRooted
<1>13. Closed(d, K) /\ par \in K /\ src \notin K
  <2>1. Ancestors(s)[par] = K
    BY <1>1, <1>2, <1>9, <1>11, <1>12, AncestorsAre
  <2> QED
    BY <1>2, <1>3, <1>9, <1>11, <1>12, <2>1, UpIs
<1>14. PICK q0, q1, q2, q3, q4 :
           /\ q0 = UnlinkPrim(s, dst) /\ q1 = UnlinkPrim(s, src) /\ q2 = NamePrim(s, src, x)
           /\ q3 = ShortNamePrim(s, src) /\ q4 = LinkPrim(src, par)
  OBVIOUS
<1>15. CASE dst = None
  <2>1. Named(s, par, x) \subseteq {src}
    BY <1>10, <1>15
  <2>2. Closed(s.dentries, K) /\ par \in K /\ s.dentries[par].dir /\ src \notin s.orphans
    BY <1>1, <1>3, <1>4, <1>13
  <2>3. Walk(s, <<>>, N, s)
    BY WalkNowhere
  <2>4. \E t : Walk(s, Append(Append(Append(Append(<<>>, q1), q2), q3), q4), N, t)
    <3>1. ASSUME NEW qs, Walk(s, qs, N, s)
          PROVE  \E t : Walk(s, Append(Append(Append(Append(qs, q1), q2), q3), q4), N, t)
      BY <1>4, <1>7, <1>13, <1>14, <2>1, <2>2, <3>1, RenameTail
    <3> QED
      BY <2>3, <3>1
  <2>5. RenamePrims(src, dst, par, NameOf(to)) = Append(Append(Append(Append(<<>>, q1), q2), q3), q4)
    BY <1>1, <1>14, <1>15 DEF RenamePrims
  <2> QED
    BY <2>4, <2>5
<1>16. CASE dst # None
  <2>1. PICK s1, d1, r1, o1 : /\ s1 = Do(s, q0) /\ d1 = Move(d, dst, dst)
                              /\ r1 = (IF dst = s.root THEN None ELSE s.root) /\ o1 = o \cup {dst}
    OBVIOUS
  <2>2. Steps(s, q0, N) /\ s1 = State(d1, r1, o1)
    BY <1>1, <1>5, <1>14, <1>16, <2>1, DoUnlink
  <2>3. Fits(s1, N) /\ s1.dentries = d1 /\ s1.orphans = o1
    BY <2>1, <2>2 DEF Steps, State
  <2>4. /\ d1[dst].parent = dst /\ d1[dst].dir = d[dst].dir
        /\ \A m \in N : m # dst => d1[m] = d[m]
    BY <1>2, <1>5, <1>16, <2>1, MoveIs
  <2>5. src \notin o1
    BY <1>4, <2>1
  <2>6. DOMAIN d1 = N
    BY <2>3 DEF Fits, Nodes
  <2>7. Closed(d1, K)
    BY <1>2, <1>13, <2>4, <2>6 DEF Closed
  <2>8. d1[par].dir
    BY <1>3, <1>8, <1>9, <1>16, <2>4
  <2>9. Named(s1, par, x) \subseteq {src}
    <3> SUFFICES ASSUME NEW m \in Named(s1, par, x) PROVE FALSE
      OBVIOUS
    <3>1. m \in N /\ m # par /\ d1[m].parent = par /\ d1[m].name = x
      BY <2>3, <2>6 DEF Named, Children
    <3>2. m # dst
      BY <1>8, <1>16, <2>4, <3>1
    <3>3. m \in Named(s, par, x)
      BY <1>1, <1>2, <2>4, <3>1, <3>2 DEF Named, Children
    <3> QED
      BY <1>10, <3>2, <3>3
  <2>10. d1[src] = d[src]
    BY <1>4, <2>4
  <2>11. q1 = UnlinkPrim(s1, src)
    BY <1>1, <1>14, <2>3, <2>10 DEF UnlinkPrim
  <2>12. q2 = NamePrim(s1, src, x)
    BY <1>1, <1>14, <2>3, <2>10 DEF NamePrim
  <2>13. q3 = ShortNamePrim(s1, src)
    BY <1>1, <1>14, <2>3, <2>10 DEF ShortNamePrim
  <2>14. Walk(s, Append(<<>>, q0), N, s1)
    BY <2>1, <2>2, WalkNowhere, WalkOn
  <2>15. \E t : Walk(s, Append(Append(Append(Append(Append(<<>>, q0), q1), q2), q3), q4), N, t)
    BY <1>4, <1>7, <1>13, <1>14, <2>3, <2>5, <2>7, <2>8, <2>9, <2>11, <2>12, <2>13, <2>14,
       RenameTail
  <2>16. RenamePrims(src, dst, par, NameOf(to))
            = Append(Append(Append(Append(Append(<<>>, q0), q1), q2), q3), q4)
    BY <1>1, <1>14, <1>16 DEF RenamePrims
  <2> QED
    BY <2>15, <2>16
<1> QED
  BY <1>15, <1>16

LEMMA RenamePathKeeps ==
    ASSUME IInv, RenamePath
    PROVE  IInv'
<1>1. /\ pc = "rename" /\ pc' \in {"end", "rollback"} /\ cmds' = cmds /\ stack' = stack
  BY DEF RenamePath
<1>2. CommandsOK /\ Undoable /\ IdsOK
  BY <1>1 DEF IInv
<1>3. CommandsOK'
  BY <1>1, <1>2 DEF CommandsOK, Adding
<1>4. PICK R, N : AtRest(R, N) /\ N = Nodes(image)
  BY <1>1, <1>2, RestIs DEF Adding
<1>5. cur # 0 /\ cmd.from \in Seq(Names) /\ cmd.to \in Seq(Names)
  BY <1>1, <1>2, CommandIs
<1>6. PICK from, to : from = cmd.from /\ to = cmd.to
  OBVIOUS
<1>7. PICK src, dst : src = Get(image, from) /\ dst = Get(image, to)
  OBVIOUS
<1>8. PICK par : par = IF dst # None THEN image.dentries[dst].parent
                       ELSE IF to = <<>> THEN image.root ELSE Get(image, Front(to))
  OBVIOUS
<1>9. \/ image' = image /\ prims' = prims
      \/ /\ src # dst /\ CanRename(src, dst, par)
         /\ \E failed : Journal(image, RenamePrims(src, dst, par, NameOf(to)), failed)
  BY <1>6, <1>7, <1>8 DEF RenamePath
<1>10. ASSUME image' = image, prims' = prims PROVE Undoable' /\ Nodes(image') = Nodes(image)
  BY <1>1, <1>2, <1>10, StillAtRest DEF Adding
<1>11. ASSUME src # dst, CanRename(src, dst, par), NEW failed,
              Journal(image, RenamePrims(src, dst, par, NameOf(to)), failed)
       PROVE  Undoable' /\ Nodes(image') = Nodes(image)
  <2>1. PICK s : s = image
    OBVIOUS
  <2>2. Fits(s, N)
    BY <1>4, <2>1 DEF AtRest
  <2>3. PICK t : Walk(s, RenamePrims(src, dst, par, NameOf(to)), N, t)
    BY <1>5, <1>6, <1>7, <1>8, <1>11, <2>1, <2>2, RenameWalks
  <2> QED
    BY <1>1, <1>4, <1>5, <1>11, <2>1, <2>3, RestJournal DEF Adding
<1>12. Undoable' /\ Nodes(image') = Nodes(image)
  BY <1>9, <1>10, <1>11
<1>13. IdsOK' /\ AttachOK'
  BY <1>1, <1>2, <1>12, IdsKept DEF AttachOK
<1> QED
  BY <1>1, <1>3, <1>12, <1>13 DEF IInv

-----------------------------------------------------------------------------
(* A branch that can not be attached is put together again and freed.      *)

(* The branch is in parts: chain leads down through what was taken out.    *)
ChainOK(chain, P, c) ==
    /\ chain \in Seq(DOMAIN P) /\ Len(chain) > 0
    /\ \A k \in 1..Len(chain) : Len(chain[k][2]) = k - 1
    /\ \A k \in 2..Len(chain) : chain[k - 1] = <<c, Front(chain[k][2])>>
    /\ Roots(P) = {chain[k] : k \in 1..Len(chain)}

Relinked(d, chain) ==
    [n \in DOMAIN d |->
        IF \E k \in 2..Len(chain) : chain[k] = n
        THEN [d[n] EXCEPT !.parent = chain[(CHOOSE k \in 2..Len(chain) : chain[k] = n) - 1]]
        ELSE d[n]]

LEMMA RelinkedIs ==
    ASSUME NEW P, NEW c, BranchOK(P, c), NEW chain, ChainOK(chain, P, c),
           NEW d, DOMAIN P \subseteq DOMAIN d, \A n \in DOMAIN P : d[n] = P[n],
           NEW b, b = <<c, <<>>>>, NEW e, e = Relinked(d, chain)
    PROVE  /\ DOMAIN e = DOMAIN d /\ b \in DOMAIN P /\ e[b].parent = b
           /\ \A n \in DOMAIN d \ DOMAIN P : e[n] = d[n]
           /\ \A n \in DOMAIN P : Len(n[2]) \in Nat
           /\ \A n \in DOMAIN P \ {b} : /\ e[n].parent \in DOMAIN P
                                        /\ Len(e[n].parent[2]) < Len(n[2])
<1>1. DOMAIN e = DOMAIN d
  BY DEF Relinked
<1>2. /\ Len(chain) \in Nat /\ \A k \in 1..Len(chain) : chain[k] \in DOMAIN P
  BY DEF ChainOK
<1>3. ASSUME NEW n \in DOMAIN P
      PROVE  /\ n[2] \in Seq(Names) /\ Len(n[2]) \in Nat /\ n = <<c, n[2]>>
             /\ n # b => /\ n[2] # <<>> /\ Len(n[2]) > 0 /\ Len(Front(n[2])) < Len(n[2])
                         /\ <<c, Front(n[2])>> \in DOMAIN P
  <2>1. n = <<c, n[2]>> /\ n[2] \in Seq(Names) /\ n # b => <<c, Front(n[2])>> \in DOMAIN P
    BY DEF BranchOK
  <2>2. n[2] \in Seq(Names) /\ n = <<c, n[2]>>
    BY DEF BranchOK
  <2>3. n # b => n[2] # <<>>
    BY <2>2
  <2>4. n # b => Len(Front(n[2])) < Len(n[2]) /\ Len(n[2]) > 0
    BY <2>2, <2>3, PathIs
  <2> QED
    BY <2>1, <2>2, <2>3, <2>4
<1>4. b = chain[1] /\ b \in DOMAIN P /\ b[2] = <<>>
  <2>1. PICK n : n = chain[1] /\ n \in DOMAIN P /\ Len(n[2]) = 1 - 1
    BY <1>2 DEF ChainOK
  <2>2. n = b
    <3>1. n[2] \in Seq(Names) /\ n = <<c, n[2]>>
      BY <1>3, <2>1
    <3>2. n[2] # <<>> => Len(n[2]) > 0
      BY <3>1, PathIs
    <3>3. n[2] = <<>>
      BY <2>1, <3>2
    <3> QED
      BY <3>1, <3>3
  <2> QED
    BY <2>1, <2>2
<1>5. \A k \in 2..Len(chain) : chain[k] # b
  <2> SUFFICES ASSUME NEW k \in 2..Len(chain), chain[k] = b PROVE FALSE
    OBVIOUS
  <2>1. k \in 1..Len(chain) /\ Len(chain[k][2]) = k - 1
    BY <1>2 DEF ChainOK
  <2>2. Len(b[2]) = 0
    BY <1>4
  <2> QED
    BY <2>1, <2>2
<1>6. b \in Roots(P)
  <2>1. 1 \in 1..Len(chain) /\ Roots(P) = {chain[k] : k \in 1..Len(chain)}
    BY <1>2 DEF ChainOK
  <2> QED
    BY <1>4, <2>1
<1>7. e[b].parent = b
  <2>1. e[b] = d[b]
    BY <1>4, <1>5 DEF Relinked
  <2> QED
    BY <1>4, <1>6, <2>1 DEF Roots
<1>8. \A n \in DOMAIN d \ DOMAIN P : e[n] = d[n]
  <2>1. \A k \in 2..Len(chain) : chain[k] \in DOMAIN P
    BY <1>2
  <2> QED
    BY <2>1 DEF Relinked
<1>9. ASSUME NEW n \in DOMAIN P, n # b PROVE e[n].parent = <<c, Front(n[2])>>
  <2>1. CASE \E k \in 2..Len(chain) : chain[k] = n
    <3>1. PICK k \in 2..Len(chain) : k = CHOOSE i \in 2..Len(chain) : chain[i] = n
      BY <2>1
    <3>2. chain[k] = n
      BY <2>1, <3>1
    <3>3. e[n] = [d[n] EXCEPT !.parent = chain[k - 1]]
      BY <2>1, <3>1 DEF Relinked
    <3>4. d[n] \in [name : Labels, short : BOOLEAN, dir : BOOLEAN, parent : DOMAIN P]
      BY DEF BranchOK, Forest, Dentries
    <3>5. e[n].parent = chain[k - 1]
      BY <3>3, <3>4
    <3> QED
      BY <3>2, <3>5 DEF ChainOK
  <2>2. CASE ~ \E k \in 2..Len(chain) : chain[k] = n
    <3>1. e[n] = P[n]
      BY <2>2 DEF Relinked
    <3>2. n \notin Roots(P)
      <4> SUFFICES ASSUME n \in Roots(P) PROVE FALSE
        OBVIOUS
      <4>1. PICK k \in 1..Len(chain) : chain[k] = n
        BY DEF ChainOK
      <4>2. k = 1
        BY <1>2, <2>2, <4>1
      <4> QED
        BY <1>4, <1>9, <4>1, <4>2
    <3> QED
      BY <3>1, <3>2 DEF BranchOK
  <2> QED
    BY <2>1, <2>2
<1>10. ASSUME NEW n \in DOMAIN P, n # b
       PROVE  e[n].parent \in DOMAIN P /\ Len(e[n].parent[2]) < Len(n[2])
  <2>1. PICK y : y = <<c, Front(n[2])>>
    OBVIOUS
  <2>2. y[2] = Front(n[2]) /\ e[n].parent = y
    BY <1>9, <1>10, <2>1
  <2> QED
    BY <1>3, <1>10, <2>1, <2>2
<1> QED
  BY <1>1, <1>3, <1>4, <1>7, <1>8, <1>10

LEMMA RefuseIs ==
    ASSUME NEW s, NEW N, Fits(s, N), NEW P, BranchOK(P, cur), N \cap DOMAIN P = {},
           NEW chain, ChainOK(chain, P, cur)
    PROVE  Refuse(With(s, P), chain) = s
<1>1. PICK c, b, d, r, o : /\ c = cur /\ b = <<c, <<>>>> /\ b = Branch
                           /\ d = s.dentries /\ r = s.root /\ o = s.orphans
  BY DEF Branch
<1>2. /\ Forest(d) /\ DOMAIN d = N /\ d \in Dentries(N) /\ Forest(P)
  BY <1>1 DEF Fits, Nodes, Forest, BranchOK
<1>3. PICK j : j = Join(d, P)
  OBVIOUS
<1>4. s = State(d, r, o) /\ With(s, P) = State(j, r, o)
  BY <1>1, <1>2, <1>3, StateIs, WithIs DEF State
<1>5. /\ DOMAIN j = N \cup DOMAIN P /\ (\A n \in N : j[n] = d[n])
      /\ \A n \in DOMAIN P : j[n] = P[n]
  BY <1>2, <1>3 DEF Join
<1>6. PICK e, t : e = Relinked(j, chain) /\ t = State(e, r, o)
  OBVIOUS
<1>7. /\ DOMAIN e = N \cup DOMAIN P /\ b \in DOMAIN P /\ e[b].parent = b
      /\ \A n \in N : e[n] = d[n]
      /\ \A n \in DOMAIN P : Len(n[2]) \in Nat
      /\ \A n \in DOMAIN P \ {b} : /\ e[n].parent \in DOMAIN P
                                   /\ Len(e[n].parent[2]) < Len(n[2])
  <2>1. DOMAIN P \subseteq DOMAIN j /\ \A n \in DOMAIN P : j[n] = P[n]
    BY <1>5
  <2>2. /\ DOMAIN e = DOMAIN j /\ b \in DOMAIN P /\ e[b].parent = b
        /\ \A n \in DOMAIN j \ DOMAIN P : e[n] = j[n]
        /\ \A n \in DOMAIN P : Len(n[2]) \in Nat
        /\ \A n \in DOMAIN P \ {b} : /\ e[n].parent \in DOMAIN P
                                     /\ Len(e[n].parent[2]) < Len(n[2])
    BY <1>1, <1>6, <2>1, RelinkedIs
  <2> QED
    BY <1>5, <2>2
<1>8. \A n \in N : d[n].parent \in N
  BY <1>2 DEF Dentries
<1>9. Rooted(e)
  <2>1. \A n \in DOMAIN e : e[n].parent \in DOMAIN e
    BY <1>7, <1>8
  <2>2. PICK g : g = Part(e, DOMAIN P)
    OBVIOUS
  <2>3. DOMAIN g = DOMAIN P /\ \A n \in DOMAIN P : g[n] = e[n]
    BY <2>2 DEF Part
  <2>4. Acyclic(g)
    BY <1>7, <2>3, GoingUpIsAcyclic
  <2>5. ASSUME NEW X \in SUBSET DOMAIN e, X # {}
        PROVE  \E n \in X : e[n].parent = n \/ e[n].parent \notin X
    <3>1. CASE X \cap N = {}
      <4>1. X \in SUBSET DOMAIN g
        BY <1>7, <2>3, <3>1
      <4> QED
        BY <2>3, <2>4, <2>5, <4>1 DEF Acyclic
    <3>2. CASE X \cap N # {}
      <4>1. PICK n \in X \cap N : d[n].parent = n \/ d[n].parent \notin X \cap N
        BY <1>2, <3>2 DEF Forest, Acyclic
      <4> QED
        BY <1>7, <1>8, <4>1
    <3> QED
      BY <3>1, <3>2
  <2> QED
    BY <2>1, <2>5 DEF Rooted, Acyclic
<1>10. PICK G : G = Subtree(t, b)
  OBVIOUS
<1>11. t.dentries = e /\ Nodes(t) = DOMAIN e
  BY <1>6 DEF State, Nodes
<1>12. /\ G \subseteq DOMAIN e /\ b \in G /\ Closed(e, DOMAIN e \ G)
       /\ \A K : Closed(e, K) /\ b \notin K => G \cap K = {}
  <2>1. Rooted(t.dentries) /\ b \in Nodes(t)
    BY <1>7, <1>9, <1>11
  <2> QED
    BY <1>10, <1>11, <2>1, SubtreeIs
<1>13. G = DOMAIN P
  <2>1. Closed(e, N) /\ b \notin N
    BY <1>7, <1>8 DEF Closed
  <2>2. G \cap N = {}
    BY <1>12, <2>1
  <2>3. ASSUME DOMAIN P \ G # {} PROVE FALSE
    <3>1. DOMAIN P \ G \in SUBSET DOMAIN e
      BY <1>7
    <3>2. PICK n \in DOMAIN P \ G : e[n].parent = n \/ e[n].parent \notin DOMAIN P \ G
      BY <1>9, <2>3, <3>1 DEF Rooted, Acyclic
    <3>3. n # b
      BY <1>12, <3>2
    <3>4. e[n].parent \in DOMAIN P /\ e[n].parent # n
      <4>1. Len(e[n].parent[2]) < Len(n[2]) /\ Len(n[2]) \in Nat /\ e[n].parent \in DOMAIN P
        BY <1>7, <3>3
      <4> QED
        BY <4>1
    <3>5. e[n].parent \in G
      BY <3>2, <3>4
    <3> QED
      BY <1>7, <1>12, <3>2, <3>5 DEF Closed
  <2> QED
    BY <1>7, <1>12, <2>2, <2>3
<1>14. N = DOMAIN e \ G
  BY <1>7, <1>13
<1>15. FreeTree(t, b) = State(Part(e, N), r, o)
  BY <1>6, <1>10, <1>14, WithoutIs DEF FreeTree
<1>16. Part(e, N) = d
  BY <1>2, <1>7 DEF Part, Dentries
<1>17. Refuse(State(j, r, o), chain) = FreeTree(t, b)
  <2>1. PICK w : w = State(j, r, o)
    OBVIOUS
  <2>2. w.dentries = j /\ [w EXCEPT !.dentries = e] = t
    BY <1>6, <2>1 DEF State
  <2>3. Refuse(w, chain) = FreeTree([w EXCEPT !.dentries = e], Branch)
    BY <1>6, <2>2 DEF Refuse, Relinked
  <2> QED
    BY <1>1, <2>1, <2>2, <2>3
<1> QED
  BY <1>4, <1>15, <1>16, <1>17

-----------------------------------------------------------------------------
(* A tree of the branch becomes a part of the image.                       *)

LEMMA JoinParts ==
    ASSUME NEW d, NEW P, NEW K, K \subseteq DOMAIN P, NEW L, L = DOMAIN P \ K
    PROVE  Join(Join(d, Part(P, K)), Part(P, L)) = Join(d, P)
<1>1. PICK e, f, g, h, j : /\ g = Part(P, K) /\ h = Part(P, L) /\ e = Join(d, g)
                           /\ f = Join(e, h) /\ j = Join(d, P)
  OBVIOUS
<1>2. /\ DOMAIN g = K /\ DOMAIN h = L
      /\ (\A n \in K : g[n] = P[n]) /\ (\A n \in L : h[n] = P[n])
  BY <1>1 DEF Part
<1>3. /\ DOMAIN e = DOMAIN d \cup K /\ e = [n \in DOMAIN e |-> e[n]]
      /\ \A n \in DOMAIN e : e[n] = IF n \in K THEN g[n] ELSE d[n]
  BY <1>1, <1>2 DEF Join
<1>4. /\ DOMAIN f = DOMAIN e \cup L /\ f = [n \in DOMAIN f |-> f[n]]
      /\ \A n \in DOMAIN f : f[n] = IF n \in L THEN h[n] ELSE e[n]
  BY <1>1, <1>2 DEF Join
<1>5. /\ DOMAIN j = DOMAIN d \cup DOMAIN P /\ j = [n \in DOMAIN j |-> j[n]]
      /\ \A n \in DOMAIN j : j[n] = IF n \in DOMAIN P THEN P[n] ELSE d[n]
  BY <1>1 DEF Join
<1>6. DOMAIN f = DOMAIN j /\ \A n \in DOMAIN f : f[n] = j[n]
  BY <1>2, <1>3, <1>4, <1>5
<1>7. f = j
  BY <1>4, <1>5, <1>6
<1> QED
  BY <1>1, <1>7

(* Where a dentry of a branch can be linked. *)
Place(s, N, x, dir, p) ==
    \/ p \in N /\ s.dentries[p].dir /\ Named(s, p, x) = {}
    \/ p = None /\ s.root = None /\ dir

Graftable(s, N, P, K, n, p) ==
    /\ Fits(s, N) /\ Forest(P) /\ N \cap DOMAIN P = {}
    /\ Closed(P, K) /\ Closed(P, DOMAIN P \ K)
    /\ n \in K /\ Roots(Part(P, K)) = {n}
    /\ Place(s, N, P[n].name, P[n].dir, p)

Grafts(s, N, P, K, n, p, u, q) ==
    /\ Fits(u, N \cup K) /\ Steps(u, q, N \cup K)
    /\ Do(With(s, P), q) = With(Do(u, q), Part(P, DOMAIN P \ K))
    /\ p # None => Do(With(s, P), q) = State(Move(Join(s.dentries, P), n, p), s.root, s.orphans)
    /\ p = None => Do(With(s, P), q) = State(Join(s.dentries, P), n, s.orphans)

LEMMA GraftDoes ==
    ASSUME NEW s, NEW N, NEW P, NEW K, NEW n, NEW p, Graftable(s, N, P, K, n, p),
           NEW u, u = Put(s, Part(P, K), {n}), NEW q, q = LinkPrim(n, p)
    PROVE  Grafts(s, N, P, K, n, p, u, q)
<1>1. /\ Fits(s, N) /\ Forest(P) /\ N \cap DOMAIN P = {}
      /\ Closed(P, K) /\ Closed(P, DOMAIN P \ K)
      /\ n \in K /\ Roots(Part(P, K)) = {n}
      /\ Place(s, N, P[n].name, P[n].dir, p)
  BY DEF Graftable
<1>2. PICK g, h, L, M : /\ g = Part(P, K) /\ L = DOMAIN P \ K /\ h = Part(P, L) /\ M = N \cup K
  OBVIOUS
<1>3. /\ Forest(g) /\ DOMAIN g = K /\ \A m \in K : g[m] = P[m]
  BY <1>1, <1>2, PartForest
<1>4. /\ Forest(h) /\ DOMAIN h = L
  BY <1>1, <1>2, PartForest
<1>5. K \subseteq DOMAIN P /\ N \cap K = {} /\ M \cap DOMAIN h = {} /\ n \in M /\ n \notin N
  BY <1>1, <1>2, <1>4 DEF Closed
<1>6. Fits(u, M) /\ Apart(g, {n}, N)
  <2>1. N \cap DOMAIN g = {} /\ Roots(g) = {n} /\ u = Put(s, g, {n})
    BY <1>1, <1>2, <1>3, <1>5
  <2>2. Fits(Put(s, g, {n}), N \cup DOMAIN g) /\ Apart(g, {n}, N)
    BY <1>1, <1>3, <2>1, PutFits
  <2> QED
    BY <1>2, <1>3, <2>1, <2>2
<1>7. PICK d, r, o, x, e : /\ d = s.dentries /\ r = s.root /\ o = s.orphans /\ x = o \cup {n}
                           /\ e = Join(d, g)
  OBVIOUS
<1>8. /\ s = State(d, r, o) /\ d \in Dentries(N) /\ DOMAIN d = N /\ o \subseteq N
      /\ \A m \in N : d[m].parent \in N
  BY <1>1, <1>7, StateIs DEF Fits, Nodes, Forest, Dentries
<1>9. u = State(e, r, x)
  BY <1>2, <1>7, <1>8, PutIs
<1>10. /\ e \in Dentries(M) /\ DOMAIN e = M
       /\ (\A m \in N : e[m] = d[m]) /\ e[n] = P[n]
       /\ u.dentries = e /\ u.root = r /\ u.orphans = x
  <2>1. u.dentries = e /\ u.root = r /\ u.orphans = x
    BY <1>9 DEF State
  <2>2. e \in Dentries(M) /\ DOMAIN e = M
    BY <1>6, <2>1 DEF Fits, Nodes, Forest
  <2>3. (\A m \in N : e[m] = d[m]) /\ e[n] = P[n]
    BY <1>1, <1>3, <1>5, <1>7, <1>8 DEF Join
  <2> QED
    BY <2>1, <2>2, <2>3
<1>11. x \ {n} = o /\ o \ {n} = o /\ n \in x
  BY <1>5, <1>7, <1>8
<1>12. PICK j : j = Join(d, P)
  OBVIOUS
<1>13. With(s, P) = State(j, r, o) /\ Join(e, h) = j
  <2>1. With(s, P) = State(j, r, o)
    BY <1>1, <1>7, <1>12, WithIs DEF State
  <2>2. Join(Join(d, Part(P, K)), Part(P, L)) = Join(d, P)
    BY <1>2, <1>5, JoinParts
  <2> QED
    BY <1>2, <1>7, <1>12, <2>1, <2>2
<1>14. q.op = "link" /\ q.subject = n /\ q.parent = p
  BY DEF LinkPrim
<1>15. j[n] = P[n] /\ Apart(P, {}, N)
  <2>1. j[n] = P[n]
    BY <1>1, <1>5, <1>12 DEF Join
  <2>2. Apart(P, {}, N)
    BY <1>1, WithIsPut
  <2> QED
    BY <2>1, <2>2
<1>16. ASSUME NEW f, NEW r2, Do(u, q) = State(f, r2, o), Fits(Do(u, q), M)
       PROVE  With(Do(u, q), h) = State(Join(f, h), r2, o)
  <2>1. PICK v : v = Do(u, q)
    OBVIOUS
  <2>2. v.dentries = f /\ v.root = r2 /\ v.orphans = o
    BY <1>16, <2>1 DEF State
  <2>3. Fits(v, M) /\ Forest(h) /\ M \cap DOMAIN h = {}
    BY <1>4, <1>5, <1>16, <2>1
  <2>4. With(v, h) = [dentries |-> Join(v.dentries, h), root |-> v.root, orphans |-> v.orphans]
    BY <2>3, WithIs
  <2> QED
    BY <2>1, <2>2, <2>4 DEF State
<1>17. CASE p \in N /\ d[p].dir /\ Named(s, p, P[n].name) = {}
  <2>1. p # None /\ p \in M
    BY <1>1, <1>2, <1>7, <1>8, <1>17 DEF Fits, Forest
  <2>2. Closed(e, N)
    BY <1>2, <1>8, <1>10 DEF Closed
  <2>3. Free(State(d, r, o), p, P[n].name)
    BY <1>8, <1>17 DEF Free
  <2>4. Free(State(e, r, x), p, P[n].name)
    BY <1>6, <1>7, <1>8, <1>17, <2>3, FreePut
  <2>5. Free(State(j, r, o), p, P[n].name)
    BY <1>8, <1>12, <1>15, <1>17, <2>3, FreePut
  <2>6. Named(u, p, u.dentries[n].name) = {}
    BY <1>9, <1>10, <2>4 DEF Free
  <2>7. u.dentries[p].dir
    BY <1>10, <1>17
  <2>8. Steps(u, q, M) /\ Do(u, q) = State(Move(e, n, p), r, o)
    <3>1. n \in u.orphans /\ Closed(u.dentries, N)
      BY <1>10, <1>11, <2>2
    <3>2. Fits(u, M) /\ p \in M /\ p \in N /\ n \notin N
      BY <1>5, <1>6, <1>17, <2>1
    <3>3. Steps(u, q, M)
      BY <2>6, <2>7, <3>1, <3>2, DoLink
    <3>4. Do(u, q) = State(Move(u.dentries, n, p), u.root, u.orphans \ {n})
      BY <2>6, <2>7, <3>1, <3>2, DoLink, ZenonT(30)
    <3> QED
      BY <1>10, <1>11, <3>3, <3>4
  <2>9. With(Do(u, q), h) = State(Join(Move(e, n, p), h), r, o)
    BY <1>16, <2>8 DEF Steps
  <2>10. Join(Move(e, n, p), h) = Move(j, n, p)
    BY <1>5, <1>10, <1>13, JoinMove
  <2>11. PICK y : y = o \ {n} /\ y = o
    BY <1>11
  <2>12. Do(State(j, r, o), q) = State(Move(j, n, p), r, o)
    <3>1. Free(State(j, r, o), q.parent, j[q.subject].name) /\ q.parent # None
      BY <1>14, <1>15, <2>1, <2>5
    <3>2. y = o \ {q.subject}
      BY <1>14, <2>11
    <3>3. Do(State(j, r, o), q) = State(Move(j, q.subject, q.parent), r, y)
      BY <1>14, <3>1, <3>2, DoLinkIs
    <3> QED
      BY <1>14, <2>11, <3>3
  <2> QED
    BY <1>2, <1>6, <1>7, <1>12, <1>13, <2>1, <2>8, <2>9, <2>10, <2>12, SMTT(30) DEF Grafts
<1>18. CASE p = None /\ r = None /\ P[n].dir
  <2>1. Steps(u, q, M) /\ Do(u, q) = State(e, n, o)
    <3>1. n \in u.orphans /\ u.root = None /\ u.dentries[n].dir
      BY <1>10, <1>11, <1>18
    <3>2. q = LinkPrim(n, None)
      BY <1>18
    <3>3. Steps(u, q, M) /\ Do(u, q) = State(u.dentries, n, u.orphans \ {n})
      BY <1>6, <3>1, <3>2, DoLinkRoot
    <3> QED
      BY <1>10, <1>11, <3>3
  <2>2. With(Do(u, q), h) = State(j, n, o)
    BY <1>13, <1>16, <2>1 DEF Steps
  <2>3. PICK y : y = o \ {n} /\ y = o
    BY <1>11
  <2>4. Do(State(j, r, o), q) = State(j, n, o)
    <3>1. y = o \ {q.subject} /\ q.parent = None
      BY <1>14, <1>18, <2>3
    <3>2. Do(State(j, r, o), q) = State(j, q.subject, y)
      BY <1>14, <3>1, DoLinkIs
    <3> QED
      BY <1>14, <2>3, <3>2
  <2> QED
    BY <1>2, <1>6, <1>7, <1>12, <1>13, <1>18, <2>1, <2>2, <2>4 DEF Grafts
<1> QED
  BY <1>1, <1>7, <1>17, <1>18 DEF Place

LEMMA GraftShows ==
    ASSUME NEW s, NEW N, NEW P, NEW K, NEW n, NEW p, Graftable(s, N, P, K, n, p),
           NEW w, w = With(s, P), NEW e, e = Do(w, LinkPrim(n, p))
    PROVE  /\ Nodes(e) = N \cup DOMAIN P /\ Nodes(w) = N \cup DOMAIN P
           /\ e.orphans = w.orphans /\ w.orphans = s.orphans /\ n \in DOMAIN P
           /\ e.root = (IF p = None THEN n ELSE w.root) /\ w.root = s.root
           /\ \A m \in Nodes(w) : /\ m # n => e.dentries[m] = w.dentries[m]
                                  /\ e.dentries[m].dir = w.dentries[m].dir
                                  /\ e.dentries[m].name = w.dentries[m].name
           /\ p # None => e.dentries[n].parent = p
<1>1. /\ Fits(s, N) /\ Forest(P) /\ N \cap DOMAIN P = {} /\ n \in DOMAIN P
      /\ p # None => p \in N
  BY DEF Graftable, Closed, Place
<1>2. PICK j, X : j = Join(s.dentries, P) /\ X = N \cup DOMAIN P
  OBVIOUS
<1>3. w = State(j, s.root, s.orphans) /\ w.dentries = j /\ Forest(j) /\ DOMAIN j = X
  <2>1. /\ w = [dentries |-> Join(s.dentries, P), root |-> s.root, orphans |-> s.orphans]
        /\ Forest(w.dentries) /\ Nodes(w) = N \cup DOMAIN P
    BY <1>1, WithIs
  <2>2. w = State(j, s.root, s.orphans)
    BY <1>2, <2>1 DEF State
  <2>3. w.dentries = j
    BY <1>2, <2>1
  <2> QED
    BY <1>2, <2>1, <2>2, <2>3 DEF Nodes
<1>4. j \in Dentries(X) /\ n \in X
  BY <1>1, <1>2, <1>3 DEF Forest
<1>5. w.root = s.root /\ w.orphans = s.orphans
  BY <1>3 DEF State
<1>6. /\ p # None => e = State(Move(j, n, p), s.root, s.orphans)
      /\ p = None => e = State(j, n, s.orphans)
  <2>1. PICK u, q : u = Put(s, Part(P, K), {n}) /\ q = LinkPrim(n, p)
    OBVIOUS
  <2>2. Grafts(s, N, P, K, n, p, u, q)
    BY <2>1, GraftDoes
  <2> QED
    BY <1>2, <2>1, <2>2 DEF Grafts
<1>7. CASE p # None
  <2>1. PICK f : f = Move(j, n, p)
    OBVIOUS
  <2>2. e.dentries = f /\ e.root = s.root /\ e.orphans = s.orphans
    BY <1>6, <1>7, <2>1 DEF State
  <2>3. p \in X
    BY <1>1, <1>2, <1>7
  <2>4. /\ DOMAIN f = X /\ f[n].parent = p /\ f[n].name = j[n].name /\ f[n].dir = j[n].dir
        /\ \A m \in X : m # n => f[m] = j[m]
    BY <1>4, <2>1, <2>3, MoveIs
  <2> QED
    BY <1>1, <1>2, <1>3, <1>5, <1>7, <2>2, <2>4 DEF Nodes
<1>8. CASE p = None
  <2>1. e.dentries = j /\ e.root = n /\ e.orphans = s.orphans
    BY <1>6, <1>8 DEF State
  <2> QED
    BY <1>1, <1>2, <1>3, <1>5, <1>8, <2>1 DEF Nodes
<1> QED
  BY <1>7, <1>8

Grafted(s, N, P, K, q, j, c, t, S, M) ==
    /\ M = N \cup K /\ Fits(t, M)
    /\ Safe(S, M, c) /\ <<t, Extended(j, c, <<q>>, 1)>> \in S
    /\ Do(With(s, P), q) = With(t, Part(P, DOMAIN P \ K))

LEMMA GraftIsSafe ==
    ASSUME NEW s, NEW N, NEW P, NEW K, NEW n, NEW p, Graftable(s, N, P, K, n, p),
           NEW q, q = LinkPrim(n, p),
           NEW R, NEW j, NEW c, <<s, j>> \in R, Safe(R, N, c), c # 0
    PROVE  \E t, S, M : Grafted(s, N, P, K, q, j, c, t, S, M)
<1>1. PICK g, M, u, t : /\ g = Part(P, K) /\ M = N \cup K /\ u = Put(s, g, {n}) /\ t = Do(u, q)
  OBVIOUS
<1>2. Fits(u, M) /\ Steps(u, q, M) /\ Do(With(s, P), q) = With(t, Part(P, DOMAIN P \ K))
  <2>1. u = Put(s, Part(P, K), {n})
    BY <1>1
  <2>2. Grafts(s, N, P, K, n, p, u, q)
    BY <2>1, GraftDoes
  <2> QED
    BY <1>1, <2>2 DEF Grafts
<1>3. /\ Forest(g) /\ DOMAIN g = K /\ N \cap DOMAIN g = {} /\ Roots(g) = {n}
      /\ M = N \cup DOMAIN g
  <2>1. Forest(P) /\ Closed(P, K) /\ N \cap DOMAIN P = {} /\ Roots(g) = {n}
    BY <1>1 DEF Graftable
  <2>2. Forest(g) /\ DOMAIN g = K
    BY <1>1, <2>1, PartForest
  <2> QED
    BY <1>1, <2>1, <2>2 DEF Closed
<1>4. PICK Q : Q = Enlarged(R, g, n)
  OBVIOUS
<1>5. Safe(Q, M, c)
  BY <1>3, <1>4, Enlarge
<1>6. <<u, j>> \in Q
  <2>1. PICK e : e = <<s, j>>
    OBVIOUS
  <2>2. e \in R /\ e[1] = s /\ e[2] = j
    BY <2>1
  <2> QED
    BY <1>1, <1>4, <2>2 DEF Enlarged
<1>7. PICK qs : qs = <<q>>
  OBVIOUS
<1>8. Walk(u, qs, M, t) /\ Len(qs) = 1
  <2>1. Walk(u, Append(<<>>, q), M, t)
    BY <1>1, <1>2, WalkNowhere, WalkOn
  <2>2. Append(<<>>, q) = qs /\ Len(qs) = 1
    BY <1>7
  <2> QED
    BY <2>1, <2>2
<1>9. t = After(u, qs, 1)
  BY <1>8 DEF Walk
<1>10. \E S : Safe(S, M, c) /\ <<After(u, qs, 1), Extended(j, c, qs, 1)>> \in S
  <2>1. PICK k \in 0..Len(qs) : k = 1
    BY <1>8
  <2>2. \E S : Safe(S, M, c) /\ <<After(u, qs, k), Extended(j, c, qs, k)>> \in S
    BY <1>5, <1>6, <1>8, JournalIsSafe
  <2> QED
    BY <2>1, <2>2
<1>11. Fits(t, M)
  BY <1>1, <1>2 DEF Steps
<1> QED
  BY <1>1, <1>2, <1>7, <1>9, <1>10, <1>11 DEF Grafted

-----------------------------------------------------------------------------
(* While a branch is added.                                                *)

Seen(s, N, P) ==
    /\ Fits(s, N) /\ Forest(P) /\ N \cap DOMAIN P = {}
    /\ Nodes(image) = N \cup DOMAIN P
    /\ image.root = s.root /\ image.orphans = s.orphans
    /\ \A n \in N : image.dentries[n] = s.dentries[n] /\ s.dentries[n].parent \in N
    /\ \A n \in DOMAIN P : image.dentries[n] = P[n] /\ P[n].parent \in DOMAIN P
    /\ \A p \in Seq(Names) : Get(image, p) = Get(s, p)

LEMMA SeenIs ==
    ASSUME NEW s, NEW R, NEW N, NEW P, UndoableWith(s, R, N, P)
    PROVE  Seen(s, N, P)
<1>1. Fits(s, N)
  BY DEF UndoableWith, Safe
<1>2. Forest(P) /\ N \cap DOMAIN P = {} /\ image = With(s, P)
  BY DEF UndoableWith, BranchOK
<1>3. /\ Nodes(image) = N \cup DOMAIN P
      /\ image.root = s.root /\ image.orphans = s.orphans
      /\ \A n \in N : image.dentries[n] = s.dentries[n] /\ s.dentries[n].parent \in N
      /\ \A n \in DOMAIN P : image.dentries[n] = P[n] /\ P[n].parent \in DOMAIN P
  BY <1>1, <1>2, WithIs
<1>4. \A p \in Seq(Names) : Get(image, p) = Get(s, p)
  BY <1>1, <1>2, GetWith
<1> QED
  BY <1>1, <1>2, <1>3, <1>4 DEF Seen

LEMMA RefusedIs ==
    ASSUME NEW s, NEW R, NEW N, NEW P, Fits(s, N), BranchOK(P, cur), N \cap DOMAIN P = {},
           NEW chain, ChainOK(chain, P, cur), image' = Refuse(With(s, P), chain),
           <<s, prims'>> \in R, Safe(R, N, cur), stack' = <<>>, cmds' = cmds,
           pc' = "rollback"
    PROVE  Undoable' /\ Nodes(image') = N
<1>1. image' = s
  BY RefuseIs
<1>2. cur' = cur
  BY DEF cur
<1>3. AtRest(R, N)'
  BY <1>1, <1>2 DEF AtRest
<1>4. Nodes(image') = N
  BY <1>1 DEF Fits
<1> QED
  BY <1>3, <1>4, RestIsUndoable DEF Adding

(* Only the branch itself. *)
LEMMA WholeBranch ==
    ASSUME NEW P, NEW c, BranchOK(P, c), NEW b, b = <<c, <<>>>>, Roots(P) = {b},
           NEW chain, chain = <<b>>
    PROVE  ChainOK(chain, P, c)
<1>1. b \in DOMAIN P /\ Len(b[2]) = 0
  BY DEF Roots
<1>2. Len(chain) = 1 /\ chain[1] = b /\ chain \in Seq(DOMAIN P)
  BY <1>1
<1>3. 1..Len(chain) = {1} /\ 2..Len(chain) = {}
  BY <1>2
<1>4. Roots(P) = {chain[k] : k \in 1..Len(chain)}
  BY <1>2, <1>3
<1> QED
  BY <1>1, <1>2, <1>3, <1>4 DEF ChainOK

LEMMA AttachFailsKeeps ==
    ASSUME IInv, pc = "attach", AttachFails, cmds' = cmds
    PROVE  IInv'
<1>1. CommandsOK /\ Undoable /\ IdsOK
  BY DEF IInv
<1>2. PICK s, R, N, P : UndoableWith(s, R, N, P)
  BY <1>1 DEF Undoable
<1>3. Seen(s, N, P)
  BY <1>2, SeenIs
<1>4. stack = <<>>
  BY <1>2 DEF UndoableWith, StackOK
<1>5. Roots(P) = {Branch}
  BY <1>2, <1>4 DEF UndoableWith, BranchRoots, Adding
<1>6. ChainOK(<<Branch>>, P, cur)
  BY <1>2, <1>5, WholeBranch DEF UndoableWith, Branch
<1>7. /\ image' = Refuse(With(s, P), <<Branch>>) /\ pc' = "rollback" /\ prims' = prims
      /\ stack' = <<>>
  BY <1>2, <1>4 DEF AttachFails, UndoableWith
<1>8. Undoable' /\ Nodes(image') = N
  BY <1>2, <1>3, <1>6, <1>7, RefusedIs DEF UndoableWith, Seen
<1>9. Nodes(image') \subseteq Nodes(image)
  BY <1>3, <1>8 DEF Seen
<1>10. IdsOK' /\ AttachOK'
  BY <1>1, <1>7, <1>9, IdsKept DEF AttachOK
<1>11. CommandsOK'
  BY <1>1, <1>7 DEF CommandsOK, Adding
<1> QED
  BY <1>7, <1>8, <1>10, <1>11 DEF IInv

LEMMA PrefixIs ==
    ASSUME NEW X, NEW p \in Seq(X), NEW k \in 0..Len(p)
    PROVE  /\ SubSeq(p, 1, k) \in Seq(X) /\ Len(SubSeq(p, 1, k)) = k
           /\ k = 0 => SubSeq(p, 1, k) = <<>>
           /\ k > 0 => /\ SubSeq(p, 1, k) # <<>>
                       /\ Front(SubSeq(p, 1, k)) = SubSeq(p, 1, k - 1)
           /\ k > 0 /\ k = Len(p) => SubSeq(p, 1, k - 1) = Front(p)
<1>1. PICK q : q = SubSeq(p, 1, k)
  OBVIOUS
<1>2. q \in Seq(X) /\ Len(q) = k
  BY <1>1
<1>3. k = 0 => q = <<>>
  BY <1>1
<1>4. ASSUME k > 0 PROVE q # <<>> /\ Front(q) = SubSeq(p, 1, k - 1)
  <2>1. q # <<>>
    BY <1>2, <1>4
  <2>2. /\ Front(q) \in Seq(X) /\ Len(Front(q)) = k - 1
        /\ \A i \in 1..(k - 1) : Front(q)[i] = q[i]
    BY <1>2, <2>1, PathIs
  <2>3. PICK r : r = SubSeq(p, 1, k - 1)
    OBVIOUS
  <2>4. r \in Seq(X) /\ Len(r) = k - 1 /\ \A i \in 1..(k - 1) : r[i] = p[i]
    BY <1>4, <2>3
  <2>5. \A i \in 1..(k - 1) : q[i] = p[i]
    BY <1>1, <1>4
  <2>6. Front(q) = r
    BY <2>2, <2>4, <2>5
  <2> QED
    BY <2>1, <2>3, <2>6
<1>5. k = Len(p) => q = p
  BY <1>1
<1> QED
  BY <1>1, <1>2, <1>3, <1>4, <1>5

LEMMA GetNowhere ==
    ASSUME NEW s, s.root = None
    PROVE  \A p \in Seq(Names) : Get(s, p) = None
<1> DEFINE T == {k \in Nat : \A q \in Seq(Names) : Len(q) = k => Get(s, q) = None}
<1>1. 0 \in T
  <2> SUFFICES ASSUME NEW q \in Seq(Names), Len(q) = 0 PROVE Get(s, q) = None
    OBVIOUS
  <2>1. q = <<>>
    BY PathIs
  <2> QED
    BY <2>1, GetUnfold
<1>2. ASSUME NEW k \in Nat, k \in T PROVE k + 1 \in T
  <2> SUFFICES ASSUME NEW q \in Seq(Names), Len(q) = k + 1 PROVE Get(s, q) = None
    OBVIOUS
  <2>1. q # <<>>
    OBVIOUS
  <2>2. Front(q) \in Seq(Names) /\ Len(Front(q)) = k
    BY <2>1, PathIs
  <2>3. Get(s, Front(q)) = None
    BY <1>2, <2>2
  <2> QED
    BY <2>1, <2>3, GetUnfold
<1> HIDE DEF T
<1>3. \A k \in Nat : k \in T
  BY <1>1, <1>2, NatSetInduction
<1> QED
  BY <1>3 DEF T

LEMMA ChildUnique ==
    ASSUME NEW s, NEW N, Fits(s, N), NEW y \in N, NEW n, s.dentries[y].parent = n, y # n,
           NEW x, s.dentries[y].name = x
    PROVE  Child(s, n, x) = y
<1>1. PICK d : d = s.dentries
  OBVIOUS
<1>2. Forest(d) /\ DOMAIN d = N
  BY <1>1 DEF Fits, Nodes
<1>3. y \in Named(s, n, x)
  BY <1>1, <1>2 DEF Named, Children
<1>4. \A z \in Named(s, n, x) : z = y
  <2> SUFFICES ASSUME NEW z \in Named(s, n, x) PROVE z = y
    OBVIOUS
  <2>1. z \in N /\ z # n /\ d[z].parent = n /\ d[z].name = x
    BY <1>1, <1>2 DEF Named, Children
  <2> QED
    BY <1>1, <1>2, <2>1 DEF Forest
<1>5. Named(s, n, x) = {y}
  BY <1>3, <1>4
<1> QED
  BY <1>5 DEF Child

(* The way to where a branch is attached. *)
LEMMA MissingIs ==
    ASSUME CommandsOK, pc = "attach", Missing # {}
    PROVE  /\ Deepest + 1 \in 0..(Len(cmd.path) - 1) /\ Get(image, Prefix(Deepest + 1)) = None
           /\ Deepest + 1 > 0 => Get(image, Prefix(Deepest)) # None
<1>1. cmd.path \in Seq(Names) /\ Len(cmd.path) \in Nat
  BY CommandIs DEF Adding
<1>2. Missing \subseteq Nat
  BY DEF Missing
<1>3. PICK k \in Missing : \A y \in Missing : k <= y
  BY <1>2, LeastOf
<1>4. Min(Missing) \in Missing /\ \A y \in Missing : Min(Missing) <= y
  BY <1>3 DEF Min
<1>5. PICK m : m = Min(Missing)
  OBVIOUS
<1>6. m \in Nat /\ Deepest = m - 1 /\ Deepest + 1 = m
  <2>1. m \in Nat
    BY <1>2, <1>4, <1>5
  <2>2. Deepest = m - 1
    BY <1>5 DEF Deepest
  <2> QED
    BY <2>1, <2>2
<1>7. m \in 0..(Len(cmd.path) - 1) /\ Get(image, Prefix(m)) = None
  BY <1>4, <1>5 DEF Missing
<1>8. ASSUME m > 0 PROVE Get(image, Prefix(m - 1)) # None
  <2>1. m - 1 \notin Missing
    BY <1>4, <1>5, <1>6
  <2>2. m - 1 \in 0..(Len(cmd.path) - 1)
    BY <1>1, <1>6, <1>7, <1>8
  <2> QED
    BY <2>1, <2>2 DEF Missing
<1> QED
  BY <1>6, <1>7, <1>8

(* An image in which no name has been taken away. *)
LEMMA GetStays ==
    ASSUME NEW s, NEW N, Fits(s, N), NEW t, NEW M, Fits(t, M), N \subseteq M,
           \A m \in N : t.dentries[m] = s.dentries[m],
           s.root = None \/ t.root = s.root,
           NEW p \in Seq(Names), Get(s, p) # None
    PROVE  Get(t, p) = Get(s, p)
<1>1. CASE s.root = None
  BY <1>1, GetNowhere
<1>2. CASE t.root = s.root
  <2>1. s.root \in N \cup {None} /\ None \notin Nodes(s) /\ Nodes(s) = N
    BY DEF Fits, Forest, Nodes
  <2>2. ASSUME NEW n \in N, NEW x \in Names, Child(s, n, x) # None
        PROVE  Child(s, n, x) \in N /\ Child(t, n, x) = Child(s, n, x)
    <3>1. PICK y : y = Child(s, n, x)
      OBVIOUS
    <3>2. y \in N /\ y # n /\ s.dentries[y].parent = n /\ s.dentries[y].name = x
      BY <2>1, <2>2, <3>1, ChildIs
    <3>3. y \in M /\ t.dentries[y].parent = n /\ t.dentries[y].name = x
      BY <3>2
    <3>4. Child(t, n, x) = y
      BY <3>2, <3>3, ChildUnique
    <3> QED
      BY <3>1, <3>2, <3>4
  <2> QED
    BY <1>2, <2>1, <2>2, GetSame
<1> QED
  BY <1>1, <1>2

Both(s, P, F, Q) ==
    /\ With(With(s, P), F) = With(s, Q) /\ Forest(Q)
    /\ DOMAIN Q = DOMAIN P \cup DOMAIN F
    /\ (\A n \in DOMAIN P : Q[n] = P[n]) /\ (\A n \in DOMAIN F : Q[n] = F[n])
    /\ Part(Q, DOMAIN P) = P

LEMMA WithTwice ==
    ASSUME NEW s, NEW N, Fits(s, N), NEW P, Forest(P), N \cap DOMAIN P = {},
           NEW F, Forest(F), DOMAIN P \cap DOMAIN F = {}, NEW Q, Q = Join(P, F)
    PROVE  Both(s, P, F, Q)
<1>1. /\ Forest(Q) /\ DOMAIN Q = DOMAIN P \cup DOMAIN F
      /\ (\A n \in DOMAIN P : Q[n] = P[n]) /\ (\A n \in DOMAIN F : Q[n] = F[n])
  <2>1. Forest(Join(P, F))
    BY UnionForest
  <2>2. DOMAIN Join(P, F) = DOMAIN P \cup DOMAIN F
    BY UnionForest
  <2>3. \A n \in DOMAIN P : Join(P, F)[n] = P[n]
    BY UnionForest
  <2>4. \A n \in DOMAIN F : Join(P, F)[n] = F[n]
    BY UnionForest
  <2> QED
    BY <2>1, <2>2, <2>3, <2>4
<1>2. PICK d, r, o : d = s.dentries /\ r = s.root /\ o = s.orphans /\ s = State(d, r, o)
  BY StateIs
<1>3. ASSUME NEW x, NEW f PROVE With(State(x, r, o), f) = State(Join(x, f), r, o)
  <2>1. PICK w : w = State(x, r, o)
    OBVIOUS
  <2>2. w.dentries = x
    BY <2>1 DEF State
  <2>3. [w EXCEPT !.dentries = Join(w.dentries, f)] = State(Join(x, f), r, o)
    BY <2>1, <2>2 DEF State
  <2>4. With(w, f) = [w EXCEPT !.dentries = Join(w.dentries, f)]
    BY DEF With, Join
  <2> QED
    BY <2>1, <2>3, <2>4
<1>4. Join(Join(d, P), F) = Join(d, Q)
  <2>1. PICK e, g, h : e = Join(d, P) /\ g = Join(e, F) /\ h = Join(d, Q)
    OBVIOUS
  <2>2. /\ DOMAIN e = DOMAIN d \cup DOMAIN P
        /\ \A n \in DOMAIN e : e[n] = IF n \in DOMAIN P THEN P[n] ELSE d[n]
    BY <2>1 DEF Join
  <2>3. /\ DOMAIN g = DOMAIN e \cup DOMAIN F /\ g = [n \in DOMAIN g |-> g[n]]
        /\ \A n \in DOMAIN g : g[n] = IF n \in DOMAIN F THEN F[n] ELSE e[n]
    BY <2>1 DEF Join
  <2>4. /\ DOMAIN h = DOMAIN d \cup DOMAIN Q /\ h = [n \in DOMAIN h |-> h[n]]
        /\ \A n \in DOMAIN h : h[n] = IF n \in DOMAIN Q THEN Q[n] ELSE d[n]
    BY <2>1 DEF Join
  <2>5. DOMAIN g = DOMAIN h /\ \A n \in DOMAIN g : g[n] = h[n]
    BY <1>1, <2>2, <2>3, <2>4
  <2>6. g = h
    BY <2>3, <2>4, <2>5
  <2> QED
    BY <2>1, <2>6
<1>5. Part(Q, DOMAIN P) = P
  <2>1. P = [n \in DOMAIN P |-> P[n]]
    BY DEF Forest, Dentries
  <2>2. PICK g : g = Part(Q, DOMAIN P)
    OBVIOUS
  <2>3. DOMAIN g = DOMAIN P /\ g = [n \in DOMAIN g |-> g[n]] /\ \A n \in DOMAIN P : g[n] = P[n]
    BY <1>1, <2>2 DEF Part
  <2> QED
    BY <2>1, <2>2, <2>3
<1>6. With(With(s, P), F) = With(s, Q)
  BY <1>2, <1>3, <1>4
<1> QED
  BY <1>1, <1>5, <1>6 DEF Both

LEMMA FillerIs ==
    ASSUME NEW f, f # None, NEW x \in Labels, NEW F,
           F = [n \in {f} |-> [name |-> x, short |-> FALSE, dir |-> TRUE, parent |-> f]]
    PROVE  /\ Forest(F) /\ DOMAIN F = {f} /\ F[f].name = x /\ F[f].dir /\ F[f].parent = f
<1>1. /\ DOMAIN F = {f} /\ F[f].name = x /\ F[f].dir = TRUE /\ F[f].parent = f
  OBVIOUS
<1>2. F \in Dentries({f})
  BY DEF Dentries
<1>3. Acyclic(F)
  BY <1>1 DEF Acyclic
<1> QED
  BY <1>1, <1>2, <1>3 DEF Forest

LEMMA AfterFirst ==
    ASSUME NEW w, NEW X, NEW qs \in Seq(X), Len(qs) \in Nat, Len(qs) > 0
    PROVE  After(w, qs, 1) = Do(w, qs[1])
<1>1. /\ After(w, qs, 0) = w
      /\ \A k \in 0..(Len(qs) - 1) : After(w, qs, k + 1) = Do(After(w, qs, k), qs[k + 1])
  <2>1. OneByOne(w, qs)
    BY FoldSteps
  <2> QED
    BY <2>1 DEF OneByOne
<1>2. 0 \in 0..(Len(qs) - 1)
  OBVIOUS
<1>3. After(w, qs, 0 + 1) = Do(After(w, qs, 0), qs[0 + 1])
  BY <1>1, <1>2
<1> QED
  BY <1>1, <1>3

LEMMA AfterOne ==
    ASSUME NEW w, NEW q, NEW qs, qs = <<q>>
    PROVE  Len(qs) = 1 /\ After(w, qs, 0) = w /\ After(w, qs, 1) = Do(w, q)
<1>1. PICK X, ps : X = {q} /\ ps = <<q>> /\ ps = qs
  OBVIOUS
<1>2. ps \in Seq(X) /\ Len(ps) = 1 /\ ps[1] = q
  BY <1>1
<1>3. Len(ps) \in Nat /\ Len(ps) > 0
  BY <1>2
<1>4. After(w, ps, 0) = w
  BY ONLY <1>2, FoldSteps DEF OneByOne
<1>5. After(w, ps, 1) = Do(w, ps[1])
  BY ONLY <1>2, <1>3, AfterFirst
<1> QED
  BY <1>1, <1>2, <1>4, <1>5

LEMMA JournalOne ==
    ASSUME NEW w, NEW q, Journal(w, <<q>>, FALSE)
    PROVE  image' = Do(w, q) /\ prims' = Extended(prims, cur, <<q>>, 1)
<1>1. PICK qs : qs = <<q>>
  OBVIOUS
<1>2. PICK k \in 0..Len(qs) : /\ ~(k < Len(qs))
                              /\ image' = After(w, qs, k) /\ prims' = Extended(prims, cur, qs, k)
  BY <1>1 DEF Journal, After, Extended
<1>3. Len(qs) = 1 /\ After(w, qs, 1) = Do(w, q)
  BY <1>1, AfterOne
<1>4. k = 1
  BY <1>2, <1>3
<1> QED
  BY <1>1, <1>2, <1>3, <1>4

LEMMA MakeFillerKeeps ==
    ASSUME IInv, MakeFiller
    PROVE  IInv'
<1>1. pc = "attach" /\ Missing # {} /\ ~WayIsBarred /\ cmds' = cmds
  BY DEF MakeFiller
<1>2. CommandsOK /\ Undoable /\ IdsOK /\ AttachOK
  BY <1>1 DEF IInv
<1>3. PICK s, R, N, P : UndoableWith(s, R, N, P)
  BY <1>2 DEF Undoable
<1>4. PICK c, k, p, f, par, x, F :
          /\ c = cur /\ k = Deepest + 1 /\ p = Prefix(k) /\ f = <<-cur, Prefix(k)>>
          /\ par = (IF k = 0 THEN None ELSE Get(image, Prefix(k - 1))) /\ x = NameOf(Prefix(k))
          /\ F = [n \in {f} |-> [name |-> x, short |-> FALSE, dir |-> TRUE, parent |-> f]]
  OBVIOUS
<1>5. PICK w, q : w = With(image, F) /\ q = LinkPrim(f, par)
  OBVIOUS
<1>6. \/ Journal(w, <<q>>, FALSE) /\ pc' = pc /\ stack' = stack
      \/ AttachFails
  BY <1>4, <1>5 DEF MakeFiller
<1>7. CASE AttachFails
  BY <1>1, <1>7, AttachFailsKeeps
<1>8. CASE Journal(w, <<q>>, FALSE) /\ pc' = pc /\ stack' = stack
  <2>1. image' = Do(w, q) /\ prims' = Extended(prims, c, <<q>>, 1)
    BY <1>4, <1>8, JournalOne
  <2>2. Seen(s, N, P)
    BY <1>3, SeenIs
  <2>3. /\ c \in Nat /\ c # 0 /\ cmd.path \in Seq(Names)
    BY <1>1, <1>2, <1>4, CommandIs DEF Adding
  <2>4. /\ k \in 0..(Len(cmd.path) - 1) /\ Get(image, p) = None
        /\ k > 0 => Get(image, Prefix(k - 1)) # None
    <3>1. /\ Deepest + 1 \in 0..(Len(cmd.path) - 1) /\ Get(image, Prefix(Deepest + 1)) = None
          /\ Deepest + 1 > 0 => Get(image, Prefix(Deepest)) # None
      BY <1>1, <1>2, MissingIs
    <3>2. Deepest \in Int
      <4>1. Missing \subseteq Nat /\ Missing # {}
        BY <1>1 DEF Missing
      <4>2. PICK m \in Missing : \A y \in Missing : m <= y
        BY <4>1, LeastOf
      <4>3. Min(Missing) \in Missing
        BY <4>2 DEF Min
      <4>4. Min(Missing) \in Nat
        BY <4>1, <4>3
      <4> QED
        BY <1>1, <4>4 DEF Deepest
    <3>3. k - 1 = Deepest
      BY <1>4, <3>2
    <3> QED
      BY <1>4, <3>1, <3>3
  <2>5. /\ p \in Seq(Names) /\ Len(p) = k /\ (k = 0 => p = <<>>)
        /\ k > 0 => p # <<>> /\ Front(p) = Prefix(k - 1)
        /\ Len(cmd.path) \in Nat
    <3>1. PICK y, m : y = cmd.path /\ m = k
      OBVIOUS
    <3>2. y \in Seq(Names) /\ Len(y) \in Nat /\ m \in 0..Len(y)
      BY <2>3, <2>4, <3>1
    <3>3. /\ SubSeq(y, 1, m) \in Seq(Names) /\ Len(SubSeq(y, 1, m)) = m
          /\ m = 0 => SubSeq(y, 1, m) = <<>>
          /\ m > 0 => /\ SubSeq(y, 1, m) # <<>>
                      /\ Front(SubSeq(y, 1, m)) = SubSeq(y, 1, m - 1)
      BY <3>2, PrefixIs
    <3> QED
      BY <1>4, <3>1, <3>2, <3>3 DEF Prefix
  <2>6. f # None /\ f[1] = -c /\ f[2] = p /\ f = <<-c, p>>
    <3>1. f[1] = -c /\ f[2] = p /\ f = <<-c, p>>
      BY <1>4
    <3>2. None[1] = 0
      BY DEF None
    <3>3. -c # 0
      BY <2>3
    <3> QED
      BY <3>1, <3>2, <3>3
  <2>7. x \in Labels /\ (k > 0 => x = Last(p) /\ x \in Names)
    <3>1. p # <<>> => Last(p) \in Names
      BY <2>5, PathIs
    <3> QED
      BY <1>4, <3>1, <2>5 DEF NameOf, Labels
  <2>8. Forest(F) /\ DOMAIN F = {f} /\ F[f].name = x /\ F[f].dir /\ F[f].parent = f
    BY <1>4, <2>6, <2>7, FillerIs
  <2>9. f \notin Nodes(image)
    <3> SUFFICES ASSUME f \in Nodes(image) PROVE FALSE
      OBVIOUS
    <3>1. Get(image, f[2]) = f
      BY <1>1, <1>2, <1>4, <2>6 DEF AttachOK
    <3> QED
      BY <2>4, <2>6, <3>1
  <2>10. /\ image = With(s, P) /\ Fits(s, N) /\ Forest(P) /\ N \cap DOMAIN P = {}
         /\ DOMAIN P \cap DOMAIN F = {} /\ N \cap DOMAIN F = {} /\ f \notin DOMAIN P
         /\ Nodes(image) = N \cup DOMAIN P
    BY <1>3, <2>2, <2>8, <2>9 DEF UndoableWith, Seen
  <2>11. PICK Q, K : Q = Join(P, F) /\ K = {f}
    OBVIOUS
  <2>12. /\ w = With(s, Q) /\ Forest(Q)
         /\ DOMAIN Q = DOMAIN P \cup {f}
         /\ (\A n \in DOMAIN P : Q[n] = P[n]) /\ Q[f] = F[f]
         /\ Part(Q, DOMAIN P) = P
    <3>1. Both(s, P, F, Q)
      BY <2>8, <2>10, <2>11, WithTwice
    <3> QED
      BY <1>5, <2>8, <2>10, <3>1 DEF Both
  <2>13. par # None => /\ par = Get(s, Prefix(k - 1)) /\ k > 0 /\ par \in N
                       /\ s.dentries[par].dir /\ Child(s, par, x) = None
    <3> SUFFICES ASSUME par # None
                 PROVE  /\ par = Get(s, Prefix(k - 1)) /\ k > 0 /\ par \in N
                        /\ s.dentries[par].dir /\ Child(s, par, x) = None
      OBVIOUS
    <3>1. k > 0 /\ par = Get(image, Prefix(k - 1))
      BY <1>4, <2>4
    <3>2. Prefix(k - 1) \in Seq(Names)
      BY <2>5, <3>1, PathIs
    <3>3. par = Get(s, Prefix(k - 1))
      BY <2>2, <3>1, <3>2 DEF Seen
    <3>4. par \in N
      BY <2>10, <3>2, <3>3, GetInImage
    <3>5. image.dentries[par].dir
      <4>1. Deepest = k - 1 /\ Deepest >= 0
        <5>1. Missing \subseteq Nat /\ Missing # {}
          BY <1>1 DEF Missing
        <5>2. PICK m \in Missing : \A y \in Missing : m <= y
          BY <5>1, LeastOf
        <5>3. Min(Missing) \in Missing
          BY <5>2 DEF Min
        <5>4. Min(Missing) \in Nat
          BY <5>1, <5>3
        <5>5. Deepest \in Int
          BY <1>1, <5>4 DEF Deepest
        <5> QED
          BY <1>4, <2>4, <3>1, <5>5
      <4> QED
        BY <1>1, <3>1, <4>1 DEF WayIsBarred
    <3>6. Get(s, p) = None
      BY <2>2, <2>4, <2>5 DEF Seen
    <3>7. Child(s, par, x) = None
      BY <2>5, <2>7, <3>1, <3>3, <3>6, GetUnfold
    <3> QED
      BY <2>2, <3>1, <3>3, <3>4, <3>5, <3>7 DEF Seen
  <2>14. par = None => k = 0 /\ s.root = None
    <3> SUFFICES ASSUME par = None PROVE k = 0 /\ s.root = None
      OBVIOUS
    <3>1. k = 0
      BY <1>4, <2>4
    <3>2. Get(s, <<>>) = None
      BY <2>2, <2>4, <2>5, <3>1 DEF Seen
    <3> QED
      BY <2>5, <3>1, <3>2, GetUnfold
  <2>15. Graftable(s, N, Q, K, f, par)
    <3>1. Closed(Q, K)
      BY <2>8, <2>11, <2>12 DEF Closed
    <3>2. DOMAIN Q \ K = DOMAIN P
      BY <2>10, <2>11, <2>12
    <3>3. Closed(Q, DOMAIN P)
      BY <2>2, <2>12 DEF Closed, Seen
    <3>4. Roots(Part(Q, K)) = {f}
      BY <2>8, <2>11, <2>12 DEF Roots, Part
    <3>5. Place(s, N, Q[f].name, Q[f].dir, par)
      <4>1. CASE par # None
        <5>1. Named(s, par, x) = {}
          BY <2>10, <2>13, <4>1, ChildIs DEF Fits, Forest, Nodes
        <5> QED
          BY <2>8, <2>12, <2>13, <4>1, <5>1 DEF Place
      <4>2. CASE par = None
        BY <2>8, <2>12, <2>14, <4>2 DEF Place
      <4> QED
        BY <4>1, <4>2
    <3>6. N \cap DOMAIN Q = {} /\ f \in K
      BY <2>8, <2>10, <2>11, <2>12
    <3>7. Closed(Q, DOMAIN Q \ K)
      BY <3>2, <3>3
    <3> QED
      BY <2>10, <2>12, <3>1, <3>4, <3>5, <3>6, <3>7 DEF Graftable
  <2>16. <<s, prims>> \in R /\ Safe(R, N, c)
    BY <1>3, <1>4 DEF UndoableWith
  <2>17. PICK t, S, M : /\ M = N \cup K /\ Fits(t, M)
                        /\ Safe(S, M, c) /\ <<t, Extended(prims, c, <<q>>, 1)>> \in S
                        /\ Do(With(s, Q), q) = With(t, Part(Q, DOMAIN Q \ K))
    <3>1. \E t, S, M : Grafted(s, N, Q, K, q, prims, c, t, S, M)
      BY <1>5, <2>3, <2>15, <2>16, GraftIsSafe
    <3> QED
      BY <3>1 DEF Grafted
  <2>18. image' = With(t, P) /\ M \cap DOMAIN P = {}
    <3>1. DOMAIN Q \ K = DOMAIN P
      BY <2>10, <2>11, <2>12
    <3> QED
      BY <2>1, <2>10, <2>11, <2>12, <2>17, <3>1
  <2>19. cur' = c /\ BranchRoots' = BranchRoots /\ stack' = <<>> /\ pc' = "attach"
         /\ Branch' = Branch /\ cmd' = cmd
    BY <1>1, <1>3, <1>4, <1>8 DEF cur, BranchRoots, Branch, UndoableWith, StackOK, cmd
  <2>20. StackOK(M, P)'
    BY <2>19 DEF StackOK
  <2>21. UndoableWith(t, S, M, P)'
    BY <1>3, <1>4, <2>1, <2>17, <2>18, <2>19, <2>20 DEF UndoableWith
  <2>22. Undoable'
    BY <2>21 DEF Undoable
  <2>23. /\ Nodes(image') = N \cup DOMAIN Q
         /\ image'.root = (IF par = None THEN f ELSE w.root) /\ w.root = s.root
         /\ \A m \in Nodes(w) : /\ m # f => image'.dentries[m] = w.dentries[m]
                                /\ image'.dentries[m].dir = w.dentries[m].dir
                                /\ image'.dentries[m].name = w.dentries[m].name
         /\ par # None => image'.dentries[f].parent = par
         /\ Nodes(w) = N \cup DOMAIN Q
    BY <1>5, <2>1, <2>12, <2>15, GraftShows
  <2>24. /\ \A m \in N : w.dentries[m] = s.dentries[m]
         /\ \A m \in DOMAIN Q : w.dentries[m] = Q[m]
    <3>1. N \cap DOMAIN Q = {}
      BY <2>10, <2>8, <2>12
    <3> QED
      BY <2>10, <2>12, <3>1, WithIs
  <2>25. IdsOK'
    <3>1. ASSUME NEW n \in Nodes(image)
          PROVE  /\ n = <<n[1], n[2]>> /\ n[1] \in Int /\ -c <= n[1] /\ n[1] <= c
                 /\ n[2] \in Seq(Names)
      BY <1>2, <1>4 DEF IdsOK
    <3>2. /\ f = <<f[1], f[2]>> /\ f[1] \in Int /\ -c <= f[1] /\ f[1] <= c
          /\ f[2] \in Seq(Names)
      BY <2>3, <2>5, <2>6
    <3>3. Nodes(image') = Nodes(image) \cup {f}
      BY <2>10, <2>12, <2>23
    <3> QED
      BY <2>19, <3>1, <3>2, <3>3 DEF IdsOK
  <2>26. /\ cmd.path = <<>> => image'.dentries[Branch].dir
         /\ image'.dentries[Branch].name = NameOf(cmd.path)
    <3>1. Branch \in DOMAIN P
      <4>1. Roots(P) = BranchRoots /\ Branch \in BranchRoots
        BY <1>1, <1>3 DEF UndoableWith, BranchRoots, Adding
      <4> QED
        BY <4>1 DEF Roots
    <3>2. /\ Branch \in Nodes(w) /\ w.dentries[Branch] = P[Branch]
          /\ image.dentries[Branch] = P[Branch]
      BY <2>2, <2>12, <2>23, <2>24, <3>1 DEF Seen
    <3> QED
      BY <1>1, <1>2, <2>23, <3>2 DEF AttachOK
  <2>27. ASSUME NEW n \in Nodes(image'), n[1] = -c PROVE Get(image', n[2]) = n
    <3>1. /\ t.root = image'.root /\ \A m \in M : t.dentries[m] = image'.dentries[m]
          /\ \A y \in Seq(Names) : Get(image', y) = Get(t, y)
      <4>1. Forest(P) /\ Fits(t, M) /\ M \cap DOMAIN P = {}
        BY <2>10, <2>17, <2>18
      <4>2. /\ With(t, P).root = t.root
            /\ \A m \in M : With(t, P).dentries[m] = t.dentries[m]
        BY <4>1, WithIs
      <4>3. \A y \in Seq(Names) : Get(With(t, P), y) = Get(t, y)
        BY <4>1, GetWith
      <4> QED
        BY <2>18, <4>2, <4>3
    <3>2. N \subseteq M /\ f \in M /\ f \notin N
      BY <2>8, <2>10, <2>11, <2>17
    <3>3. \A m \in N : t.dentries[m] = s.dentries[m]
      BY <2>23, <2>24, <3>1, <3>2
    <3>4. s.root = None \/ t.root = s.root
      BY <2>14, <2>23, <3>1
    <3>5. \A y \in Seq(Names) : Get(s, y) # None => Get(t, y) = Get(s, y)
      BY <2>10, <2>17, <3>2, <3>3, <3>4, GetStays
    <3>6. CASE n # f
      <4>1. n \in Nodes(image) /\ n[2] \in Seq(Names)
        BY <1>2, <2>10, <2>12, <2>23, <2>27, <3>6 DEF IdsOK
      <4>2. Get(image, n[2]) = n
        BY <1>1, <1>2, <1>4, <2>27, <4>1 DEF AttachOK
      <4>3. Get(s, n[2]) = n
        BY <2>2, <4>1, <4>2 DEF Seen
      <4>4. n # None
        BY <2>10, <4>1 DEF Fits, Forest, Nodes
      <4> QED
        BY <3>1, <3>5, <4>1, <4>3, <4>4
    <3>7. CASE n = f
      <4>1. CASE par = None
        <5>1. p = <<>> /\ t.root = f
          BY <2>5, <2>14, <2>23, <3>1, <4>1
        <5>2. Get(t, p) = f
          BY <2>5, <5>1, GetUnfold
        <5> QED
          BY <2>5, <2>6, <3>1, <3>7, <5>2
      <4>2. CASE par # None
        <5>1. /\ p # <<>> /\ Front(p) = Prefix(k - 1) /\ x = Last(p)
          BY <2>5, <2>7, <2>13, <4>2
        <5>2. Front(p) \in Seq(Names)
          BY <2>5, <5>1, PathIs
        <5>3. Get(t, Front(p)) = par
          BY <2>13, <3>5, <4>2, <5>1, <5>2
        <5>4. t.dentries[f].parent = par /\ f # par /\ t.dentries[f].name = x
          <6>1. f \in Nodes(w) /\ w.dentries[f] = F[f]
            BY <2>12, <2>23, <2>24
          <6> QED
            BY <2>8, <2>13, <2>23, <3>1, <3>2, <4>2, <6>1
        <5>5. Child(t, par, x) = f
          BY <2>17, <3>2, <5>4, ChildUnique
        <5>6. Get(t, p) = f
          BY <2>5, <4>2, <5>1, <5>3, <5>5, GetUnfold
        <5> QED
          BY <2>5, <2>6, <3>1, <3>7, <5>6
      <4> QED
        BY <4>1, <4>2
    <3> QED
      BY <3>6, <3>7
  <2>28. AttachOK'
    BY <2>19, <2>26, <2>27 DEF AttachOK
  <2>29. CommandsOK'
    BY <1>1, <1>2, <2>19 DEF CommandsOK, Adding
  <2> QED
    BY <2>19, <2>22, <2>25, <2>28, <2>29 DEF IInv
<1> QED
  BY <1>6, <1>7, <1>8

LEMMA ExtendedNone ==
    ASSUME NEW X, NEW j \in Seq(Seq(X)), NEW c \in 1..Len(j), NEW qs, SubSeq(qs, 1, 0) = <<>>
    PROVE  Extended(j, c, qs, 0) = j
<1>1. PICK a \in Seq(X) : a = j[c]
  OBVIOUS
<1>2. a \o <<>> = a
  OBVIOUS
<1>3. [j EXCEPT ![c] = a] = j
  BY <1>1
<1> QED
  BY <1>1, <1>2, <1>3 DEF Extended

(* What LinkOr does when a link can not be recorded. *)
LinkFails(w, qs, chain) ==
    /\ \E k \in 0..(Len(qs) - 1) :
          image' = Refuse(After(w, qs, k), chain) /\ prims' = Extended(prims, cur, qs, k)
    /\ pc' = "rollback" /\ stack' = <<>>

LEMMA OneRefused ==
    ASSUME NEW s, NEW R, NEW N, NEW P, Fits(s, N), BranchOK(P, cur), N \cap DOMAIN P = {},
           <<s, prims>> \in R, Safe(R, N, cur), cur \in Nat, cur # 0,
           NEW chain, ChainOK(chain, P, cur), NEW w, w = With(s, P), NEW q,
           LinkFails(w, <<q>>, chain), cmds' = cmds
    PROVE  Undoable' /\ Nodes(image') = N /\ pc' = "rollback"
<1>1. PICK qs : qs = <<q>>
  OBVIOUS
<1>2. Len(qs) = 1 /\ After(w, qs, 0) = w
  BY <1>1, AfterOne
<1>3. PICK k \in 0..(Len(qs) - 1) :
         image' = Refuse(After(w, qs, k), chain) /\ prims' = Extended(prims, cur, qs, k)
  BY <1>1 DEF LinkFails
<1>4. k = 0
  BY <1>2, <1>3
<1>5. image' = Refuse(With(s, P), chain) /\ prims' = Extended(prims, cur, qs, 0)
  BY <1>2, <1>3, <1>4
<1>6. PICK j, c, X : j = prims /\ c = cur /\ X = Prims(N)
  OBVIOUS
<1>7. j \in Seq(Seq(X)) /\ Len(j) = c
  <2>1. PICK e : e = <<s, j>>
    OBVIOUS
  <2>2. e \in R /\ e[2] = j
    BY <1>6, <2>1
  <2> QED
    BY <1>6, <2>2 DEF Safe
<1>8. c \in 1..Len(j)
  BY <1>6, <1>7
<1>9. SubSeq(qs, 1, 0) = <<>>
  BY <1>1
<1>10. Extended(j, c, qs, 0) = j
  BY <1>7, <1>8, <1>9, ExtendedNone
<1>11. prims' = prims
  BY <1>5, <1>6, <1>10
<1>12. stack' = <<>> /\ pc' = "rollback"
  BY DEF LinkFails
<1> QED
  BY <1>5, <1>11, <1>12, RefusedIs

Linked(N, K, P, t, S, M) ==
    /\ M = N \cup K /\ Fits(t, M) /\ Safe(S, M, cur) /\ <<t, prims'>> \in S
    /\ image' = With(t, Part(P, DOMAIN P \ K)) /\ Nodes(image') = N \cup DOMAIN P

LEMMA OneLinked ==
    ASSUME NEW s, NEW N, NEW P, NEW K, NEW n, NEW p, Graftable(s, N, P, K, n, p),
           NEW R, <<s, prims>> \in R, Safe(R, N, cur), cur # 0,
           NEW w, w = With(s, P), NEW q, q = LinkPrim(n, p), Journal(w, <<q>>, FALSE)
    PROVE  \E t, S, M : Linked(N, K, P, t, S, M)
<1>1. image' = Do(w, q) /\ prims' = Extended(prims, cur, <<q>>, 1)
  BY JournalOne
<1>2. PICK c, j : c = cur /\ j = prims
  OBVIOUS
<1>3. <<s, j>> \in R /\ Safe(R, N, c) /\ c # 0
  BY <1>2
<1>4. \E t, S, M : Grafted(s, N, P, K, q, j, c, t, S, M)
  BY <1>3, GraftIsSafe
<1>5. PICK t, S, M : Grafted(s, N, P, K, q, j, c, t, S, M)
  BY <1>4
<1>6. Nodes(Do(w, q)) = N \cup DOMAIN P
  BY GraftShows
<1> QED
  BY <1>1, <1>2, <1>5, <1>6 DEF Grafted, Linked

(* The whole branch is linked. *)
NothingLeft(P, K) == \A t, M : Fits(t, M) => With(t, Part(P, DOMAIN P \ K)) = t

LEMMA WholeIsGraftable ==
    ASSUME NEW s, NEW N, NEW P, Fits(s, N), Forest(P), N \cap DOMAIN P = {},
           NEW b, Roots(P) = {b}, NEW p, Place(s, N, P[b].name, P[b].dir, p),
           NEW K, K = DOMAIN P
    PROVE  Graftable(s, N, P, K, b, p) /\ NothingLeft(P, K)
<1>1. Closed(P, K) /\ Closed(P, DOMAIN P \ K)
  BY DEF Closed, Forest, Dentries
<1>2. b \in K
  BY DEF Roots
<1>3. Part(P, K) = P
  BY DEF Part, Forest, Dentries
<1>4. Graftable(s, N, P, K, b, p)
  BY <1>1, <1>2, <1>3 DEF Graftable
<1>5. PICK E : E = Part(P, DOMAIN P \ K)
  OBVIOUS
<1>6. Forest(E) /\ DOMAIN E = {}
  <2>1. E = [n \in {} |-> n]
    BY <1>5 DEF Part
  <2> QED
    BY <2>1, EmptyForest
<1>7. \A t, M : Fits(t, M) => With(t, E) = t
  BY <1>6, WithNothing
<1> QED
  BY <1>4, <1>5, <1>7 DEF NothingLeft

(* Where the branch goes when nothing is in its place. *)
LEMMA AttachPlace ==
    ASSUME CommandsOK, AttachOK, pc = "attach", Missing = {}, ~WayIsBarred,
           NEW s, NEW N, NEW P, Seen(s, N, P), Branch \in DOMAIN P, Get(image, cmd.path) = None,
           NEW p, p = IF cmd.path = <<>> THEN None ELSE Get(image, Front(cmd.path))
    PROVE  Place(s, N, P[Branch].name, P[Branch].dir, p)
<1>1. PICK y : y = cmd.path
  OBVIOUS
<1>2. y \in Seq(Names) /\ Len(y) \in Nat
  BY <1>1, CommandIs DEF Adding
<1>3. image.dentries[Branch] = P[Branch] /\ Fits(s, N) /\ Get(s, y) = None
  BY <1>1, <1>2 DEF Seen
<1>4. (y = <<>> => P[Branch].dir) /\ P[Branch].name = NameOf(y)
  BY <1>1, <1>3 DEF AttachOK
<1>5. CASE y = <<>>
  <2>1. s.root = None
    BY <1>2, <1>3, <1>5, GetUnfold
  <2> QED
    BY <1>1, <1>4, <1>5, <2>1 DEF Place
<1>6. CASE y # <<>>
  <2>1. Front(y) \in Seq(Names) /\ Len(y) > 0
    BY <1>2, <1>6, PathIs
  <2>2. PICK m : m = Len(y) - 1
    OBVIOUS
  <2>3. SubSeq(y, 1, m) = Front(y) /\ m \in 0..(Len(y) - 1) /\ m >= 0
    <3>1. PICK k \in 0..Len(y) : k = Len(y)
      BY <1>2
    <3>2. SubSeq(y, 1, k - 1) = Front(y)
      BY <1>2, <2>1, <3>1, PrefixIs
    <3> QED
      BY <1>2, <2>1, <2>2, <3>1, <3>2
  <2>4. Deepest = m /\ Prefix(m) = Front(y)
    BY <1>1, <2>2, <2>3 DEF Deepest, Prefix
  <2>5. p = Get(image, Front(y)) /\ p # None
    <3>1. m \notin Missing
      OBVIOUS
    <3>2. Get(image, Prefix(m)) # None
      BY <1>1, <2>3, <3>1 DEF Missing
    <3> QED
      BY <1>1, <1>6, <2>4, <3>2
  <2>6. image.dentries[p].dir
    BY <2>3, <2>4, <2>5 DEF WayIsBarred
  <2>7. p = Get(s, Front(y))
    BY <2>1, <2>5 DEF Seen
  <2>8. p \in N
    BY <1>3, <2>1, <2>5, <2>7, GetInImage
  <2>9. s.dentries[p].dir
    BY <2>6, <2>8 DEF Seen
  <2>10. P[Branch].name = Last(y)
    BY <1>4, <1>6 DEF NameOf
  <2>11. Child(s, p, Last(y)) = None
    BY <1>2, <1>3, <1>6, <2>5, <2>7, GetUnfold
  <2>12. None \notin Nodes(s)
    BY <1>3 DEF Fits, Forest, Nodes
  <2>13. Named(s, p, Last(y)) = {}
    BY <2>11, <2>12, ChildIs
  <2> QED
    BY <2>8, <2>9, <2>10, <2>13 DEF Place
<1> QED
  BY <1>5, <1>6

LEMMA AttachKeeps ==
    ASSUME IInv, Attach
    PROVE  IInv'
<1>1. pc = "attach" /\ (Missing = {} \/ WayIsBarred) /\ cmds' = cmds
  BY DEF Attach
<1>2. CommandsOK /\ Undoable /\ IdsOK /\ AttachOK
  BY <1>1 DEF IInv
<1>3. PICK s, R, N, P : UndoableWith(s, R, N, P)
  BY <1>2 DEF Undoable
<1>4. Seen(s, N, P)
  BY <1>3, SeenIs
<1>5. stack = <<>>
  BY <1>1, <1>3 DEF UndoableWith, StackOK
<1>6. Roots(P) = {Branch} /\ Branch \in DOMAIN P
  <2>1. BranchRoots = {Branch}
    BY <1>1, <1>5 DEF BranchRoots, Adding
  <2> QED
    BY <1>3, <2>1 DEF UndoableWith, Roots
<1>7. cur \in Nat /\ cur # 0 /\ cmd.path \in Seq(Names)
  BY <1>1, <1>2, CommandIs DEF Adding
<1>8. PICK e, p, y, b, c : /\ e = Get(image, cmd.path) /\ y = cmd.path /\ b = Branch /\ c = cur
                        /\ p = (IF cmd.path = <<>> THEN None ELSE Get(image, Front(cmd.path)))
  OBVIOUS
<1>9. cur' = cur /\ Branch' = Branch /\ cmd' = cmd
  BY <1>1 DEF cur, Branch, cmd
<1>10. ASSUME pc' \in Adding \cup {"end", "rollback"}, pc' # "attach",
              Nodes(image') \subseteq Nodes(image), Undoable'
       PROVE  IInv'
  <2>1. IdsOK' /\ AttachOK'
    BY <1>1, <1>2, <1>10, IdsKept DEF AttachOK, Adding
  <2>2. CommandsOK'
    BY <1>1, <1>2, <1>9, <1>10 DEF CommandsOK, Adding
  <2> QED
    BY <1>10, <2>1, <2>2 DEF IInv, Adding
<1>11. CASE WayIsBarred
  <2>1. AttachFails
    BY <1>11 DEF Attach
  <2> QED
    BY <1>1, <2>1, AttachFailsKeeps
<1>12. CASE ~WayIsBarred /\ e = None
  <2>1. PICK q : q = LinkPrim(b, p)
    OBVIOUS
  <2>2. LinkOr(image, <<q>>, <<b>>, pc' = "end" /\ UNCHANGED stack)
    BY <1>8, <1>12, <2>1 DEF Attach
  <2>3. \/ Journal(image, <<q>>, FALSE) /\ pc' = "end" /\ stack' = stack
        \/ LinkFails(image, <<q>>, <<b>>)
    BY <2>2 DEF LinkOr, LinkFails, After, Extended
  <2>4. CASE LinkFails(image, <<q>>, <<b>>)
    <3>1. ChainOK(<<b>>, P, cur)
      BY <1>3, <1>6, <1>8, WholeBranch DEF UndoableWith, Branch
    <3>2. /\ Fits(s, N) /\ BranchOK(P, cur) /\ N \cap DOMAIN P = {}
          /\ <<s, prims>> \in R /\ Safe(R, N, cur) /\ image = With(s, P)
      BY <1>3, <1>4 DEF UndoableWith, Seen
    <3>3. Undoable' /\ Nodes(image') = N /\ pc' = "rollback"
      BY <1>1, <1>7, <2>4, <3>1, <3>2, OneRefused
    <3>4. Nodes(image') \subseteq Nodes(image)
      BY <1>4, <3>3 DEF Seen
    <3> QED
      BY <1>10, <3>3, <3>4 DEF Adding
  <2>5. CASE Journal(image, <<q>>, FALSE) /\ pc' = "end" /\ stack' = stack
    <3>1. Place(s, N, P[b].name, P[b].dir, p)
      BY <1>1, <1>2, <1>4, <1>6, <1>8, <1>12, AttachPlace
    <3>2. PICK K : K = DOMAIN P
      OBVIOUS
    <3>3. Fits(s, N) /\ Forest(P) /\ N \cap DOMAIN P = {} /\ Roots(P) = {b}
      BY <1>4, <1>6, <1>8 DEF Seen
    <3>4. Graftable(s, N, P, K, b, p) /\ NothingLeft(P, K)
      BY <3>1, <3>2, <3>3, WholeIsGraftable
    <3>5. <<s, prims>> \in R /\ Safe(R, N, cur) /\ image = With(s, P)
      BY <1>3 DEF UndoableWith
    <3>6. \E t, S, M : Linked(N, K, P, t, S, M)
      BY <1>7, <2>1, <2>5, <3>4, <3>5, OneLinked
    <3>7. PICK t, S, M : Linked(N, K, P, t, S, M)
      BY <3>6
    <3>8. /\ M = N \cup K /\ Fits(t, M) /\ Safe(S, M, cur) /\ <<t, prims'>> \in S
          /\ image' = t
      BY <3>4, <3>7 DEF Linked, NothingLeft
    <3>9. AtRest(S, M)'
      BY <1>5, <1>9, <2>5, <3>8 DEF AtRest
    <3>10. Undoable'
      BY <2>5, <3>9, RestIsUndoable DEF Adding
    <3>11. Nodes(image') \subseteq Nodes(image)
      BY <1>4, <3>2, <3>8 DEF Seen, Fits
    <3> QED
      BY <1>10, <2>5, <3>10, <3>11 DEF Adding
  <2> QED
    BY <2>3, <2>4, <2>5
<1>13. CASE ~WayIsBarred /\ e # None
  <2>1. PICK z : z = <<[branch |-> b, existing |-> e]>>
    OBVIOUS
  <2>2. stack' = z /\ pc' = "conflict" /\ image' = image /\ prims' = prims
    BY <1>8, <1>13, <2>1 DEF Attach
  <2>3. Len(z) = 1 /\ DOMAIN z = {1} /\ z[1].branch = b /\ z[1].existing = e
    BY <2>1
  <2>4. e = Get(s, y) /\ e \in N /\ e \notin image.orphans
    <3>1. e = Get(s, y)
      BY <1>4, <1>7, <1>8 DEF Seen
    <3>2. e \in N /\ e \notin s.orphans
      BY <1>4, <1>7, <1>8, <1>13, <3>1, GetInImage DEF Seen
    <3> QED
      BY <1>4, <3>1, <3>2 DEF Seen
  <2>5. BranchRoots' = BranchRoots
    <3>1. BranchRoots = {b}
      BY <1>1, <1>5, <1>8 DEF BranchRoots, Adding
    <3>2. BranchRoots' = {b}
      BY <1>8, <1>9, <2>2, <2>3 DEF BranchRoots, Adding
    <3> QED
      BY <3>1, <3>2
  <2>6. z \in Seq([branch : DOMAIN P, existing : N])
    BY <1>6, <1>8, <2>1, <2>4
  <2>7. b[2] = <<>> /\ Len(b[2]) = 1 - 1
    BY <1>8 DEF Branch
  <2>8. image.dentries[e].parent # e => image.dentries[b].name = image.dentries[e].name
    <3>0. Fits(s, N) /\ y \in Seq(Names) /\ Get(s, y) # None
      BY <1>4, <1>7, <1>8, <1>13, <2>4 DEF Seen
    <3>1. image.dentries[b].name = NameOf(y)
      BY <1>1, <1>2, <1>8 DEF AttachOK
    <3>2. image.dentries[e] = s.dentries[e]
      BY <1>4, <2>4 DEF Seen
    <3>3. CASE y = <<>>
      <4>1. e = s.root
        BY <2>4, <3>0, <3>3, GetInImage
      <4>2. s.dentries[e].parent = e
        BY <1>4, <2>4, <4>1 DEF Seen, Fits
      <4> QED
        BY <3>2, <4>2
    <3>4. CASE y # <<>>
      <4>1. s.dentries[e].name = Last(y)
        BY <2>4, <3>0, <3>4, GetInImage
      <4> QED
        BY <3>1, <3>2, <3>4, <4>1 DEF NameOf
    <3> QED
      BY <3>3, <3>4
  <2>9. StackOK(N, P)'
    <3>1. \A k \in DOMAIN z :
             /\ k = 1 /\ z[k].existing = e /\ z[k].branch = b /\ Len(z) = 1
             /\ e \notin image.orphans
      BY <2>3, <2>4
    <3>2. top' = z[1]
      BY <2>2, <2>3 DEF top
    <3>3. /\ stack' \in Seq([branch : DOMAIN P, existing : N])
          /\ (stack' # <<>> <=> pc' \in {"conflict", "overlay"})
      BY <2>1, <2>2, <2>6
    <3>4. \A k \in DOMAIN z :
             /\ z[k].existing \notin image.orphans
             /\ Len(z[k].branch[2]) = k - 1
             /\ ~(k > 1) /\ ~(k < Len(z))
      <4> SUFFICES ASSUME NEW k \in DOMAIN z
                   PROVE  /\ z[k].existing \notin image.orphans
                          /\ Len(z[k].branch[2]) = k - 1
                          /\ ~(k > 1) /\ ~(k < Len(z))
        OBVIOUS
      <4>1. /\ k = 1 /\ z[k].existing = e /\ z[k].branch = b /\ Len(z) = 1
            /\ e \notin image.orphans
        BY <3>1
      <4>2. Len(z[k].branch[2]) = k - 1
        BY <2>7, <4>1
      <4> QED
        BY <4>1, <4>2
    <3> QED
      BY <2>2, <2>3, <2>8, <3>2, <3>3, <3>4 DEF StackOK
  <2>10. UndoableWith(s, R, N, P)'
    BY <1>3, <1>9, <2>2, <2>5, <2>9 DEF UndoableWith
  <2>11. Undoable'
    BY <2>10 DEF Undoable
  <2> QED
    BY <1>10, <2>2, <2>11 DEF Adding
<1> QED
  BY <1>11, <1>12, <1>13

-----------------------------------------------------------------------------
(* The calls of handle_conflict.                                           *)

LEMMA StackIs ==
    ASSUME NEW s, NEW R, NEW N, NEW P, UndoableWith(s, R, N, P), pc \in {"conflict", "overlay"}
    PROVE  /\ Len(stack) \in Nat /\ Len(stack) > 0 /\ DOMAIN stack = 1..Len(stack)
           /\ stack \in Seq([branch : DOMAIN P, existing : N]) /\ top = stack[Len(stack)]
           /\ top.branch \in DOMAIN P /\ top.existing \in N
           /\ Roots(P) = {stack[k].branch : k \in 1..Len(stack)}
           /\ BranchRoots = Roots(P) /\ stack[1].branch = Branch
<1>1. PICK z, m, T : z = stack /\ m = Len(stack) /\ T = [branch : DOMAIN P, existing : N]
  OBVIOUS
<1>2. z \in Seq(T) /\ z # <<>>
  BY <1>1 DEF UndoableWith, StackOK
<1>3. m \in Nat /\ m > 0 /\ DOMAIN z = 1..m
  BY <1>1, <1>2
<1>4. \A k \in 1..m : z[k] \in T /\ z[k].branch \in DOMAIN P /\ z[k].existing \in N
  <2> SUFFICES ASSUME NEW k \in 1..m
               PROVE  z[k] \in T /\ z[k].branch \in DOMAIN P /\ z[k].existing \in N
    OBVIOUS
  <2>1. z[k] \in T
    BY <1>2, <1>3
  <2> QED
    BY <1>1, <2>1
<1>5. z[1].branch = Branch
  <2>1. Len(z[1].branch[2]) = 1 - 1
    BY <1>1, <1>3 DEF UndoableWith, StackOK
  <2>2. z[1].branch = <<cur, z[1].branch[2]>> /\ z[1].branch[2] \in Seq(Names)
    <3>1. z[1].branch \in DOMAIN P
      BY <1>3, <1>4
    <3>2. \A n \in DOMAIN P : n = <<cur, n[2]>> /\ n[2] \in Seq(Names)
      BY DEF UndoableWith, BranchOK
    <3> QED
      BY <3>1, <3>2
  <2>3. z[1].branch[2] = <<>>
    <3>1. PICK p \in Seq(Names) : p = z[1].branch[2]
      BY <2>2
    <3>2. Len(p) = 0
      BY <2>1, <3>1
    <3>3. p = <<>>
      BY <3>2, PathIs
    <3> QED
      BY <3>1, <3>3
  <2> QED
    BY <2>2, <2>3 DEF Branch
<1>6. BranchRoots = {z[k].branch : k \in 1..m}
  <2>1. Branch \in {z[k].branch : k \in 1..m}
    BY <1>3, <1>5
  <2> QED
    BY <1>1, <1>3, <2>1 DEF BranchRoots
<1>7. BranchRoots = Roots(P)
  BY DEF UndoableWith
<1>8. top = z[m] /\ top.branch \in DOMAIN P /\ top.existing \in N
  BY <1>1, <1>3, <1>4 DEF top
<1> QED
  BY <1>1, <1>2, <1>3, <1>5, <1>6, <1>7, <1>8

LEMMA BranchesAreChain ==
    ASSUME NEW s, NEW R, NEW N, NEW P, UndoableWith(s, R, N, P), pc \in {"conflict", "overlay"}
    PROVE  ChainOK(Branches, P, cur) /\ Len(Branches) = Len(stack)
<1>1. PICK z, m, h : z = stack /\ m = Len(stack) /\ h = Branches
  OBVIOUS
<1>2. /\ m \in Nat /\ m > 0 /\ z \in Seq([branch : DOMAIN P, existing : N]) /\ DOMAIN z = 1..m
      /\ Roots(P) = {z[k].branch : k \in 1..m}
  BY <1>1, StackIs
<1>3. h = [k \in 1..m |-> z[k].branch]
  BY <1>1 DEF Branches
<1>4. h \in Seq(DOMAIN P) /\ Len(h) = m
  <2>1. \A k \in 1..m : z[k].branch \in DOMAIN P
    <3> SUFFICES ASSUME NEW k \in 1..m PROVE z[k].branch \in DOMAIN P
      OBVIOUS
    <3>1. PICK T : T = [branch : DOMAIN P, existing : N]
      OBVIOUS
    <3>2. z \in Seq(T) /\ k \in 1..Len(z)
      BY <1>1, <1>2, <3>1
    <3>3. z[k] \in T
      BY <3>2
    <3> QED
      BY <3>1, <3>3
  <2> QED
    BY <1>2, <1>3, <2>1
<1>5. \A k \in 1..m : h[k] = z[k].branch
  BY <1>3
<1>6. \A k \in 1..m : Len(z[k].branch[2]) = k - 1
  BY <1>1, <1>2 DEF UndoableWith, StackOK
<1>7. \A k \in 2..m : z[k - 1].branch = <<cur, Front(z[k].branch[2])>>
  <2> SUFFICES ASSUME NEW k \in 2..m PROVE z[k - 1].branch = <<cur, Front(z[k].branch[2])>>
    OBVIOUS
  <2>1. k \in 1..m /\ k > 1
    BY <1>2
  <2> QED
    BY <1>1, <1>2, <2>1 DEF UndoableWith, StackOK
<1>8. \A k \in 1..Len(h) : Len(h[k][2]) = k - 1
  BY <1>4, <1>5, <1>6
<1>9. \A k \in 2..Len(h) : h[k - 1] = <<cur, Front(h[k][2])>>
  <2> SUFFICES ASSUME NEW k \in 2..m PROVE h[k - 1] = <<cur, Front(h[k][2])>>
    BY <1>4
  <2>1. k \in 1..m /\ k - 1 \in 1..m
    BY <1>2
  <2> QED
    BY <1>5, <1>7, <2>1
<1>10. Roots(P) = {h[k] : k \in 1..Len(h)}
  BY <1>2, <1>4, <1>5
<1> QED
  BY <1>1, <1>2, <1>4, <1>8, <1>9, <1>10 DEF ChainOK

(* What is left of a branch when some of its trees are gone. *)
Separate(P, c, K) ==
    /\ Closed(P, K) /\ Closed(P, DOMAIN P \ K)
    /\ \A n \in Roots(P) \ K : n # <<c, <<>>>> => <<c, Front(n[2])>> \notin K

LEMMA PartIsBranch ==
    ASSUME NEW P, NEW c, BranchOK(P, c), NEW K, Separate(P, c, K),
           NEW Q, Q = Part(P, DOMAIN P \ K)
    PROVE  /\ BranchOK(Q, c) /\ DOMAIN Q = DOMAIN P \ K /\ Roots(Q) = Roots(P) \ K
           /\ \A n \in DOMAIN Q : Q[n] = P[n]
<1>1. Forest(P) /\ Forest(Q) /\ DOMAIN Q = DOMAIN P \ K /\ \A n \in DOMAIN Q : Q[n] = P[n]
  BY PartForest DEF BranchOK, Separate
<1>2. Roots(Q) = Roots(P) \ K
  BY <1>1 DEF Roots
<1>3. ASSUME NEW n \in DOMAIN Q
      PROVE  /\ n = <<c, n[2]>> /\ n[2] \in Seq(Names)
             /\ n # <<c, <<>>>> => <<c, Front(n[2])>> \in DOMAIN Q
             /\ n \notin Roots(Q) => n # <<c, <<>>>> /\ Q[n].parent = <<c, Front(n[2])>>
  <2>1. /\ n = <<c, n[2]>> /\ n[2] \in Seq(Names)
        /\ n # <<c, <<>>>> => <<c, Front(n[2])>> \in DOMAIN P
        /\ n \notin Roots(P) => n # <<c, <<>>>> /\ P[n].parent = <<c, Front(n[2])>>
    BY <1>1 DEF BranchOK
  <2>2. n \notin Roots(P) => P[n].parent \notin K
    BY <1>1 DEF Closed, Separate
  <2>3. n \in Roots(P) \/ P[n].parent = <<c, Front(n[2])>>
    BY <2>1
  <2>4. n # <<c, <<>>>> => <<c, Front(n[2])>> \notin K
    BY <1>1, <2>1, <2>2, <2>3 DEF Separate
  <2> QED
    BY <1>1, <1>2, <2>1, <2>4
<1> QED
  BY <1>1, <1>2, <1>3 DEF BranchOK

(* handle_conflict returns: its branch, which has nothing below it, is gone. *)
Popped(P, b, Q, t, S, M, N) ==
    /\ b = top.branch /\ (\A n \in DOMAIN P : P[n].parent = b => n = b)
    /\ Q = Part(P, DOMAIN P \ {b})
    /\ Fits(t, M) /\ Safe(S, M, cur) /\ <<t, prims'>> \in S /\ N \subseteq M
    /\ M \cap DOMAIN Q = {} /\ image' = With(t, Q) /\ Return /\ cmds' = cmds
    /\ \A n \in N \cup DOMAIN Q : image'.dentries[n].dir = image.dentries[n].dir
    /\ \A n \in image'.orphans : n \in image.orphans \/ ~image.dentries[n].dir

LEMMA PopKeeps ==
    ASSUME NEW s, NEW R, NEW N, NEW P, UndoableWith(s, R, N, P), pc \in {"conflict", "overlay"},
           NEW b, NEW Q, NEW t, NEW S, NEW M, Popped(P, b, Q, t, S, M, N)
    PROVE  Undoable'
<1>0. /\ b = top.branch /\ (\A n \in DOMAIN P : P[n].parent = b => n = b)
      /\ Q = Part(P, DOMAIN P \ {b})
      /\ Fits(t, M) /\ Safe(S, M, cur) /\ <<t, prims'>> \in S /\ N \subseteq M
      /\ M \cap DOMAIN Q = {} /\ image' = With(t, Q) /\ Return /\ cmds' = cmds
      /\ \A n \in N \cup DOMAIN Q : image'.dentries[n].dir = image.dentries[n].dir
      /\ \A n \in image'.orphans : n \in image.orphans \/ ~image.dentries[n].dir
  BY DEF Popped
<1>1. PICK z, m, c, T : /\ z = stack /\ m = Len(stack) /\ c = cur
                        /\ T = [branch : DOMAIN P, existing : N]
  OBVIOUS
<1>2. /\ m \in Nat /\ m > 0 /\ z \in Seq(T) /\ Len(z) = m
      /\ b = z[m].branch /\ b \in DOMAIN P /\ Roots(P) = {z[k].branch : k \in 1..m}
      /\ z[1].branch = Branch
  <2>1. /\ Len(stack) \in Nat /\ Len(stack) > 0 /\ top = stack[Len(stack)]
        /\ stack \in Seq([branch : DOMAIN P, existing : N])
        /\ top.branch \in DOMAIN P /\ Roots(P) = {stack[k].branch : k \in 1..Len(stack)}
        /\ stack[1].branch = Branch
    BY StackIs
  <2> QED
    BY <1>0, <1>1, <2>1
<1>3. BranchOK(P, c) /\ StackOK(N, P)
  BY <1>1 DEF UndoableWith
<1>4. /\ \A k \in 1..m : Len(z[k].branch[2]) = k - 1
      /\ \A k \in 1..m : k > 1 => z[k - 1].branch = <<c, Front(z[k].branch[2])>>
      /\ \A k \in 1..m : z[k].existing \notin image.orphans
      /\ \A k \in 1..m : k < m => image.dentries[z[k].branch].dir
                                  /\ image.dentries[z[k].existing].dir
  <2>1. DOMAIN stack = 1..m
    BY <1>1, <1>2
  <2> QED
    BY <1>1, <1>3, <2>1 DEF StackOK
<1>5. \A k \in 1..m : k < m => z[k].branch # b
  <2> SUFFICES ASSUME NEW k \in 1..m, k < m, z[k].branch = b PROVE FALSE
    OBVIOUS
  <2>1. Len(b[2]) = k - 1 /\ Len(b[2]) = m - 1
    BY <1>2, <1>4
  <2> QED
    BY <1>2, <2>1
<1>6. \A k \in 1..m : z[k] \in T /\ z[k].branch \in DOMAIN P /\ z[k].existing \in N
  <2> SUFFICES ASSUME NEW k \in 1..m
               PROVE  z[k] \in T /\ z[k].branch \in DOMAIN P /\ z[k].existing \in N
    OBVIOUS
  <2>1. z[k] \in T
    BY <1>2
  <2> QED
    BY <1>1, <2>1
<1>7. /\ BranchOK(Q, c) /\ DOMAIN Q = DOMAIN P \ {b} /\ Roots(Q) = Roots(P) \ {b}
  <2>1. Forest(P) /\ P[b].parent = b
    BY <1>0, <1>2, <1>3 DEF BranchOK, Roots
  <2>2. Closed(P, {b})
    BY <1>2, <2>1 DEF Closed
  <2>3. Closed(P, DOMAIN P \ {b})
    BY <1>0, <2>1 DEF Closed, Forest, Dentries
  <2>4. ASSUME NEW n \in Roots(P) \ {b}, n # <<c, <<>>>> PROVE <<c, Front(n[2])>> \notin {b}
    <3>1. PICK k \in 1..m : n = z[k].branch
      BY <1>2
    <3>2. k > 1
      BY <1>1, <1>2, <2>4, <3>1 DEF Branch
    <3>3. z[k - 1].branch = <<c, Front(n[2])>> /\ k - 1 \in 1..m /\ k - 1 < m
      BY <1>2, <1>4, <3>1, <3>2
    <3>4. z[k - 1].branch # b
      BY <1>5, <3>3
    <3> QED
      BY <3>3, <3>4
  <2>5. PICK K : K = {b}
    OBVIOUS
  <2>6. Separate(P, c, K) /\ Q = Part(P, DOMAIN P \ K)
    BY <1>0, <2>2, <2>3, <2>4, <2>5 DEF Separate
  <2>7. /\ BranchOK(Q, c) /\ DOMAIN Q = DOMAIN P \ K /\ Roots(Q) = Roots(P) \ K
    BY <1>3, <2>6, PartIsBranch
  <2> QED
    BY <2>5, <2>7
<1>8. PICK y : y = Front(z)
  OBVIOUS
<1>9. y \in Seq(T) /\ Len(y) = m - 1 /\ \A k \in 1..(m - 1) : y[k] = z[k]
  <2>1. z # <<>> /\ z \in Seq(T)
    BY <1>2
  <2>2. /\ Front(z) \in Seq(T) /\ Len(Front(z)) = Len(z) - 1
        /\ \A k \in 1..(Len(z) - 1) : Front(z)[k] = z[k]
    BY <2>1, PathIs
  <2> QED
    BY <1>2, <1>8, <2>2
<1>10. stack' = y /\ pc' = (IF m = 1 THEN "end" ELSE "overlay")
  BY <1>0, <1>1, <1>8 DEF Return
<1>11. cur' = c /\ Branch' = Branch
  BY <1>0, <1>1 DEF cur, Branch
<1>12. DOMAIN y = 1..(m - 1) /\ m - 1 \in Nat
  BY <1>2, <1>9
<1>13. Roots(Q) = {y[k].branch : k \in 1..(m - 1)}
  <2>1. \A k \in 1..(m - 1) : k \in 1..m /\ k < m /\ y[k] = z[k]
    BY <1>2, <1>9
  <2>2. \A k \in 1..m : k = m \/ k \in 1..(m - 1)
    BY <1>2
  <2>3. Roots(Q) = {z[k].branch : k \in 1..m} \ {z[m].branch}
    BY <1>2, <1>7
  <2>4. \A k \in 1..(m - 1) : y[k].branch \in Roots(Q)
    BY <1>2, <1>5, <2>1, <2>3
  <2>5. ASSUME NEW n \in Roots(Q) PROVE n \in {y[k].branch : k \in 1..(m - 1)}
    <3>1. PICK k \in 1..m : n = z[k].branch /\ k # m
      BY <2>3
    <3>2. k \in 1..(m - 1) /\ n = y[k].branch
      BY <2>1, <2>2, <3>1
    <3> QED
      BY <3>2
  <2> QED
    BY <2>4, <2>5
<1>14. BranchRoots' = Roots(Q)
  <2>1. BranchRoots' = (IF pc' \in Adding THEN {Branch} ELSE {})
                          \cup {y[k].branch : k \in 1..(m - 1)}
    BY <1>10, <1>11, <1>12 DEF BranchRoots
  <2>2. CASE m = 1
    BY <1>10, <1>13, <2>1, <2>2 DEF Adding
  <2>3. CASE m # 1
    <3>1. 1 \in 1..(m - 1)
      BY <1>2, <2>3
    <3>2. y[1].branch = Branch
      BY <1>2, <1>9, <3>1
    <3>3. Branch \in {y[k].branch : k \in 1..(m - 1)}
      BY <3>1, <3>2
    <3> QED
      BY <1>13, <2>1, <3>3
  <2> QED
    BY <2>2, <2>3
<1>15. y \in Seq([branch : DOMAIN Q, existing : M])
  <2>1. PICK X : X = [branch : DOMAIN Q, existing : M]
    OBVIOUS
  <2>2. ASSUME NEW k \in 1..(m - 1) PROVE y[k] \in X
    <3>1. k \in 1..m /\ k < m /\ y[k] = z[k]
      BY <1>2, <1>9, <2>2
    <3>2. z[k] \in T /\ z[k].branch \in DOMAIN P /\ z[k].existing \in N /\ z[k].branch # b
      BY <1>5, <1>6, <3>1
    <3>3. z[k] = [branch |-> z[k].branch, existing |-> z[k].existing]
      BY <1>1, <3>2
    <3>4. z[k].branch \in DOMAIN Q /\ z[k].existing \in M
      BY <1>0, <1>7, <3>2
    <3>5. PICK u, v : u = z[k].branch /\ v = z[k].existing
      OBVIOUS
    <3>6. [branch |-> u, existing |-> v] \in [branch : DOMAIN Q, existing : M]
      BY <3>4, <3>5
    <3> QED
      BY <2>1, <3>1, <3>3, <3>5, <3>6
  <2>3. y \in Seq(X)
    BY <1>9, <1>12, <2>2
  <2> QED
    BY <2>1, <2>3
<1>16. ASSUME NEW k \in 1..(m - 1)
       PROVE  /\ y[k].existing \notin image'.orphans
              /\ Len(y[k].branch[2]) = k - 1
              /\ k > 1 => y[k - 1].branch = <<c, Front(y[k].branch[2])>>
              /\ image'.dentries[y[k].branch].dir /\ image'.dentries[y[k].existing].dir
  <2>1. k \in 1..m /\ k < m /\ y[k] = z[k]
    BY <1>2, <1>9, <1>16
  <2>2. k > 1 => y[k - 1] = z[k - 1]
    BY <1>9, <2>1
  <2>3. /\ z[k].existing \notin image.orphans /\ Len(z[k].branch[2]) = k - 1
        /\ k > 1 => z[k - 1].branch = <<c, Front(z[k].branch[2])>>
        /\ image.dentries[z[k].branch].dir /\ image.dentries[z[k].existing].dir
    BY <1>4, <2>1
  <2>4. z[k].branch \in DOMAIN Q /\ z[k].existing \in N
    BY <1>5, <1>6, <1>7, <2>1
  <2>5. image'.dentries[z[k].branch].dir /\ image'.dentries[z[k].existing].dir
    BY <1>0, <2>3, <2>4
  <2>6. z[k].existing \notin image'.orphans
    BY <1>0, <2>3
  <2> QED
    BY <2>1, <2>2, <2>3, <2>5, <2>6
<1>17. StackOK(M, Q)'
  <2>1. (y # <<>>) <=> (pc' \in {"conflict", "overlay"})
    <3>1. m = 1 <=> y = <<>>
      BY <1>2, <1>9, <1>12
    <3> QED
      BY <1>10, <3>1
  <2>2. pc' # "conflict"
    BY <1>10
  <2> QED
    BY <1>10, <1>11, <1>12, <1>15, <1>16, <2>1, <2>2 DEF StackOK
<1>18. UndoableWith(t, S, M, Q)'
  BY <1>0, <1>1, <1>7, <1>11, <1>14, <1>17 DEF UndoableWith
<1> QED
  BY <1>18 DEF Undoable

LEMMA PopInvariant ==
    ASSUME CommandsOK, IdsOK, pc \in {"conflict", "overlay"}, Return, Undoable', cmds' = cmds,
           Nodes(image') \subseteq Nodes(image)
    PROVE  IInv'
<1>1. pc' \in {"end", "overlay"}
  BY DEF Return
<1>2. IdsOK' /\ AttachOK'
  BY <1>1, IdsKept DEF AttachOK
<1>3. CommandsOK'
  BY <1>1 DEF CommandsOK, Adding, cmd, cur
<1> QED
  BY <1>1, <1>2, <1>3 DEF IInv

LEMMA OverlayDoneKeeps ==
    ASSUME IInv, OverlayDone
    PROVE  IInv'
<1>1. /\ pc = "overlay" /\ Children(image, top.branch) = {} /\ Return
      /\ image' = FreeTree(image, top.branch) /\ cmds' = cmds /\ prims' = prims
  BY DEF OverlayDone
<1>2. CommandsOK /\ Undoable /\ IdsOK
  BY <1>1 DEF IInv
<1>3. PICK s, R, N, P : UndoableWith(s, R, N, P)
  BY <1>2 DEF Undoable
<1>4. Seen(s, N, P)
  BY <1>3, SeenIs
<1>5. PICK b, d, Q : b = top.branch /\ d = image.dentries /\ Q = Part(P, DOMAIN P \ {b})
  OBVIOUS
<1>6. b \in DOMAIN P /\ b \in Roots(P)
  <2>1. /\ Len(stack) \in Nat /\ Len(stack) > 0 /\ top = stack[Len(stack)]
        /\ top.branch \in DOMAIN P /\ Roots(P) = {stack[k].branch : k \in 1..Len(stack)}
    BY <1>1, <1>3, StackIs
  <2> QED
    BY <1>5, <2>1
<1>7. \A n \in DOMAIN P : P[n].parent = b => n = b
  <2> SUFFICES ASSUME NEW n \in DOMAIN P, P[n].parent = b, n # b PROVE FALSE
    OBVIOUS
  <2>1. n \in Children(image, b)
    BY <1>4 DEF Seen, Children, Nodes
  <2> QED
    BY <1>1, <1>5, <2>1
<1>8. /\ Fits(s, N) /\ Forest(P) /\ N \cap DOMAIN P = {} /\ b \notin N
      /\ image = With(s, P) /\ Nodes(image) = N \cup DOMAIN P /\ P[b].parent = b
  BY <1>3, <1>4, <1>6 DEF Seen, UndoableWith, Roots
<1>9. Subtree(image, b) = {b}
  <2>1. Rooted(d) /\ b \in Nodes(image)
    BY <1>5, <1>6, <1>8, WithIs, ForestRooted
  <2>2. \A n \in DOMAIN d : d[n].parent = b => n = b
    <3> SUFFICES ASSUME NEW n \in DOMAIN d, d[n].parent = b PROVE n = b
      OBVIOUS
    <3>1. n \notin N
      BY <1>4, <1>5, <1>8 DEF Seen
    <3>2. n \in DOMAIN P /\ d[n] = P[n]
      BY <1>4, <1>5, <1>8, <3>1 DEF Seen, Nodes
    <3> QED
      BY <1>7, <3>2
  <2>3. Closed(d, DOMAIN d \ {b})
    BY <2>1, <2>2 DEF Closed, Rooted
  <2>4. /\ Subtree(image, b) \subseteq DOMAIN d /\ b \in Subtree(image, b)
        /\ \A K : Closed(d, K) /\ b \notin K => Subtree(image, b) \cap K = {}
    BY <1>5, <2>1, SubtreeIs DEF Nodes
  <2>5. Subtree(image, b) \cap (DOMAIN d \ {b}) = {}
    BY <2>3, <2>4
  <2> QED
    BY <2>4, <2>5
<1>10. image' = With(s, Q)
  <2>1. PICK e, r, o, g : /\ e = s.dentries /\ r = s.root /\ o = s.orphans /\ g = Join(e, P)
    OBVIOUS
  <2>2. image = State(g, r, o) /\ s = State(e, r, o) /\ DOMAIN e = N
    BY <1>8, <2>1, WithIs, StateIs DEF State, Fits, Nodes
  <2>3. PICK L : L = DOMAIN g \ {b}
    OBVIOUS
  <2>4. Without(image, {b}) = State(Part(g, L), r, o)
    BY <2>2, <2>3, WithoutIs
  <2>5. Forest(Q) /\ DOMAIN Q = DOMAIN P \ {b} /\ \A n \in DOMAIN Q : Q[n] = P[n]
    <3>1. Closed(P, DOMAIN P \ {b})
      BY <1>7, <1>8 DEF Closed, Forest, Dentries
    <3> QED
      BY <1>5, <1>8, <3>1, PartForest
  <2>6. With(s, Q) = State(Join(e, Q), r, o)
    <3>1. N \cap DOMAIN Q = {}
      BY <1>8, <2>5
    <3> QED
      BY <1>8, <2>1, <2>5, <3>1, WithIs DEF State
  <2>7. Part(g, L) = Join(e, Q)
    <3>1. DOMAIN g = N \cup DOMAIN P /\ \A n \in DOMAIN g : g[n] = IF n \in DOMAIN P THEN P[n] ELSE e[n]
      BY <2>1, <2>2 DEF Join
    <3>2. PICK u, v : u = Part(g, L) /\ v = Join(e, Q)
      OBVIOUS
    <3>3. u = [n \in L |-> u[n]] /\ DOMAIN u = L /\ \A n \in L : u[n] = g[n]
      BY <3>2 DEF Part
    <3>4. /\ DOMAIN v = N \cup DOMAIN Q /\ v = [n \in DOMAIN v |-> v[n]]
          /\ \A n \in DOMAIN v : v[n] = IF n \in DOMAIN Q THEN Q[n] ELSE e[n]
      BY <2>2, <3>2 DEF Join
    <3>5. L = DOMAIN v
      BY <1>8, <2>3, <2>5, <3>1, <3>4
    <3>6. \A n \in L : u[n] = v[n]
      BY <2>3, <2>5, <3>1, <3>3, <3>4, <3>5
    <3> QED
      BY <3>2, <3>3, <3>4, <3>5, <3>6
  <2>8. image' = Without(image, {b})
    BY <1>1, <1>5, <1>9 DEF FreeTree
  <2> QED
    BY <2>4, <2>6, <2>7, <2>8
<1>11. Forest(Q) /\ DOMAIN Q = DOMAIN P \ {b} /\ \A n \in DOMAIN Q : Q[n] = P[n]
  <2>1. Closed(P, DOMAIN P \ {b})
    BY <1>7, <1>8 DEF Closed, Forest, Dentries
  <2> QED
    BY <1>5, <1>8, <2>1, PartForest
<1>12. N \cap DOMAIN Q = {}
  BY <1>8, <1>11
<1>13. /\ Nodes(image') = N \cup DOMAIN Q /\ image'.orphans = s.orphans
       /\ \A n \in N : image'.dentries[n] = s.dentries[n]
       /\ \A n \in DOMAIN Q : image'.dentries[n] = Q[n]
  BY <1>8, <1>10, <1>11, <1>12, WithIs
<1>14. /\ \A n \in N \cup DOMAIN Q : image'.dentries[n].dir = image.dentries[n].dir
       /\ \A n \in image'.orphans : n \in image.orphans \/ ~image.dentries[n].dir
  BY <1>4, <1>11, <1>13 DEF Seen
<1>15. Safe(R, N, cur) /\ <<s, prims'>> \in R
  BY <1>1, <1>3 DEF UndoableWith
<1>16. Undoable'
  <2>1. Popped(P, b, Q, s, R, N, N)
    BY <1>1, <1>5, <1>7, <1>8, <1>10, <1>12, <1>14, <1>15 DEF Popped
  <2> QED
    BY <1>1, <1>3, <2>1, PopKeeps
<1>17. Nodes(image') \subseteq Nodes(image)
  BY <1>8, <1>11, <1>13
<1> QED
  BY <1>1, <1>2, <1>16, <1>17, PopInvariant

(* A tree of a forest. *)
LEMMA TreeIsSeparate ==
    ASSUME NEW d, Forest(d), NEW y \in Roots(d), NEW K, K = {n \in DOMAIN d : y \in Up(d, n)}
    PROVE  /\ Closed(d, K) /\ Closed(d, DOMAIN d \ K)
           /\ y \in K /\ K \cap Roots(d) = {y} /\ Roots(Part(d, K)) = {y}
<1>1. Rooted(d) /\ \A n \in DOMAIN d : d[n].parent \in DOMAIN d
  BY ForestRooted DEF Rooted
<1>2. \A n \in DOMAIN d :
         Up(d, n) = {n} \cup (IF d[n].parent = n THEN {} ELSE Up(d, d[n].parent))
  BY <1>1, UpUnfold
<1>3. y \in DOMAIN d /\ d[y].parent = y
  BY DEF Roots
<1>4. y \in K
  BY <1>2, <1>3
<1>5. \A n \in K : n = y \/ d[n].parent \in K
  BY <1>1, <1>2, <1>3
<1>6. Closed(d, K)
  BY <1>3, <1>4, <1>5 DEF Closed
<1>7. \A n \in DOMAIN d : d[n].parent \in K => n \in K
  BY <1>1, <1>2
<1>8. Closed(d, DOMAIN d \ K)
  BY <1>1, <1>7 DEF Closed
<1>9. \A n \in K : d[n].parent = n => n = y
  BY <1>2
<1>10. K \cap Roots(d) = {y}
  BY <1>3, <1>4, <1>9 DEF Roots
<1>11. Roots(Part(d, K)) = {y}
  <2>1. PICK g : g = Part(d, K)
    OBVIOUS
  <2>2. DOMAIN g = K /\ \A n \in K : g[n] = d[n]
    BY <2>1 DEF Part
  <2> QED
    BY <1>3, <1>4, <1>9, <2>1, <2>2 DEF Roots
<1> QED
  BY <1>4, <1>6, <1>8, <1>10, <1>11

LEMMA MoveInJoin ==
    ASSUME NEW d, NEW P, NEW y \in DOMAIN P, NEW p
    PROVE  Move(Join(d, P), y, p) = Join(d, Move(P, y, p))
<1>1. PICK g, h, u, v : /\ g = Join(d, P) /\ h = Move(P, y, p)
                        /\ u = Move(g, y, p) /\ v = Join(d, h)
  OBVIOUS
<1>2. /\ DOMAIN g = DOMAIN d \cup DOMAIN P
      /\ \A n \in DOMAIN g : g[n] = IF n \in DOMAIN P THEN P[n] ELSE d[n]
  BY <1>1 DEF Join
<1>3. /\ DOMAIN h = DOMAIN P /\ h[y] = [P[y] EXCEPT !.parent = p]
      /\ \A n \in DOMAIN P : n # y => h[n] = P[n]
  BY <1>1 DEF Move
<1>4. /\ DOMAIN u = DOMAIN g /\ u = [n \in DOMAIN g |-> u[n]]
      /\ u[y] = [g[y] EXCEPT !.parent = p]
      /\ \A n \in DOMAIN g : n # y => u[n] = g[n]
  BY <1>1, <1>2 DEF Move
<1>5. /\ DOMAIN v = DOMAIN d \cup DOMAIN h /\ v = [n \in DOMAIN v |-> v[n]]
      /\ \A n \in DOMAIN v : v[n] = IF n \in DOMAIN h THEN h[n] ELSE d[n]
  BY <1>1 DEF Join
<1>6. DOMAIN v = DOMAIN g
  BY <1>2, <1>3, <1>5
<1>7. \A n \in DOMAIN g : u[n] = v[n]
  BY <1>2, <1>3, <1>4, <1>5, <1>6
<1>8. u = v
  BY <1>4, <1>5, <1>6, <1>7
<1> QED
  BY <1>1, <1>8

(* A child is taken out of the branch. *)
Taken(s, P, Q, y, c) ==
    /\ BranchOK(Q, c) /\ DOMAIN Q = DOMAIN P /\ Roots(Q) = Roots(P) \cup {y}
    /\ y \in DOMAIN P /\ y \notin Roots(P) /\ top.branch = <<c, Front(y[2])>>
    /\ Len(y[2]) = Len(stack)
    /\ \A n \in DOMAIN P : Q[n].dir = P[n].dir /\ Q[n].name = P[n].name
    /\ Unlink(image, y, top.branch) = With(s, Q)

LEMMA TakenIs ==
    ASSUME NEW s, NEW R, NEW N, NEW P, UndoableWith(s, R, N, P), pc = "overlay",
           NEW y \in Children(image, top.branch), NEW Q, Q = Move(P, y, y), NEW c, c = cur
    PROVE  Taken(s, P, Q, y, c)
<1>1. Seen(s, N, P)
  BY SeenIs
<1>2. PICK b, m : b = top.branch /\ m = Len(stack)
  OBVIOUS
<1>3. /\ m \in Nat /\ m > 0 /\ b = stack[m].branch /\ b \in DOMAIN P /\ m \in DOMAIN stack
  <2>1. /\ Len(stack) \in Nat /\ Len(stack) > 0 /\ top = stack[Len(stack)]
        /\ top.branch \in DOMAIN P /\ DOMAIN stack = 1..Len(stack)
    BY StackIs
  <2> QED
    BY <1>2, <2>1
<1>4. y \in Nodes(image) /\ y # b /\ image.dentries[y].parent = b
  BY <1>2 DEF Children, Nodes
<1>5. /\ Fits(s, N) /\ Forest(P) /\ N \cap DOMAIN P = {} /\ BranchOK(P, c) /\ image = With(s, P)
  BY <1>1 DEF Seen, UndoableWith
<1>6. y \in DOMAIN P /\ P[y].parent = b
  <2>1. y \notin N
    BY <1>1, <1>3, <1>4, <1>5 DEF Seen
  <2> QED
    BY <1>1, <1>4, <2>1 DEF Seen
<1>7. y \notin Roots(P)
  BY <1>4, <1>6 DEF Roots
<1>8. /\ y = <<c, y[2]>> /\ y[2] \in Seq(Names) /\ y # <<c, <<>>>> /\ b = <<c, Front(y[2])>>
  BY <1>5, <1>6, <1>7 DEF BranchOK
<1>9. Len(y[2]) = m
  <2>1. y[2] # <<>>
    BY <1>8
  <2>2. PICK p \in Seq(Names) : p = y[2]
    BY <1>8
  <2>3. Len(Front(p)) = Len(p) - 1 /\ Len(p) \in Nat
    BY <2>1, <2>2, PathIs
  <2>4. b[2] = Front(p)
    BY <1>8, <2>2
  <2>5. Len(b[2]) = m - 1
    BY <1>3 DEF UndoableWith, StackOK
  <2> QED
    BY <1>3, <2>2, <2>3, <2>4, <2>5
<1>10. P \in Dentries(DOMAIN P)
  BY <1>5 DEF Forest
<1>11. /\ DOMAIN Q = DOMAIN P /\ Q[y].parent = y /\ Q[y].dir = P[y].dir /\ Q[y].name = P[y].name
       /\ \A n \in DOMAIN P : n # y => Q[n] = P[n]
  <2>1. PICK X : X = DOMAIN P
    OBVIOUS
  <2>2. /\ DOMAIN Move(P, y, y) = X
        /\ Move(P, y, y)[y].parent = y /\ Move(P, y, y)[y].name = P[y].name
        /\ Move(P, y, y)[y].dir = P[y].dir
        /\ \A n \in X : n # y => Move(P, y, y)[n] = P[n]
    BY <1>6, <1>10, <2>1, MoveIs
  <2> QED
    BY <2>1, <2>2
<1>12. Forest(Q)
  BY <1>5, <1>6, MoveToSelf
<1>13. Roots(Q) = Roots(P) \cup {y}
  BY <1>6, <1>11 DEF Roots
<1>14. BranchOK(Q, c)
  <2>1. ASSUME NEW n \in DOMAIN Q
        PROVE  /\ n = <<c, n[2]>> /\ n[2] \in Seq(Names)
               /\ n # <<c, <<>>>> => <<c, Front(n[2])>> \in DOMAIN Q
               /\ n \notin Roots(Q) => n # <<c, <<>>>> /\ Q[n].parent = <<c, Front(n[2])>>
    <3>1. /\ n = <<c, n[2]>> /\ n[2] \in Seq(Names)
          /\ n # <<c, <<>>>> => <<c, Front(n[2])>> \in DOMAIN P
          /\ n \notin Roots(P) => n # <<c, <<>>>> /\ P[n].parent = <<c, Front(n[2])>>
      BY <1>5, <1>11 DEF BranchOK
    <3>2. n \notin Roots(Q) => n \notin Roots(P) /\ Q[n] = P[n]
      BY <1>11, <1>13
    <3> QED
      BY <1>11, <3>1, <3>2
  <2> QED
    BY <1>12, <2>1 DEF BranchOK
<1>15. Unlink(image, y, b) = With(s, Q)
  <2>1. PICK d, r, o, g : d = s.dentries /\ r = s.root /\ o = s.orphans /\ g = Join(d, P)
    OBVIOUS
  <2>2. image = State(g, r, o)
    BY <1>5, <2>1, WithIs DEF State
  <2>3. b # None
    BY <1>3, <1>5 DEF Forest
  <2>4. Unlink(State(g, r, o), y, b) = State(Move(g, y, y), r, o)
    BY <2>3, UnlinkIs
  <2>5. Move(g, y, y) = Join(d, Q)
    BY <1>6, <2>1, MoveInJoin
  <2>6. N \cap DOMAIN Q = {}
    BY <1>5, <1>11
  <2>7. With(s, Q) = State(Join(d, Q), r, o)
    BY <1>5, <1>12, <2>1, <2>6, WithIs DEF State
  <2> QED
    BY <2>2, <2>4, <2>5, <2>7
<1>16. \A n \in DOMAIN P : Q[n].dir = P[n].dir /\ Q[n].name = P[n].name
  BY <1>11
<1> QED
  BY <1>2, <1>6, <1>7, <1>8, <1>9, <1>11, <1>13, <1>14, <1>15, <1>16 DEF Taken

LEMMA InItsPlace ==
    ASSUME NEW s, NEW R, NEW N, NEW P, UndoableWith(s, R, N, P),
           NEW e \in N, NEW x, NEW y, y = Child(image, e, x)
    PROVE  /\ y = None => Named(s, e, x) = {}
           /\ y # None => /\ y \in N /\ y # e /\ image.dentries[y].parent = e
                          /\ image.dentries[y].name = x /\ y \notin image.orphans
<1>1. Seen(s, N, P) /\ image = With(s, P)
  BY SeenIs DEF UndoableWith
<1>2. Fits(s, N) /\ Forest(P) /\ N \cap DOMAIN P = {}
  BY <1>1 DEF Seen
<1>3. y = Child(s, e, x)
  <2>1. \A a : Child(With(s, P), e, a) = Child(s, e, a)
    BY <1>2, ChildrenWith
  <2> QED
    BY <1>1, <2>1
<1>4. None \notin Nodes(s) /\ Nodes(s) = N
  BY <1>2 DEF Fits, Forest, Nodes
<1>5. y = None => Named(s, e, x) = {}
  <2>1. Child(s, e, x) = None <=> Named(s, e, x) = {}
    BY <1>4, ChildIs
  <2> QED
    BY <1>3, <2>1
<1>6. y # None => y \in N /\ y # e /\ s.dentries[y].parent = e /\ s.dentries[y].name = x
  BY <1>3, <1>4, ChildIs
<1>7. \A n \in N : s.dentries[n].parent # n => n \notin s.orphans
  BY <1>2 DEF Fits
<1> QED
  BY <1>1, <1>5, <1>6, <1>7 DEF Seen

(* The child is in conflict with a file of its name. *)
LEMMA DescendKeeps ==
    ASSUME NEW s, NEW R, NEW N, NEW P, UndoableWith(s, R, N, P), pc = "overlay",
           NEW y \in Children(image, top.branch),
           NEW e, e = Child(image, top.existing, image.dentries[y].name), e # None,
           image' = Unlink(image, y, top.branch), pc' = "conflict",
           stack' = Append(stack, [branch |-> y, existing |-> e]),
           prims' = prims, cmds' = cmds
    PROVE  Undoable' /\ Nodes(image') = Nodes(image)
<1>1. PICK Q, c, z, m, r, T : /\ Q = Move(P, y, y) /\ c = cur /\ z = stack /\ m = Len(stack)
                              /\ r = [branch |-> y, existing |-> e]
                              /\ T = [branch : DOMAIN P, existing : N]
  OBVIOUS
<1>2. Seen(s, N, P)
  BY SeenIs
<1>3. Taken(s, P, Q, y, c)
  BY <1>1, TakenIs
<1>4. /\ BranchOK(Q, c) /\ DOMAIN Q = DOMAIN P /\ Roots(Q) = Roots(P) \cup {y}
      /\ y \in DOMAIN P /\ top.branch = <<c, Front(y[2])>> /\ Len(y[2]) = m
      /\ (\A n \in DOMAIN P : Q[n].dir = P[n].dir /\ Q[n].name = P[n].name)
      /\ image' = With(s, Q)
  BY <1>1, <1>3 DEF Taken
<1>5. /\ m \in Nat /\ m > 0 /\ z \in Seq(T) /\ DOMAIN z = 1..m /\ Len(z) = m
      /\ top = z[m] /\ top.existing \in N
      /\ Roots(P) = {z[k].branch : k \in 1..m} /\ z[1].branch = Branch
  <2>1. /\ Len(stack) \in Nat /\ Len(stack) > 0 /\ DOMAIN stack = 1..Len(stack)
        /\ stack \in Seq([branch : DOMAIN P, existing : N]) /\ top = stack[Len(stack)]
        /\ top.existing \in N
        /\ Roots(P) = {stack[k].branch : k \in 1..Len(stack)}
        /\ stack[1].branch = Branch
    BY StackIs
  <2> QED
    BY <1>1, <2>1
<1>6. /\ e \in N /\ image.dentries[e].name = image.dentries[y].name /\ e \notin image.orphans
  <2>1. PICK f, x : f = top.existing /\ x = image.dentries[y].name
    OBVIOUS
  <2>2. f \in N /\ e = Child(image, f, x)
    BY <1>5, <2>1
  <2>3. e \in N /\ image.dentries[e].name = x /\ e \notin image.orphans
    BY <2>2, InItsPlace
  <2> QED
    BY <2>1, <2>3
<1>7. Fits(s, N) /\ Forest(Q) /\ N \cap DOMAIN Q = {}
  BY <1>2, <1>4 DEF Seen, BranchOK
<1>8. /\ Nodes(image') = N \cup DOMAIN Q /\ image'.orphans = s.orphans
      /\ \A n \in N : image'.dentries[n] = s.dentries[n]
      /\ \A n \in DOMAIN Q : image'.dentries[n] = Q[n]
  <2>1. /\ Nodes(With(s, Q)) = N \cup DOMAIN Q /\ With(s, Q).orphans = s.orphans
        /\ \A n \in N : With(s, Q).dentries[n] = s.dentries[n]
        /\ \A n \in DOMAIN Q : With(s, Q).dentries[n] = Q[n]
    BY <1>7, WithIs
  <2> QED
    BY <1>4, <2>1
<1>9. /\ image'.orphans = image.orphans
      /\ \A n \in N \cup DOMAIN P : /\ image'.dentries[n].dir = image.dentries[n].dir
                                    /\ image'.dentries[n].name = image.dentries[n].name
  BY <1>2, <1>4, <1>8 DEF Seen
<1>10. PICK w : w = Append(z, r)
  OBVIOUS
<1>11. /\ stack' = w /\ w \in Seq(T) /\ Len(w) = m + 1 /\ DOMAIN w = 1..(m + 1)
       /\ w[m + 1] = r /\ \A k \in 1..m : w[k] = z[k]
  <2>1. r \in T
    BY <1>1, <1>4, <1>6
  <2>2. stack' = w
    BY <1>1, <1>10
  <2>3. /\ Append(z, r) \in Seq(T) /\ Len(Append(z, r)) = Len(z) + 1
        /\ Append(z, r)[Len(z) + 1] = r /\ \A k \in 1..Len(z) : Append(z, r)[k] = z[k]
    BY <1>5, <2>1
  <2>4. w \in Seq(T) /\ Len(w) = m + 1 /\ w[m + 1] = r /\ \A k \in 1..m : w[k] = z[k]
    BY <1>5, <1>10, <2>3
  <2> QED
    BY <2>2, <2>4
<1>12. cur' = c /\ Branch' = Branch
  BY <1>1 DEF cur, Branch
<1>13. BranchRoots' = Roots(Q)
  <2>1. BranchRoots' = {Branch} \cup {w[k].branch : k \in 1..(m + 1)}
    BY <1>11, <1>12 DEF BranchRoots, Adding
  <2>2. \A n : n \in Roots(P) => \E k \in 1..(m + 1) : n = w[k].branch
    <3> SUFFICES ASSUME NEW n \in Roots(P) PROVE \E k \in 1..(m + 1) : n = w[k].branch
      OBVIOUS
    <3>1. PICK k \in 1..m : n = z[k].branch
      BY <1>5
    <3>2. k \in 1..(m + 1) /\ w[k] = z[k]
      BY <1>5, <1>11
    <3> QED
      BY <3>1, <3>2
  <2>3. y = w[m + 1].branch /\ m + 1 \in 1..(m + 1)
    BY <1>1, <1>5, <1>11
  <2>4. ASSUME NEW k \in 1..(m + 1) PROVE w[k].branch \in Roots(P) \cup {y}
    <3>1. CASE k = m + 1
      BY <2>3, <3>1
    <3>2. CASE k \in 1..m
      BY <1>5, <1>11, <3>2
    <3> QED
      BY <1>5, <3>1, <3>2
  <2>5. Branch \in Roots(P)
    <3>1. 1 \in 1..m
      BY <1>5
    <3> QED
      BY <1>5, <3>1
  <2>6. {w[k].branch : k \in 1..(m + 1)} = Roots(P) \cup {y}
    BY <2>2, <2>3, <2>4
  <2> QED
    BY <1>4, <2>1, <2>5, <2>6
<1>14. ASSUME NEW k \in 1..(m + 1)
       PROVE  /\ w[k].existing \notin image'.orphans
              /\ Len(w[k].branch[2]) = k - 1
              /\ k > 1 => w[k - 1].branch = <<c, Front(w[k].branch[2])>>
              /\ k < m + 1 => /\ image'.dentries[w[k].branch].dir
                              /\ image'.dentries[w[k].existing].dir
  <2>1. CASE k = m + 1
    <3>1. w[k] = r /\ r.branch = y /\ r.existing = e
      BY <1>1, <1>11, <2>1
    <3>2. w[k - 1] = z[m] /\ z[m].branch = <<c, Front(y[2])>>
      <4>1. k - 1 = m /\ m \in 1..m
        BY <1>5, <2>1
      <4> QED
        BY <1>4, <1>5, <1>11, <4>1
    <3>3. Len(w[k].branch[2]) = k - 1
      BY <1>4, <1>5, <2>1, <3>1
    <3> QED
      BY <1>6, <1>9, <2>1, <3>1, <3>2, <3>3
  <2>2. CASE k \in 1..m
    <3>1. /\ z[k].existing \notin image.orphans /\ Len(z[k].branch[2]) = k - 1
          /\ k > 1 => z[k - 1].branch = <<c, Front(z[k].branch[2])>>
          /\ image.dentries[z[k].branch].dir /\ image.dentries[z[k].existing].dir
      <4>1. k \in DOMAIN stack /\ StackOK(N, P)
        BY <1>1, <1>5, <2>2 DEF UndoableWith
      <4> QED
        BY <1>1, <4>1 DEF StackOK
    <3>2. z[k].branch \in DOMAIN P /\ z[k].existing \in N
      <4>1. z[k] \in T
        BY <1>5, <2>2
      <4> QED
        BY <1>1, <4>1
    <3>3. w[k] = z[k]
      BY <1>11, <2>2
    <3>4. k > 1 => w[k - 1] = z[k - 1]
      <4> SUFFICES ASSUME k > 1 PROVE w[k - 1] = z[k - 1]
        OBVIOUS
      <4>1. k - 1 \in 1..m
        BY <1>5, <2>2
      <4> QED
        BY <1>11, <4>1
    <3> QED
      BY <1>9, <3>1, <3>2, <3>3, <3>4
  <2> QED
    BY <1>5, <2>1, <2>2
<1>15. top' = r
  BY <1>11 DEF top
<1>16. image'.dentries[top'.branch].name = image'.dentries[top'.existing].name
  <2>1. top'.branch = y /\ top'.existing = e
    BY <1>1, <1>15
  <2>2. image'.dentries[y].name = image'.dentries[e].name
    BY <1>4, <1>6, <1>9
  <2> QED
    BY <2>1, <2>2
<1>17. StackOK(N, Q)'
  <2>1. w \in Seq([branch : DOMAIN Q, existing : N]) /\ w # <<>>
    BY <1>1, <1>4, <1>5, <1>11
  <2>2. \A k \in DOMAIN w :
           /\ w[k].existing \notin image'.orphans
           /\ Len(w[k].branch[2]) = k - 1
           /\ k > 1 => w[k - 1].branch = <<c, Front(w[k].branch[2])>>
           /\ k < Len(w) \/ pc' = "overlay" =>
                 image'.dentries[w[k].branch].dir /\ image'.dentries[w[k].existing].dir
    BY <1>11, <1>14
  <2>3. /\ stack' \in Seq([branch : DOMAIN Q, existing : N])
        /\ (stack' # <<>> <=> pc' \in {"conflict", "overlay"})
    BY <1>11, <2>1
  <2> QED
    BY <1>11, <1>12, <1>16, <2>2, <2>3 DEF StackOK
<1>18. Safe(R, N, cur) /\ <<s, prims>> \in R
  BY DEF UndoableWith
<1>19. UndoableWith(s, R, N, Q)'
  BY <1>1, <1>4, <1>7, <1>12, <1>13, <1>17, <1>18 DEF UndoableWith
<1>20. Nodes(image') = Nodes(image)
  BY <1>2, <1>4, <1>8 DEF Seen
<1> QED
  BY <1>19, <1>20 DEF Undoable

(* The child becomes a part of the image. *)
ChildGrafted(s, N, P, Q, K, V, y, f, c) ==
    /\ Graftable(s, N, Q, K, y, f) /\ V = Part(Q, DOMAIN Q \ K)
    /\ BranchOK(V, c) /\ DOMAIN V = DOMAIN Q \ K /\ Roots(V) = Roots(P)

LEMMA ChildIsGraftable ==
    ASSUME NEW s, NEW R, NEW N, NEW P, UndoableWith(s, R, N, P), pc = "overlay",
           NEW Q, NEW c, c = cur, NEW y, Taken(s, P, Q, y, c),
           NEW f, f = top.existing, Named(s, f, P[y].name) = {},
           NEW K, K = {n \in DOMAIN Q : y \in Up(Q, n)}, NEW V, V = Part(Q, DOMAIN Q \ K)
    PROVE  ChildGrafted(s, N, P, Q, K, V, y, f, c)
<1>1. PICK z, m : z = stack /\ m = Len(stack)
  OBVIOUS
<1>2. /\ BranchOK(Q, c) /\ DOMAIN Q = DOMAIN P /\ Roots(Q) = Roots(P) \cup {y}
      /\ y \in DOMAIN P /\ y \notin Roots(P)
      /\ \A n \in DOMAIN P : Q[n].dir = P[n].dir /\ Q[n].name = P[n].name
  BY DEF Taken
<1>3. /\ m \in Nat /\ m > 0 /\ DOMAIN z = 1..m /\ f \in N /\ z[m].existing = f
      /\ Roots(P) = {z[k].branch : k \in 1..m} /\ z[1].branch = Branch
  <2>1. /\ Len(stack) \in Nat /\ Len(stack) > 0 /\ DOMAIN stack = 1..Len(stack)
        /\ top = stack[Len(stack)] /\ top.existing \in N
        /\ Roots(P) = {stack[k].branch : k \in 1..Len(stack)}
        /\ stack[1].branch = Branch
    BY StackIs
  <2> QED
    BY <1>1, <2>1
<1>4. Forest(Q) /\ y \in Roots(Q)
  BY <1>2 DEF BranchOK
<1>5. /\ Closed(Q, K) /\ Closed(Q, DOMAIN Q \ K)
      /\ y \in K /\ K \cap Roots(Q) = {y} /\ Roots(Part(Q, K)) = {y}
  BY <1>4, TreeIsSeparate
<1>6. ASSUME NEW n \in Roots(Q) \ K, n # <<c, <<>>>> PROVE <<c, Front(n[2])>> \notin K
  <2>1. n \in Roots(P)
    BY <1>2, <1>5
  <2>2. PICK k \in 1..m : n = z[k].branch
    BY <1>3, <2>1
  <2>3. k > 1
    BY <1>3, <1>6, <2>2 DEF Branch
  <2>4. z[k - 1].branch = <<c, Front(n[2])>> /\ k - 1 \in 1..m
    <3>1. StackOK(N, P) /\ k \in DOMAIN stack
      BY <1>1, <1>3 DEF UndoableWith
    <3>2. z[k - 1].branch = <<c, Front(z[k].branch[2])>>
      BY <1>1, <2>3, <3>1 DEF StackOK
    <3> QED
      BY <1>3, <2>2, <2>3, <3>2
  <2>5. <<c, Front(n[2])>> \in Roots(P)
    BY <1>3, <2>4
  <2> QED
    BY <1>2, <1>5, <2>5
<1>7. Separate(Q, c, K)
  BY <1>5, <1>6 DEF Separate
<1>8. BranchOK(V, c) /\ DOMAIN V = DOMAIN Q \ K /\ Roots(V) = Roots(Q) \ K
  BY <1>2, <1>7, PartIsBranch
<1>9. Roots(V) = Roots(P)
  <2>1. \A n \in Roots(P) : n \in Roots(Q) /\ n # y
    BY <1>2
  <2>2. \A n \in Roots(P) : n \notin K
    BY <1>5, <2>1
  <2>3. \A n \in Roots(V) : n \in Roots(Q) /\ n \notin K
    BY <1>8
  <2>4. \A n \in Roots(V) : n \in Roots(P)
    BY <1>2, <1>5, <2>3
  <2>5. \A n \in Roots(P) : n \in Roots(V)
    BY <1>8, <2>1, <2>2
  <2> QED
    BY <2>4, <2>5
<1>10. Seen(s, N, P)
  BY SeenIs
<1>11. s.dentries[f].dir
  <2>1. StackOK(N, P) /\ m \in DOMAIN stack
    BY <1>1, <1>3 DEF UndoableWith
  <2>2. image.dentries[f].dir
    BY <1>1, <1>3, <2>1 DEF StackOK
  <2> QED
    BY <1>3, <1>10, <2>2 DEF Seen
<1>12. Place(s, N, Q[y].name, Q[y].dir, f)
  BY <1>2, <1>3, <1>11 DEF Place
<1>13. Fits(s, N) /\ N \cap DOMAIN Q = {}
  BY <1>2, <1>10 DEF Seen
<1>14. Graftable(s, N, Q, K, y, f)
  BY <1>4, <1>5, <1>12, <1>13 DEF Graftable
<1> QED
  BY <1>8, <1>9, <1>14 DEF ChildGrafted

LEMMA GraftChildKeeps ==
    ASSUME NEW s, NEW R, NEW N, NEW P, UndoableWith(s, R, N, P), pc = "overlay", cur # 0,
           NEW y \in Children(image, top.branch),
           Child(image, top.existing, image.dentries[y].name) = None,
           NEW w, w = Unlink(image, y, top.branch),
           Journal(w, <<LinkPrim(y, top.existing)>>, FALSE),
           pc' = pc, stack' = stack, cmds' = cmds
    PROVE  Undoable' /\ Nodes(image') = Nodes(image)
<1>1. PICK Q, c, z, m, f, x, q : /\ Q = Move(P, y, y) /\ c = cur /\ z = stack /\ m = Len(stack)
                                 /\ f = top.existing /\ x = image.dentries[y].name
                                 /\ q = LinkPrim(y, f)
  OBVIOUS
<1>2. Seen(s, N, P)
  BY SeenIs
<1>3. Taken(s, P, Q, y, c)
  BY <1>1, TakenIs
<1>4. /\ DOMAIN Q = DOMAIN P /\ y \in DOMAIN P /\ w = With(s, Q)
      /\ \A n \in DOMAIN P : Q[n].dir = P[n].dir
  BY <1>3 DEF Taken
<1>5. /\ m \in Nat /\ m > 0 /\ DOMAIN z = 1..m /\ f \in N
      /\ z \in Seq([branch : DOMAIN P, existing : N]) /\ Len(z) = m
      /\ BranchRoots = Roots(P) /\ Roots(P) = {z[k].branch : k \in 1..m}
  <2>1. /\ Len(stack) \in Nat /\ Len(stack) > 0 /\ DOMAIN stack = 1..Len(stack)
        /\ stack \in Seq([branch : DOMAIN P, existing : N]) /\ top.existing \in N
        /\ BranchRoots = Roots(P) /\ Roots(P) = {stack[k].branch : k \in 1..Len(stack)}
    BY StackIs
  <2> QED
    BY <1>1, <2>1
<1>6. Named(s, f, P[y].name) = {}
  <2>1. Child(image, f, x) = None
    BY <1>1
  <2>2. Named(s, f, x) = {}
    BY <1>5, <2>1, InItsPlace
  <2> QED
    BY <1>1, <1>2, <1>4, <2>2 DEF Seen
<1>7. PICK K, V : K = {n \in DOMAIN Q : y \in Up(Q, n)} /\ V = Part(Q, DOMAIN Q \ K)
  OBVIOUS
<1>8. ChildGrafted(s, N, P, Q, K, V, y, f, c)
  BY <1>1, <1>3, <1>6, <1>7, ChildIsGraftable
<1>9. /\ Graftable(s, N, Q, K, y, f) /\ BranchOK(V, c) /\ DOMAIN V = DOMAIN Q \ K
      /\ Roots(V) = Roots(P)
  BY <1>8 DEF ChildGrafted
<1>10. Journal(w, <<q>>, FALSE)
  BY <1>1
<1>11. <<s, prims>> \in R /\ Safe(R, N, cur)
  BY DEF UndoableWith
<1>12. \E t, S, M : Linked(N, K, Q, t, S, M)
  BY <1>1, <1>4, <1>9, <1>10, <1>11, OneLinked
<1>13. PICK t, S, M : Linked(N, K, Q, t, S, M)
  BY <1>12
<1>14. /\ M = N \cup K /\ Safe(S, M, c) /\ <<t, prims'>> \in S /\ image' = With(t, V)
       /\ Nodes(image') = N \cup DOMAIN P
  BY <1>1, <1>4, <1>7, <1>13 DEF Linked
<1>15. /\ image'.orphans = image.orphans
       /\ \A n \in N \cup DOMAIN P : image'.dentries[n].dir = image.dentries[n].dir
  <2>1. image' = Do(w, q)
    BY <1>10, JournalOne
  <2>2. /\ Nodes(w) = N \cup DOMAIN Q /\ Do(w, q).orphans = s.orphans
        /\ \A n \in Nodes(w) : Do(w, q).dentries[n].dir = w.dentries[n].dir
    <3>1. /\ Nodes(w) = N \cup DOMAIN Q
          /\ Do(w, LinkPrim(y, f)).orphans = w.orphans /\ w.orphans = s.orphans
          /\ \A n \in Nodes(w) : Do(w, LinkPrim(y, f)).dentries[n].dir = w.dentries[n].dir
      BY <1>4, <1>9, GraftShows
    <3> QED
      BY <1>1, <3>1
  <2>3. /\ \A n \in N : w.dentries[n] = s.dentries[n]
        /\ \A n \in DOMAIN Q : w.dentries[n] = Q[n]
    <3>1. Fits(s, N) /\ Forest(Q) /\ N \cap DOMAIN Q = {}
      BY <1>9 DEF Graftable
    <3>2. /\ \A n \in N : With(s, Q).dentries[n] = s.dentries[n]
          /\ \A n \in DOMAIN Q : With(s, Q).dentries[n] = Q[n]
      BY <3>1, WithIs
    <3> QED
      BY <1>4, <3>2
  <2> QED
    BY <1>2, <1>4, <2>1, <2>2, <2>3 DEF Seen
<1>16. cur' = c /\ Branch' = Branch /\ top' = top
  BY <1>1 DEF cur, Branch, top
<1>17. BranchRoots' = BranchRoots
  BY <1>16 DEF BranchRoots
<1>18. \A k \in 1..m : z[k].branch \in DOMAIN V /\ z[k].existing \in M
  <2> SUFFICES ASSUME NEW k \in 1..m PROVE z[k].branch \in DOMAIN V /\ z[k].existing \in M
    OBVIOUS
  <2>1. PICK T : T = [branch : DOMAIN P, existing : N]
    OBVIOUS
  <2>2. z[k] \in T
    <3>1. z \in Seq(T) /\ k \in 1..Len(z)
      BY <1>5, <2>1
    <3> QED
      BY <3>1
  <2>3. z[k].existing \in N
    BY <2>1, <2>2
  <2>4. z[k].branch \in Roots(V)
    BY <1>5, <1>9
  <2> QED
    BY <1>14, <2>3, <2>4 DEF Roots
<1>19. z \in Seq([branch : DOMAIN V, existing : M])
  <2>1. PICK T, X : T = [branch : DOMAIN P, existing : N] /\ X = [branch : DOMAIN V, existing : M]
    OBVIOUS
  <2>2. ASSUME NEW k \in 1..m PROVE z[k] \in X
    <3>1. z[k] \in T
      <4>1. z \in Seq(T) /\ k \in 1..Len(z)
        BY <1>5, <2>1, <2>2
      <4> QED
        BY <4>1
    <3>2. z[k] = [branch |-> z[k].branch, existing |-> z[k].existing]
      BY <2>1, <3>1
    <3>3. PICK u, v : u = z[k].branch /\ v = z[k].existing
      OBVIOUS
    <3>4. [branch |-> u, existing |-> v] \in [branch : DOMAIN V, existing : M]
      BY <1>18, <3>3
    <3> QED
      BY <2>1, <3>2, <3>3, <3>4
  <2>3. z \in Seq(X)
    BY <1>5, <2>2
  <2> QED
    BY <2>1, <2>3
<1>20. StackOK(M, V)'
  <2>1. StackOK(N, P) /\ stack' = z /\ DOMAIN stack = 1..m /\ stack = z
    BY <1>1, <1>5 DEF UndoableWith
  <2>2. \A k \in 1..m :
           /\ z[k].existing \notin image.orphans /\ Len(z[k].branch[2]) = k - 1
           /\ k > 1 => z[k - 1].branch = <<c, Front(z[k].branch[2])>>
           /\ image.dentries[z[k].branch].dir /\ image.dentries[z[k].existing].dir
    BY <1>1, <2>1 DEF StackOK
  <2>3. \A k \in 1..m : z[k].branch \in N \cup DOMAIN P /\ z[k].existing \in N \cup DOMAIN P
    <3> SUFFICES ASSUME NEW k \in 1..m
                 PROVE  z[k].branch \in N \cup DOMAIN P /\ z[k].existing \in N \cup DOMAIN P
      OBVIOUS
    <3>1. z[k].branch \in DOMAIN V /\ z[k].existing \in M
      BY <1>18
    <3>2. DOMAIN V \subseteq DOMAIN P /\ M \subseteq N \cup DOMAIN P
      BY <1>4, <1>7, <1>9, <1>14
    <3> QED
      BY <3>1, <3>2
  <2>4. \A k \in 1..m :
           /\ z[k].existing \notin image'.orphans /\ Len(z[k].branch[2]) = k - 1
           /\ k > 1 => z[k - 1].branch = <<c, Front(z[k].branch[2])>>
           /\ image'.dentries[z[k].branch].dir /\ image'.dentries[z[k].existing].dir
    BY <1>15, <2>2, <2>3
  <2>5. z # <<>> /\ pc' = "overlay"
    BY <1>5
  <2> QED
    BY <1>5, <1>16, <1>19, <2>1, <2>4, <2>5 DEF StackOK
<1>21. M \cap DOMAIN V = {}
  BY <1>2, <1>4, <1>9, <1>14 DEF Seen
<1>22. Roots(V) = BranchRoots'
  BY <1>5, <1>9, <1>17
<1>23. UndoableWith(t, S, M, V)'
  BY <1>1, <1>9, <1>14, <1>16, <1>20, <1>21, <1>22 DEF UndoableWith
<1>24. Nodes(image') = Nodes(image)
  BY <1>2, <1>14 DEF Seen
<1> QED
  BY <1>23, <1>24 DEF Undoable

LEMMA LongerChain ==
    ASSUME NEW h, NEW P, NEW c, ChainOK(h, P, c), NEW Q, DOMAIN Q = DOMAIN P, NEW y \in DOMAIN P,
           Roots(Q) = Roots(P) \cup {y}, Len(y[2]) = Len(h), h[Len(h)] = <<c, Front(y[2])>>
    PROVE  ChainOK(Append(h, y), Q, c)
<1>1. PICK g, m, D : g = Append(h, y) /\ m = Len(h) /\ D = DOMAIN P
  OBVIOUS
<1>2. /\ h \in Seq(D) /\ m \in Nat /\ m > 0
      /\ \A k \in 1..m : Len(h[k][2]) = k - 1
      /\ \A k \in 2..m : h[k - 1] = <<c, Front(h[k][2])>>
      /\ Roots(P) = {h[k] : k \in 1..m}
  BY <1>1 DEF ChainOK
<1>3. g \in Seq(D) /\ Len(g) = m + 1 /\ g[m + 1] = y /\ \A k \in 1..m : g[k] = h[k]
  BY <1>1, <1>2
<1>4. \A k \in 1..(m + 1) : k = m + 1 \/ k \in 1..m
  BY <1>2
<1>5. ASSUME NEW k \in 1..(m + 1) PROVE Len(g[k][2]) = k - 1
  <2>1. CASE k = m + 1
    BY <1>1, <1>2, <1>3, <2>1
  <2>2. CASE k \in 1..m
    BY <1>2, <1>3, <2>2
  <2> QED
    BY <1>4, <2>1, <2>2
<1>6. ASSUME NEW k \in 2..(m + 1) PROVE g[k - 1] = <<c, Front(g[k][2])>>
  <2>1. CASE k = m + 1
    <3>1. k - 1 = m /\ m \in 1..m
      BY <1>2, <2>1
    <3>2. g[m] = h[m] /\ h[m] = <<c, Front(y[2])>>
      BY <1>1, <1>3, <3>1
    <3> QED
      BY <1>3, <2>1, <3>1, <3>2
  <2>2. CASE k \in 1..m
    <3>1. k \in 2..m /\ k - 1 \in 1..m
      BY <1>2, <2>2
    <3> QED
      BY <1>2, <1>3, <2>2, <3>1
  <2> QED
    BY <1>2, <2>1, <2>2
<1>7. Roots(Q) = {g[k] : k \in 1..(m + 1)}
  <2>1. ASSUME NEW n \in Roots(Q) PROVE n \in {g[k] : k \in 1..(m + 1)}
    <3>1. CASE n = y
      <4>1. m + 1 \in 1..(m + 1)
        BY <1>2
      <4> QED
        BY <1>3, <3>1, <4>1
    <3>2. CASE n \in Roots(P)
      <4>1. PICK k \in 1..m : n = h[k]
        BY <1>2, <3>2
      <4>2. k \in 1..(m + 1) /\ n = g[k]
        BY <1>2, <1>3, <4>1
      <4> QED
        BY <4>2
    <3> QED
      BY <3>1, <3>2
  <2>2. ASSUME NEW k \in 1..(m + 1) PROVE g[k] \in Roots(Q)
    <3>1. CASE k = m + 1
      BY <1>3, <3>1
    <3>2. CASE k \in 1..m
      BY <1>2, <1>3, <3>2
    <3> QED
      BY <1>4, <3>1, <3>2
  <2> QED
    BY <2>1, <2>2
<1>8. g \in Seq(DOMAIN Q) /\ Len(g) > 0
  BY <1>1, <1>2, <1>3
<1>9. \A k \in 1..Len(g) : Len(g[k][2]) = k - 1
  BY <1>3, <1>5
<1>10. \A k \in 2..Len(g) : g[k - 1] = <<c, Front(g[k][2])>>
  BY <1>3, <1>6
<1>11. Roots(Q) = {g[k] : k \in 1..Len(g)}
  BY <1>3, <1>7
<1>12. ChainOK(g, Q, c)
  BY <1>8, <1>9, <1>10, <1>11 DEF ChainOK
<1> QED
  BY <1>1, <1>12

LEMMA OverlayChildKeeps ==
    ASSUME IInv, OverlayChild
    PROVE  IInv'
<1>1. pc = "overlay" /\ cmds' = cmds
  BY DEF OverlayChild
<1>2. CommandsOK /\ Undoable /\ IdsOK
  BY <1>1 DEF IInv
<1>3. PICK s, R, N, P : UndoableWith(s, R, N, P)
  BY <1>2 DEF Undoable
<1>4. cur \in Nat /\ cur # 0
  BY <1>1, <1>2, CommandIs DEF Adding
<1>5. PICK y \in Children(image, top.branch) :
         LET w == Unlink(image, y, top.branch)
             existing == Child(image, top.existing, image.dentries[y].name) IN
         IF existing # None
         THEN /\ image' = w /\ pc' = "conflict"
              /\ stack' = Append(stack, [branch |-> y, existing |-> existing])
              /\ UNCHANGED <<prims, broken>>
         ELSE LinkOr(w, <<LinkPrim(y, top.existing)>>, Append(Branches, y), UNCHANGED <<pc, stack>>)
  BY DEF OverlayChild
<1>6. PICK w, e, q, h : /\ w = Unlink(image, y, top.branch)
                        /\ e = Child(image, top.existing, image.dentries[y].name)
                        /\ q = LinkPrim(y, top.existing) /\ h = Append(Branches, y)
  OBVIOUS
<1>7. ASSUME Undoable', Nodes(image') \subseteq Nodes(image),
             pc' \in {"conflict", "overlay", "rollback"}
      PROVE  IInv'
  <2>1. IdsOK' /\ AttachOK'
    BY <1>1, <1>2, <1>7, IdsKept DEF AttachOK
  <2>2. CommandsOK'
    BY <1>1, <1>2, <1>7 DEF CommandsOK, Adding, cmd, cur
  <2> QED
    BY <1>7, <2>1, <2>2 DEF IInv
<1>8. CASE e # None
  <2>1. /\ image' = Unlink(image, y, top.branch) /\ pc' = "conflict" /\ prims' = prims
        /\ stack' = Append(stack, [branch |-> y, existing |-> e])
    BY <1>5, <1>6, <1>8
  <2>2. Undoable' /\ Nodes(image') = Nodes(image)
    BY <1>1, <1>3, <1>6, <1>8, <2>1, DescendKeeps
  <2> QED
    BY <1>7, <2>1, <2>2
<1>9. CASE e = None
  <2>1. LinkOr(w, <<q>>, h, UNCHANGED <<pc, stack>>)
    BY <1>5, <1>6, <1>9
  <2>2. \/ Journal(w, <<q>>, FALSE) /\ pc' = pc /\ stack' = stack
        \/ LinkFails(w, <<q>>, h)
    BY <2>1 DEF LinkOr, LinkFails, After, Extended
  <2>3. CASE Journal(w, <<q>>, FALSE) /\ pc' = pc /\ stack' = stack
    <3>1. Journal(w, <<LinkPrim(y, top.existing)>>, FALSE)
      BY <1>6, <2>3
    <3>2. Child(image, top.existing, image.dentries[y].name) = None
      BY <1>6, <1>9
    <3>3. Undoable' /\ Nodes(image') = Nodes(image)
      BY <1>1, <1>3, <1>4, <1>6, <2>3, <3>1, <3>2, GraftChildKeeps
    <3> QED
      BY <1>1, <1>7, <2>3, <3>3
  <2>4. CASE LinkFails(w, <<q>>, h)
    <3>1. PICK Q, c : Q = Move(P, y, y) /\ c = cur
      OBVIOUS
    <3>2. Taken(s, P, Q, y, c)
      BY <1>1, <1>3, <3>1, TakenIs
    <3>3. /\ BranchOK(Q, c) /\ DOMAIN Q = DOMAIN P /\ Roots(Q) = Roots(P) \cup {y}
          /\ y \in DOMAIN P /\ top.branch = <<c, Front(y[2])>> /\ Len(y[2]) = Len(stack)
          /\ w = With(s, Q)
      BY <1>6, <3>2 DEF Taken
    <3>4. Seen(s, N, P)
      BY <1>3, SeenIs
    <3>5. PICK g : g = Branches
      OBVIOUS
    <3>6. ChainOK(g, P, c) /\ Len(g) = Len(stack)
      BY <1>1, <1>3, <3>1, <3>5, BranchesAreChain
    <3>7. g[Len(g)] = <<c, Front(y[2])>>
      <4>1. Len(stack) \in Nat /\ Len(stack) > 0 /\ top = stack[Len(stack)]
        BY <1>1, <1>3, StackIs
      <4>2. Len(stack) \in 1..Len(stack)
        BY <4>1
      <4>3. g[Len(stack)] = stack[Len(stack)].branch
        BY <3>5, <4>2 DEF Branches
      <4> QED
        BY <3>3, <3>6, <4>1, <4>3
    <3>8. ChainOK(h, Q, c)
      <4>1. Len(y[2]) = Len(g)
        BY <3>3, <3>6
      <4>2. ChainOK(Append(g, y), Q, c)
        BY <3>3, <3>6, <3>7, <4>1, LongerChain
      <4> QED
        BY <1>6, <3>5, <4>2
    <3>9. /\ Fits(s, N) /\ BranchOK(Q, cur) /\ N \cap DOMAIN Q = {}
          /\ <<s, prims>> \in R /\ Safe(R, N, cur) /\ ChainOK(h, Q, cur)
      BY <1>3, <3>1, <3>3, <3>4, <3>8 DEF UndoableWith, Seen
    <3>10. Undoable' /\ Nodes(image') = N /\ pc' = "rollback"
      BY <1>1, <1>4, <2>4, <3>3, <3>9, OneRefused
    <3>11. Nodes(image') \subseteq Nodes(image)
      BY <3>4, <3>10 DEF Seen
    <3> QED
      BY <1>7, <3>10, <3>11
  <2> QED
    BY <2>2, <2>3, <2>4
<1> QED
  BY <1>8, <1>9

-----------------------------------------------------------------------------
(* A file is replaced.                                                     *)

LEMMA AfterSecond ==
    ASSUME NEW w, NEW X, NEW qs \in Seq(X), Len(qs) \in Nat
    PROVE  Len(qs) > 1 => After(w, qs, 2) = Do(Do(w, qs[1]), qs[2])
<1>1. /\ After(w, qs, 0) = w
      /\ \A k \in 0..(Len(qs) - 1) : After(w, qs, k + 1) = Do(After(w, qs, k), qs[k + 1])
  <2>1. OneByOne(w, qs)
    BY FoldSteps
  <2> QED
    BY <2>1 DEF OneByOne
<1> SUFFICES ASSUME Len(qs) > 1 PROVE After(w, qs, 2) = Do(Do(w, qs[1]), qs[2])
  OBVIOUS
<1>2. 0 \in 0..(Len(qs) - 1) /\ 1 \in 0..(Len(qs) - 1)
  OBVIOUS
<1>3. After(w, qs, 0 + 1) = Do(After(w, qs, 0), qs[0 + 1])
  BY <1>1, <1>2
<1>4. After(w, qs, 1 + 1) = Do(After(w, qs, 1), qs[1 + 1])
  BY <1>1, <1>2
<1> QED
  BY <1>1, <1>3, <1>4

LEMMA AfterTwo ==
    ASSUME NEW w, NEW q, NEW r, NEW qs, qs = <<q, r>>
    PROVE  /\ Len(qs) = 2 /\ After(w, qs, 0) = w /\ After(w, qs, 1) = Do(w, q)
           /\ After(w, qs, 2) = Do(Do(w, q), r)
<1>1. PICK X, ps : X = {q, r} /\ ps = <<q, r>> /\ ps = qs
  OBVIOUS
<1>2. ps \in Seq(X) /\ Len(ps) = 2 /\ ps[1] = q /\ ps[2] = r
  BY <1>1
<1>3. Len(ps) \in Nat /\ Len(ps) > 0 /\ Len(ps) > 1
  BY <1>2
<1>4. After(w, ps, 0) = w
  BY ONLY <1>2, FoldSteps DEF OneByOne
<1>5. After(w, ps, 1) = Do(w, ps[1])
  BY ONLY <1>2, <1>3, AfterFirst
<1>6. After(w, ps, 2) = Do(Do(w, ps[1]), ps[2])
  BY ONLY <1>2, <1>3, AfterSecond
<1> QED
  BY <1>1, <1>2, <1>4, <1>5, <1>6

LEMMA PutBehind ==
    ASSUME NEW Y, NEW f \in Seq(Y), NEW r \in Y
    PROVE  f \o <<r>> = Append(f, r)
OBVIOUS

ByTwo(j, c, q, r, g) ==
    /\ Extended(j, c, <<q, r>>, 1) = g
    /\ Extended(j, c, <<q, r>>, 2) = Extended(g, c, <<r>>, 1)

LEMMA ExtendedTwo ==
    ASSUME NEW X, NEW j \in Seq(Seq(X)), NEW c \in 1..Len(j), NEW q, NEW r, NEW g,
           g = Extended(j, c, <<q>>, 1)
    PROVE  ByTwo(j, c, q, r, g)
<1>1. PICK a \in Seq(X) : a = j[c]
  OBVIOUS
<1>2. PICK Y : Y = X \cup {q, r}
  OBVIOUS
<1>3. a \in Seq(Y) /\ <<q>> \in Seq(Y) /\ <<r>> \in Seq(Y)
  BY <1>2
<1>4. /\ SubSeq(<<q, r>>, 1, 1) = <<q>> /\ SubSeq(<<q, r>>, 1, 2) = <<q, r>>
      /\ SubSeq(<<q>>, 1, 1) = <<q>> /\ SubSeq(<<r>>, 1, 1) = <<r>>
  <2>1. \A f \in Seq(Y) : SubSeq(f, 1, Len(f)) = f
    OBVIOUS
  <2>2. PICK f, g1, h : f = <<q>> /\ g1 = <<r>> /\ h = <<q, r>>
    OBVIOUS
  <2>3. /\ f \in Seq(Y) /\ g1 \in Seq(Y) /\ h \in Seq(Y)
        /\ Len(f) = 1 /\ Len(g1) = 1 /\ Len(h) = 2
    BY <1>2, <2>2
  <2>4. SubSeq(f, 1, 1) = f /\ SubSeq(g1, 1, 1) = g1 /\ SubSeq(h, 1, 2) = h
    <3>1. SubSeq(f, 1, Len(f)) = f /\ SubSeq(g1, 1, Len(g1)) = g1 /\ SubSeq(h, 1, Len(h)) = h
      BY <2>1, <2>3
    <3> QED
      BY <2>3, <3>1
  <2>5. SubSeq(h, 1, 1) = f
    <3>1. PICK p : p = SubSeq(h, 1, 1)
      OBVIOUS
    <3>2. p \in Seq(Y) /\ Len(p) = 1 /\ p[1] = h[1]
      <4>1. \A i \in Seq(Y), k \in 0..Len(h) :
               i = h => SubSeq(i, 1, k) \in Seq(Y) /\ Len(SubSeq(i, 1, k)) = k
                        /\ \A n \in 1..k : SubSeq(i, 1, k)[n] = i[n]
        OBVIOUS
      <4>2. h \in Seq(Y) /\ 1 \in 0..Len(h) /\ 1 \in 1..1
        BY <2>3
      <4> QED
        BY <3>1, <4>1, <4>2
    <3>3. h[1] = q /\ f[1] = q
      BY <2>2
    <3>4. p = f
      BY <2>3, <3>2, <3>3
    <3> QED
      BY <3>1, <3>4
  <2> QED
    BY <2>2, <2>4, <2>5
<1>5. PICK u : u = a \o <<q>>
  OBVIOUS
<1>6. u \o <<r>> = a \o <<q, r>>
  <2>1. PICK f, g1, h, l : f = <<q>> /\ g1 = <<r>> /\ h = <<q, r>> /\ l = Len(a)
    OBVIOUS
  <2>2. /\ f \in Seq(Y) /\ g1 \in Seq(Y) /\ h \in Seq(Y) /\ l \in Nat
        /\ Len(f) = 1 /\ Len(g1) = 1 /\ Len(h) = 2
        /\ f[1] = q /\ g1[1] = r /\ h[1] = q /\ h[2] = r
    BY <1>2, <2>1
  <2>3. u = a \o f /\ u \in Seq(Y) /\ Len(u) = l + 1 /\ u[l + 1] = q
        /\ \A i \in 1..l : u[i] = a[i]
    BY <1>3, <1>5, <2>1, <2>2
  <2>4. PICK v : v = u \o g1
    OBVIOUS
  <2>5. v \in Seq(Y) /\ Len(v) = l + 2 /\ v[l + 2] = r /\ \A i \in 1..(l + 1) : v[i] = u[i]
    <3>1. PICK m : m = l + 1
      OBVIOUS
    <3>2. u \in Seq(Y) /\ Len(u) = m /\ g1 \in Seq(Y) /\ Len(g1) = 1 /\ m \in Nat
      BY <2>2, <2>3, <3>1
    <3>3. /\ v \in Seq(Y) /\ Len(v) = m + 1 /\ v[m + 1] = g1[1]
          /\ \A i \in 1..m : v[i] = u[i]
      <4>1. r \in Y
        BY <1>2
      <4>2. u \o <<r>> = Append(u, r)
        BY <3>2, <4>1, PutBehind
      <4>3. v = Append(u, r)
        BY <2>1, <2>4, <4>2
      <4>4. g1[1] = r
        BY <2>1
      <4> QED
        BY <3>2, <4>1, <4>3, <4>4
    <3>4. m + 1 = l + 2
      BY <2>2, <3>1
    <3> QED
      BY <2>2, <3>1, <3>3, <3>4
  <2>6. PICK y : y = a \o h
    OBVIOUS
  <2>7. /\ y \in Seq(Y) /\ Len(y) = l + 2 /\ y[l + 1] = q /\ y[l + 2] = r
        /\ \A i \in 1..l : y[i] = a[i]
    BY <1>3, <2>1, <2>2, <2>6
  <2>8. ASSUME NEW i \in 1..(l + 2) PROVE v[i] = y[i]
    <3>1. i = l + 2 \/ i = l + 1 \/ i \in 1..l
      <4>1. l \in Nat
        BY <2>2
      <4> QED
        BY <2>8, <4>1
    <3>2. CASE i = l + 2
      BY <2>5, <2>7, <3>2
    <3>3. CASE i = l + 1
      <4>1. i \in 1..(l + 1)
        BY <2>2, <3>3
      <4> QED
        BY <2>3, <2>5, <2>7, <3>3, <4>1
    <3>4. CASE i \in 1..l
      <4>1. i \in 1..(l + 1)
        BY <2>2, <3>4
      <4> QED
        BY <2>3, <2>5, <2>7, <3>4, <4>1
    <3> QED
      BY <3>1, <3>2, <3>3, <3>4
  <2>9. v = y
    <3>1. PICK m \in Nat : m = l + 2
      BY <2>2
    <3>2. \A i \in 1..m : v[i] = y[i]
      BY <2>8, <3>1
    <3> QED
      BY <2>5, <2>7, <3>1, <3>2
  <2> QED
    BY <2>1, <2>4, <2>6, <2>9
<1>7. g = [j EXCEPT ![c] = u]
  BY <1>1, <1>4, <1>5 DEF Extended
<1>8. g[c] = u
  BY <1>7
<1>9. [g EXCEPT ![c] = u \o <<r>>] = [j EXCEPT ![c] = u \o <<r>>]
  BY <1>7
<1>10. Extended(j, c, <<q, r>>, 1) = g
  BY <1>1, <1>4, <1>5, <1>7 DEF Extended
<1>11. Extended(j, c, <<q, r>>, 2) = [j EXCEPT ![c] = u \o <<r>>]
  BY <1>1, <1>4, <1>6 DEF Extended
<1>12. Extended(g, c, <<r>>, 1) = [g EXCEPT ![c] = u \o <<r>>]
  BY <1>4, <1>8 DEF Extended
<1> QED
  BY <1>9, <1>10, <1>11, <1>12 DEF ByTwo

(* The file that is replaced is taken out of the image. *)
Replaced(s, N, P, b, e, x, q, u, w) ==
    /\ Steps(s, q, N) /\ u = Do(s, q) /\ w = Do(image, q) /\ w = With(u, P)
    /\ x # None /\ u.orphans = s.orphans \cup {e}
    /\ (\A n \in N : u.dentries[n].dir = s.dentries[n].dir)
    /\ (\A n \in DOMAIN P : P[n].parent = b => n = b)
    /\ Graftable(u, N, P, {b}, b, x)

LEMMA ReplacedIs ==
    ASSUME NEW s, NEW R, NEW N, NEW P, UndoableWith(s, R, N, P), pc = "conflict",
           NEW b, b = top.branch, NEW e, e = top.existing,
           ~image.dentries[b].dir, ~image.dentries[e].dir,
           NEW x, x = image.dentries[e].parent, NEW q, q = UnlinkPrim(image, e),
           NEW u, u = Do(s, q), NEW w, w = Do(image, q)
    PROVE  Replaced(s, N, P, b, e, x, q, u, w)
<1>1. Seen(s, N, P) /\ image = With(s, P)
  BY SeenIs DEF UndoableWith
<1>2. PICK d, r, o, m : d = s.dentries /\ r = s.root /\ o = s.orphans /\ m = Len(stack)
  OBVIOUS
<1>3. /\ Fits(s, N) /\ Forest(P) /\ N \cap DOMAIN P = {} /\ Forest(d) /\ DOMAIN d = N
      /\ s = State(d, r, o)
  BY <1>1, <1>2, StateIs DEF Seen, Fits, Nodes
<1>4. /\ b \in DOMAIN P /\ e \in N /\ b \in Roots(P) /\ m \in DOMAIN stack
      /\ e = stack[m].existing
  <2>1. /\ Len(stack) \in Nat /\ Len(stack) > 0 /\ DOMAIN stack = 1..Len(stack)
        /\ top = stack[Len(stack)] /\ top.branch \in DOMAIN P /\ top.existing \in N
        /\ Roots(P) = {stack[k].branch : k \in 1..Len(stack)}
    BY StackIs
  <2> QED
    BY <1>2, <2>1
<1>5. /\ ~P[b].dir /\ ~d[e].dir /\ x = d[e].parent /\ x \in N /\ P[b].parent = b
      /\ image.dentries[e] = d[e] /\ image.dentries[b] = P[b]
  BY <1>1, <1>2, <1>4 DEF Seen, Roots
<1>6. e \notin o
  <2>1. StackOK(N, P)
    BY DEF UndoableWith
  <2>2. e \notin image.orphans
    BY <1>4, <2>1 DEF StackOK
  <2> QED
    BY <1>1, <1>2, <2>2 DEF Seen
<1>7. e # r /\ x # e /\ d[x].dir
  <2>1. None \notin N
    BY <1>3 DEF Forest
  <2>2. r # None => d[r].dir
    BY <1>2, <1>3 DEF Fits
  <2>3. e # r
    BY <1>4, <1>5, <2>1, <2>2
  <2>4. d[e].parent = e <=> e = r \/ e \in o
    BY <1>2, <1>3, <1>4 DEF Fits
  <2> QED
    BY <1>3, <1>4, <1>5, <1>6, <2>3, <2>4 DEF Forest
<1>8. P[b].name = d[e].name
  <2>1. StackOK(N, P)
    BY DEF UndoableWith
  <2> QED
    BY <1>5, <1>7, <2>1 DEF StackOK
<1>9. q = UnlinkPrim(s, e)
  BY <1>2, <1>5 DEF UnlinkPrim
<1>10. /\ Steps(s, q, N) /\ u = State(Move(d, e, e), r, o \cup {e})
  <2>1. e \notin s.orphans
    BY <1>2, <1>6
  <2>2. PICK p : p = UnlinkPrim(s, e) /\ p = q
    BY <1>9
  <2>3. Fits(s, N) /\ e \in N
    BY <1>3, <1>4
  <2>4. Steps(s, p, N)
    BY <2>1, <2>2, <2>3, DoUnlink
  <2>5. Do(s, p) = State(Move(s.dentries, e, e), IF e = s.root THEN None ELSE s.root,
                         s.orphans \cup {e})
    BY <2>1, <2>2, <2>3, DoUnlink
  <2> QED
    BY <1>2, <1>7, <2>2, <2>4, <2>5
<1>11. q \in Prims(N) /\ Fits(u, N)
  BY <1>10 DEF Steps
<1>12. w = With(u, P)
  <2>1. With(s, P) = Put(s, P, {}) /\ Apart(P, {}, N)
    BY <1>3, WithIsPut
  <2>2. With(u, P) = Put(u, P, {})
    BY <1>3, <1>11, WithIsPut
  <2>3. PICK a : a = {}
    OBVIOUS
  <2>4. Do(Put(s, P, a), q) = Put(Do(s, q), P, a)
    BY <1>3, <1>11, <2>1, <2>3, PutDo
  <2> QED
    BY <1>1, <2>1, <2>2, <2>3, <2>4
<1>13. PICK v : v = Move(d, e, e)
  OBVIOUS
<1>14. /\ DOMAIN v = N /\ v[e].parent = e /\ (\A n \in N : v[n].dir = d[n].dir)
       /\ \A n \in N : n # e => v[n] = d[n]
  <2>1. d \in Dentries(N)
    BY <1>3 DEF Forest
  <2>2. /\ DOMAIN Move(d, e, e) = N
        /\ Move(d, e, e)[e].parent = e
        /\ Move(d, e, e)[e].dir = d[e].dir
        /\ \A n \in N : n # e => Move(d, e, e)[n] = d[n]
    BY <1>4, <2>1, MoveIs
  <2> QED
    BY <1>13, <2>2
<1>15. u.dentries = v /\ u.orphans = o \cup {e} /\ u.root = r
  BY <1>10, <1>13 DEF State
<1>16. Named(u, x, P[b].name) = {}
  <2> SUFFICES ASSUME NEW n \in Named(u, x, P[b].name) PROVE FALSE
    OBVIOUS
  <2>1. n \in N /\ n # x /\ v[n].parent = x /\ v[n].name = d[e].name
    BY <1>8, <1>14, <1>15 DEF Named, Children
  <2>2. n # e
    BY <1>7, <1>14, <2>1
  <2>3. d[n].parent = x /\ d[n].name = d[e].name
    BY <1>14, <2>1, <2>2
  <2> QED
    BY <1>3, <1>4, <1>5, <1>7, <2>1, <2>2, <2>3 DEF Forest
<1>17. Place(u, N, P[b].name, P[b].dir, x)
  BY <1>5, <1>7, <1>14, <1>15, <1>16 DEF Place
<1>18. \A n \in DOMAIN P : P[n].parent = b => n = b
  BY <1>3, <1>5 DEF Forest
<1>19. PICK K : K = {b}
  OBVIOUS
<1>20. Closed(P, K) /\ Closed(P, DOMAIN P \ K)
  BY <1>3, <1>4, <1>5, <1>18, <1>19 DEF Closed, Forest, Dentries
<1>21. b \in K /\ Roots(Part(P, K)) = {b}
  <2>1. PICK g : g = Part(P, K)
    OBVIOUS
  <2>2. DOMAIN g = {b} /\ g[b] = P[b]
    BY <1>19, <2>1 DEF Part
  <2> QED
    BY <1>5, <1>19, <2>1, <2>2 DEF Roots
<1>22. Graftable(u, N, P, K, b, x)
  BY <1>3, <1>11, <1>17, <1>20, <1>21 DEF Graftable
<1>23. x # None
  BY <1>3, <1>5 DEF Forest
<1>24. \A n \in N : u.dentries[n].dir = s.dentries[n].dir
  BY <1>2, <1>14, <1>15
<1> QED
  BY <1>2, <1>10, <1>12, <1>15, <1>18, <1>19, <1>22, <1>23, <1>24 DEF Replaced

(* The handler gives up before it has changed anything. *)
LEMMA ConflictRefused ==
    ASSUME NEW s, NEW R, NEW N, NEW P, UndoableWith(s, R, N, P), pc = "conflict",
           image' = Refuse(image, Branches), pc' = "rollback", stack' = <<>>,
           prims' = prims, cmds' = cmds
    PROVE  Undoable' /\ Nodes(image') = N
<1>1. PICK h : h = Branches
  OBVIOUS
<1>2. ChainOK(h, P, cur)
  BY <1>1, BranchesAreChain
<1>3. Seen(s, N, P)
  BY SeenIs
<1>4. /\ Fits(s, N) /\ BranchOK(P, cur) /\ N \cap DOMAIN P = {} /\ <<s, prims>> \in R
      /\ Safe(R, N, cur) /\ image = With(s, P)
  BY <1>3 DEF Seen, UndoableWith
<1>5. image' = Refuse(With(s, P), h) /\ <<s, prims'>> \in R
  BY <1>1, <1>4
<1> QED
  BY <1>2, <1>4, <1>5, RefusedIs

(* The journal after the file that is replaced is taken out. *)
LEMMA JournalReplaced ==
    ASSUME NEW s, NEW R, NEW N, <<s, prims>> \in R, Safe(R, N, cur), cur # 0,
           NEW q, NEW u, u = Do(s, q), Steps(s, q, N), NEW g, g = Extended(prims, cur, <<q>>, 1)
    PROVE  /\ \E S : Safe(S, N, cur) /\ <<u, g>> \in S
           /\ \A r : Extended(prims, cur, <<q, r>>, 0) = prims /\ ByTwo(prims, cur, q, r, g)
<1>1. PICK j, c, X, qs : j = prims /\ c = cur /\ X = Prims(N) /\ qs = <<q>>
  OBVIOUS
<1>2. j \in Seq(Seq(X)) /\ Len(j) = c
  <2>1. PICK e : e = <<s, j>>
    OBVIOUS
  <2>2. e \in R /\ e[2] = j
    BY <1>1, <2>1
  <2> QED
    BY <1>1, <2>2 DEF Safe
<1>3. c \in 1..Len(j)
  BY <1>1, <1>2
<1>4. Walk(s, qs, N, u) /\ Len(qs) = 1
  <2>1. Walk(s, Append(<<>>, q), N, u)
    BY WalkNowhere, WalkOn
  <2>2. Append(<<>>, q) = qs /\ Len(qs) = 1
    BY <1>1
  <2> QED
    BY <2>1, <2>2
<1>5. \E S : Safe(S, N, c) /\ <<After(s, qs, 1), Extended(j, c, qs, 1)>> \in S
  <2>1. PICK k \in 0..Len(qs) : k = 1
    BY <1>4
  <2>2. <<s, j>> \in R /\ Safe(R, N, c) /\ c # 0
    BY <1>1
  <2>3. \E S : Safe(S, N, c) /\ <<After(s, qs, k), Extended(j, c, qs, k)>> \in S
    BY <1>4, <2>2, JournalIsSafe
  <2> QED
    BY <2>1, <2>3
<1>6. u = After(s, qs, 1)
  BY <1>4 DEF Walk
<1>7. \E S : Safe(S, N, cur) /\ <<u, g>> \in S
  BY <1>1, <1>5, <1>6
<1>8. ASSUME NEW r
      PROVE  Extended(prims, cur, <<q, r>>, 0) = prims /\ ByTwo(prims, cur, q, r, g)
  <2>1. g = Extended(j, c, <<q>>, 1)
    BY <1>1
  <2>2. ByTwo(j, c, q, r, g)
    BY <1>2, <1>3, <2>1, ExtendedTwo
  <2>3. SubSeq(<<q, r>>, 1, 0) = <<>>
    OBVIOUS
  <2>4. PICK y : y = <<q, r>>
    OBVIOUS
  <2>5. Extended(j, c, y, 0) = j
    BY <1>2, <1>3, <2>3, <2>4, ExtendedNone
  <2> QED
    BY <1>1, <2>2, <2>4, <2>5
<1> QED
  BY <1>7, <1>8

JournalBoth(w, q, r) == Journal(w, <<q, r>>, FALSE)
JournaledBoth(w, q, r) ==
    image' = Do(Do(w, q), r) /\ prims' = Extended(prims, cur, <<q, r>>, 2)

LEMMA JournalTwo ==
    ASSUME NEW w, NEW q, NEW r, JournalBoth(w, q, r)
    PROVE  JournaledBoth(w, q, r)
<1>1. PICK qs : qs = <<q, r>>
  OBVIOUS
<1>2. PICK k \in 0..Len(qs) : /\ ~(k < Len(qs))
                              /\ image' = After(w, qs, k) /\ prims' = Extended(prims, cur, qs, k)
  BY <1>1 DEF Journal, JournalBoth, After, Extended
<1>3. Len(qs) = 2 /\ After(w, qs, 2) = Do(Do(w, q), r)
  BY <1>1, AfterTwo
<1>4. k = 2
  BY <1>2, <1>3
<1> QED
  BY <1>1, <1>2, <1>3, <1>4 DEF JournaledBoth

(* The swap was done. *)
LEMMA SwapKeeps ==
    ASSUME NEW s, NEW R, NEW N, NEW P, UndoableWith(s, R, N, P), pc = "conflict", cur # 0,
           NEW b, b = top.branch, NEW e, e = top.existing,
           ~image.dentries[b].dir, ~image.dentries[e].dir,
           NEW x, x = image.dentries[e].parent, NEW q, q = UnlinkPrim(image, e),
           NEW r, r = LinkPrim(b, x),
           JournalBoth(image, q, r), Return, cmds' = cmds
    PROVE  Undoable' /\ Nodes(image') = Nodes(image)
<1>1. PICK u, w, c, g, K, V : /\ u = Do(s, q) /\ w = Do(image, q) /\ c = cur
                              /\ g = Extended(prims, cur, <<q>>, 1) /\ K = {b}
                              /\ V = Part(P, DOMAIN P \ {b})
  OBVIOUS
<1>2. Replaced(s, N, P, b, e, x, q, u, w)
  BY <1>1, ReplacedIs
<1>3. /\ Steps(s, q, N) /\ w = With(u, P) /\ x # None /\ u.orphans = s.orphans \cup {e}
      /\ (\A n \in N : u.dentries[n].dir = s.dentries[n].dir)
      /\ (\A n \in DOMAIN P : P[n].parent = b => n = b)
      /\ Graftable(u, N, P, K, b, x)
  BY <1>1, <1>2 DEF Replaced
<1>4. Seen(s, N, P) /\ <<s, prims>> \in R /\ Safe(R, N, cur)
  BY SeenIs DEF UndoableWith
<1>5. /\ \E S : Safe(S, N, cur) /\ <<u, g>> \in S
      /\ Extended(prims, cur, <<q, r>>, 2) = Extended(g, cur, <<r>>, 1)
  <2>1. \E S : Safe(S, N, cur) /\ <<u, g>> \in S
    BY <1>1, <1>3, <1>4, JournalReplaced
  <2>2. ByTwo(prims, cur, q, r, g)
    BY <1>1, <1>3, <1>4, JournalReplaced
  <2> QED
    BY <2>1, <2>2 DEF ByTwo
<1>6. PICK S : Safe(S, N, c) /\ <<u, g>> \in S
  BY <1>1, <1>5
<1>7. image' = Do(w, r) /\ prims' = Extended(g, c, <<r>>, 1)
  <2>1. JournaledBoth(image, q, r)
    BY JournalTwo
  <2> QED
    BY <1>1, <1>5, <2>1 DEF JournaledBoth
<1>8. \E t, T, M : Grafted(u, N, P, K, r, g, c, t, T, M)
  BY <1>1, <1>3, <1>6, GraftIsSafe
<1>9. PICK t, T, M : Grafted(u, N, P, K, r, g, c, t, T, M)
  BY <1>8
<1>10. /\ M = N \cup K /\ Fits(t, M) /\ Safe(T, M, cur) /\ <<t, prims'>> \in T
       /\ image' = With(t, V)
  BY <1>1, <1>3, <1>7, <1>9 DEF Grafted
<1>11. Fits(u, N) /\ Forest(P) /\ N \cap DOMAIN P = {} /\ Closed(P, DOMAIN P \ K) /\ b \in DOMAIN P
  BY <1>1, <1>3 DEF Graftable, Closed
<1>12. DOMAIN V = DOMAIN P \ {b}
  BY <1>1, <1>11, PartForest
<1>13. M \cap DOMAIN V = {}
  <2>1. PICK X : X = DOMAIN P /\ N \cap X = {}
    BY <1>11
  <2>2. M = N \cup {b} /\ DOMAIN V = X \ {b}
    BY <1>1, <1>10, <1>12, <2>1
  <2> QED
    BY <2>1, <2>2
<1>14. /\ Nodes(image') = N \cup DOMAIN P /\ image'.orphans = u.orphans
       /\ \A n \in N \cup DOMAIN P : image'.dentries[n].dir = w.dentries[n].dir
  <2>1. /\ Nodes(Do(w, r)) = N \cup DOMAIN P /\ Nodes(w) = N \cup DOMAIN P
        /\ Do(w, r).orphans = w.orphans /\ w.orphans = u.orphans
        /\ \A n \in Nodes(w) : Do(w, r).dentries[n].dir = w.dentries[n].dir
    BY <1>3, GraftShows
  <2>4. PICK v : v = Do(w, r)
    OBVIOUS
  <2>2. image' = v /\ v = Do(w, r)
    BY <1>7, <2>4
  <2>3. /\ Nodes(v) = N \cup DOMAIN P /\ v.orphans = u.orphans
        /\ \A n \in N \cup DOMAIN P : v.dentries[n].dir = w.dentries[n].dir
    BY <2>1, <2>2
  <2> QED
    BY <2>2, <2>3
<1>15. \A n \in N \cup DOMAIN P : w.dentries[n].dir = image.dentries[n].dir
  <2>1. /\ \A n \in N : With(u, P).dentries[n] = u.dentries[n]
        /\ \A n \in DOMAIN P : With(u, P).dentries[n] = P[n]
    BY <1>11, WithIs
  <2> QED
    BY <1>3, <1>4, <2>1 DEF Seen
<1>16. \A n \in N \cup DOMAIN V : image'.dentries[n].dir = image.dentries[n].dir
  BY <1>12, <1>14, <1>15
<1>17. \A n \in image'.orphans : n \in image.orphans \/ ~image.dentries[n].dir
  BY <1>3, <1>4, <1>14 DEF Seen
<1>18. Popped(P, b, V, t, T, M, N)
  BY <1>1, <1>3, <1>10, <1>13, <1>16, <1>17 DEF Popped
<1>19. Undoable'
  BY <1>18, PopKeeps
<1>20. Nodes(image') = Nodes(image)
  BY <1>4, <1>14 DEF Seen
<1> QED
  BY <1>19, <1>20

(* One of the two primitives of the swap could not be recorded. *)
LEMMA SwapFails ==
    ASSUME NEW s, NEW R, NEW N, NEW P, UndoableWith(s, R, N, P), pc = "conflict", cur # 0,
           NEW b, b = top.branch, NEW e, e = top.existing,
           ~image.dentries[b].dir, ~image.dentries[e].dir,
           NEW x, x = image.dentries[e].parent, NEW q, q = UnlinkPrim(image, e),
           NEW r, LinkFails(image, <<q, r>>, Branches), cmds' = cmds
    PROVE  Undoable' /\ Nodes(image') = N /\ pc' = "rollback"
<1>1. PICK u, w, g, h, qs : /\ u = Do(s, q) /\ w = Do(image, q)
                            /\ g = Extended(prims, cur, <<q>>, 1) /\ h = Branches
                            /\ qs = <<q, r>>
  OBVIOUS
<1>2. Replaced(s, N, P, b, e, x, q, u, w)
  BY <1>1, ReplacedIs
<1>3. Steps(s, q, N) /\ w = With(u, P)
  BY <1>2 DEF Replaced
<1>4. Seen(s, N, P) /\ <<s, prims>> \in R /\ Safe(R, N, cur) /\ BranchOK(P, cur)
  BY SeenIs DEF UndoableWith
<1>5. /\ \E S : Safe(S, N, cur) /\ <<u, g>> \in S
      /\ Extended(prims, cur, <<q, r>>, 0) = prims
      /\ Extended(prims, cur, <<q, r>>, 1) = g
  <2>1. \E S : Safe(S, N, cur) /\ <<u, g>> \in S
    BY <1>1, <1>3, <1>4, JournalReplaced
  <2>2. Extended(prims, cur, <<q, r>>, 0) = prims /\ ByTwo(prims, cur, q, r, g)
    BY <1>1, <1>3, <1>4, JournalReplaced
  <2> QED
    BY <2>1, <2>2 DEF ByTwo
<1>6. /\ Len(qs) = 2 /\ After(image, qs, 0) = image /\ After(image, qs, 1) = w
  BY <1>1, AfterTwo
<1>7. /\ \E k \in 0..(Len(qs) - 1) :
            image' = Refuse(After(image, qs, k), h) /\ prims' = Extended(prims, cur, qs, k)
      /\ pc' = "rollback" /\ stack' = <<>>
  BY <1>1 DEF LinkFails
<1>8. PICK k \in 0..(Len(qs) - 1) :
         image' = Refuse(After(image, qs, k), h) /\ prims' = Extended(prims, cur, qs, k)
  BY <1>7
<1>9. k = 0 \/ k = 1
  BY <1>6
<1>10. CASE k = 0
  <2>1. image' = Refuse(image, Branches) /\ prims' = prims
    BY <1>1, <1>5, <1>6, <1>8, <1>10
  <2> QED
    BY <1>7, <2>1, ConflictRefused
<1>11. CASE k = 1
  <2>1. image' = Refuse(With(u, P), h) /\ prims' = g
    BY <1>1, <1>3, <1>5, <1>6, <1>8, <1>11
  <2>2. PICK S : Safe(S, N, cur) /\ <<u, g>> \in S
    BY <1>5
  <2>3. ChainOK(h, P, cur)
    BY <1>1, BranchesAreChain
  <2>4. Fits(u, N) /\ N \cap DOMAIN P = {} /\ <<u, prims'>> \in S
    BY <1>1, <1>3, <1>4, <2>1, <2>2 DEF Steps, Seen
  <2> QED
    BY <1>4, <1>7, <2>1, <2>2, <2>3, <2>4, RefusedIs
<1> QED
  BY <1>9, <1>10, <1>11

LEMMA ConflictKeeps ==
    ASSUME IInv, Conflict
    PROVE  IInv'
<1>1. pc = "conflict" /\ cmds' = cmds
  BY DEF Conflict
<1>2. CommandsOK /\ Undoable /\ IdsOK
  BY <1>1 DEF IInv
<1>3. PICK s, R, N, P : UndoableWith(s, R, N, P)
  BY <1>2 DEF Undoable
<1>4. cur \in Nat /\ cur # 0
  BY <1>1, <1>2, CommandIs DEF Adding
<1>5. PICK b, e, x, q, r : /\ b = top.branch /\ e = top.existing
                           /\ x = image.dentries[e].parent /\ q = UnlinkPrim(image, e)
                           /\ r = LinkPrim(b, x)
  OBVIOUS
<1>6. Nodes(image) = N \cup DOMAIN P
  BY <1>3, SeenIs DEF Seen
<1>7. ASSUME Undoable', Nodes(image') \subseteq Nodes(image),
             pc' \in {"end", "overlay", "rollback"}
      PROVE  IInv'
  <2>1. IdsOK' /\ AttachOK'
    BY <1>1, <1>2, <1>7, IdsKept DEF AttachOK
  <2>2. CommandsOK'
    BY <1>1, <1>2, <1>7 DEF CommandsOK, Adding, cmd, cur
  <2> QED
    BY <1>7, <2>1, <2>2 DEF IInv
<1>8. ASSUME image' = Refuse(image, Branches), pc' = "rollback", stack' = <<>>, prims' = prims
      PROVE  IInv'
  <2>1. Undoable' /\ Nodes(image') = N
    BY <1>1, <1>3, <1>8, ConflictRefused
  <2> QED
    BY <1>6, <1>7, <1>8, <2>1
<1>9. ASSUME image.dentries[b].dir, image.dentries[e].dir, pc' = "overlay",
             image' = image, prims' = prims, stack' = stack
      PROVE  IInv'
  <2>1. cur' = cur /\ BranchRoots' = BranchRoots /\ top' = top
    BY <1>1, <1>9 DEF cur, BranchRoots, Branch, Adding, top
  <2>2. StackOK(N, P) /\ image = With(s, P)
    BY <1>3 DEF UndoableWith
  <2>3. Len(stack) \in Nat /\ DOMAIN stack = 1..Len(stack) /\ top = stack[Len(stack)]
    BY <1>1, <1>3, StackIs
  <2>4. ASSUME NEW k \in DOMAIN stack
        PROVE  image.dentries[stack[k].branch].dir /\ image.dentries[stack[k].existing].dir
    <3>1. CASE k < Len(stack)
      BY <2>2, <2>4, <3>1 DEF StackOK
    <3>2. CASE k = Len(stack)
      BY <1>5, <1>9, <2>3, <3>2
    <3> QED
      BY <2>3, <2>4, <3>1, <3>2
  <2>5. StackOK(N, P)'
    BY <1>1, <1>9, <2>1, <2>2, <2>4 DEF StackOK
  <2>6. UndoableWith(s, R, N, P)'
    BY <1>3, <1>9, <2>1, <2>5 DEF UndoableWith
  <2>7. Undoable'
    BY <2>6 DEF Undoable
  <2> QED
    BY <1>7, <1>9, <2>7
<1>10. ASSUME ~image.dentries[b].dir, ~image.dentries[e].dir,
              LinkOr(image, <<q, r>>, Branches, Return)
       PROVE  IInv'
  <2>1. \/ JournalBoth(image, q, r) /\ Return
        \/ LinkFails(image, <<q, r>>, Branches)
    BY <1>10 DEF LinkOr, LinkFails, After, Extended, JournalBoth
  <2>2. CASE JournalBoth(image, q, r) /\ Return
    <3>1. Undoable' /\ Nodes(image') = Nodes(image)
      BY <1>1, <1>3, <1>4, <1>5, <1>10, <2>2, SwapKeeps
    <3>2. pc' \in {"end", "overlay"}
      BY <2>2 DEF Return
    <3> QED
      BY <1>7, <3>1, <3>2
  <2>3. CASE LinkFails(image, <<q, r>>, Branches)
    <3>1. Undoable' /\ Nodes(image') = N /\ pc' = "rollback"
      BY <1>1, <1>3, <1>4, <1>5, <1>10, <2>3, SwapFails
    <3> QED
      BY <1>6, <1>7, <3>1
  <2> QED
    BY <2>1, <2>2, <2>3
<1>11. \/ image' = Refuse(image, Branches) /\ pc' = "rollback" /\ stack' = <<>> /\ prims' = prims
       \/ /\ image.dentries[b].dir /\ image.dentries[e].dir
          /\ pc' = "overlay" /\ image' = image /\ prims' = prims /\ stack' = stack
       \/ /\ ~image.dentries[b].dir /\ ~image.dentries[e].dir
          /\ LinkOr(image, <<q, r>>, Branches, Return)
  BY <1>5 DEF Conflict
<1> QED
  BY <1>8, <1>9, <1>10, <1>11

-----------------------------------------------------------------------------
(* The theorems.                                                           *)

LEMMA NextKeeps ==
    ASSUME IInv, [Next]_vars
    PROVE  IInv'
<1>1. CASE BeginCommand
  BY <1>1, BeginCommandKeeps
<1>2. CASE EndCommand
  BY <1>2, EndCommandKeeps
<1>3. CASE DeletePath
  BY <1>3, DeletePathKeeps
<1>4. CASE RenamePath
  BY <1>4, RenamePathKeeps
<1>5. CASE Scan
  BY <1>5, ScanKeeps
<1>6. CASE MakeFiller
  BY <1>6, MakeFillerKeeps
<1>7. CASE Attach
  BY <1>7, AttachKeeps
<1>8. CASE Conflict
  BY <1>8, ConflictKeeps
<1>9. CASE OverlayChild
  BY <1>9, OverlayChildKeeps
<1>10. CASE OverlayDone
  BY <1>10, OverlayDoneKeeps
<1>11. CASE Commit
  BY <1>11, CommitKeeps
<1>12. CASE RollbackOne
  BY <1>12, RollbackOneKeeps
<1>13. CASE RollbackDone
  BY <1>13, CommitKeeps
<1>14. CASE UNCHANGED vars
  <2>1. CommandsOK'
    BY <1>14 DEF IInv, CommandsOK, vars, cmd, cur
  <2>2. ASSUME Undoable PROVE Undoable'
    <3>1. PICK s, R, N, P : UndoableWith(s, R, N, P)
      BY <2>2 DEF Undoable
    <3>2. StackOK(N, P)'
      BY <1>14, <3>1 DEF UndoableWith, StackOK, vars, top, cur
    <3>3. UndoableWith(s, R, N, P)'
      BY <1>14, <3>1, <3>2 DEF UndoableWith, vars, cur, BranchRoots, Branch
    <3> QED
      BY <3>3 DEF Undoable
  <2>3. ASSUME IdsOK PROVE IdsOK'
    BY <1>14, <2>3 DEF IdsOK, vars, cur
  <2>4. ASSUME AttachOK PROVE AttachOK'
    BY <1>14, <2>4 DEF AttachOK, vars, cmd, cur, Branch
  <2>5. ASSUME Settled PROVE Settled'
    BY <1>14, <2>5 DEF Settled, vars
  <2>6. pc' = pc
    BY <1>14 DEF vars
  <2> QED
    BY <2>1, <2>2, <2>3, <2>4, <2>5, <2>6 DEF IInv
<1> QED
  BY <1>1, <1>2, <1>3, <1>4, <1>5, <1>6, <1>7, <1>8, <1>9, <1>10, <1>11, <1>12, <1>13, <1>14
  DEF Next

(* What the invariant says of the dentries, in the words of the properties. *)
Held ==
    /\ Forest(image.dentries)
    /\ image.root \in DOMAIN image.dentries \cup {None}
    /\ image.orphans \subseteq DOMAIN image.dentries /\ image.root \notin image.orphans
    /\ Roots(image.dentries) = ({image.root} \ {None}) \cup image.orphans \cup BranchRoots

LEMMA UndoableIsHeld ==
    ASSUME NEW s, NEW R, NEW N, NEW P, UndoableWith(s, R, N, P)
    PROVE  Held
<1>1. PICK d : d = image.dentries
  OBVIOUS
<1>2. Fits(s, N) /\ Forest(P) /\ N \cap DOMAIN P = {} /\ image = With(s, P)
  BY DEF UndoableWith, Safe, BranchOK
<1>3. Forest(d)
  BY <1>1, <1>2, WithIs
<1>4. /\ DOMAIN d = N \cup DOMAIN P /\ image.root = s.root /\ image.orphans = s.orphans
      /\ \A n \in N : d[n] = s.dentries[n]
      /\ \A n \in DOMAIN P : d[n] = P[n]
  BY <1>1, SeenIs DEF Seen, Nodes
<1>5. /\ s.root # None => s.root \in N
      /\ s.orphans \subseteq N /\ s.root \notin s.orphans
      /\ \A n \in N : s.dentries[n].parent = n <=> n = s.root \/ n \in s.orphans
  BY <1>2 DEF Fits
<1>6. Roots(P) = BranchRoots
  BY DEF UndoableWith
<1>7. Roots(d) = ({s.root} \ {None}) \cup s.orphans \cup Roots(P)
  <2>1. ASSUME NEW n \in Roots(d)
        PROVE  n \in ({s.root} \ {None}) \cup s.orphans \cup Roots(P)
    <3>1. n \in DOMAIN d /\ d[n].parent = n /\ n # None
      BY <1>3, <2>1 DEF Roots, Forest
    <3>2. CASE n \in N
      BY <1>4, <1>5, <3>1, <3>2
    <3>3. CASE n \in DOMAIN P
      BY <1>4, <3>1, <3>3 DEF Roots
    <3> QED
      BY <1>4, <3>1, <3>2, <3>3
  <2>2. ASSUME NEW n \in ({s.root} \ {None}) \cup s.orphans
        PROVE  n \in Roots(d)
    BY <1>4, <1>5, <2>2 DEF Roots
  <2>3. ASSUME NEW n \in Roots(P)
        PROVE  n \in Roots(d)
    BY <1>4, <2>3 DEF Roots
  <2> QED
    BY <2>1, <2>2, <2>3
<1> QED
  BY <1>1, <1>3, <1>4, <1>5, <1>6, <1>7 DEF Held

LEMMA SettledIsHeld ==
    ASSUME Settled, pc \in {"ok", "error"}
    PROVE  Held /\ BranchRoots = {} /\ image.orphans = {}
<1>1. PICK d, N : d = image.dentries /\ N = Nodes(image)
  OBVIOUS
<1>2. Fits(image, N) /\ image.orphans = {} /\ stack = <<>>
  BY <1>1 DEF Settled
<1>3. BranchRoots = {}
  BY <1>2 DEF BranchRoots, Adding
<1>4. /\ Forest(d) /\ DOMAIN d = N /\ None \notin DOMAIN d
      /\ image.root # None => image.root \in N
      /\ \A n \in N : d[n].parent = n <=> n = image.root
  BY <1>1, <1>2 DEF Fits, Nodes, Forest
<1>5. Roots(d) = {image.root} \ {None}
  BY <1>4 DEF Roots
<1> QED
  BY <1>1, <1>2, <1>3, <1>4, <1>5 DEF Held

LEMMA InvariantIsHeld ==
    ASSUME IInv
    PROVE  Held
<1>1. CASE pc \in {"ok", "error"}
  BY <1>1, SettledIsHeld DEF IInv
<1>2. CASE pc \notin {"ok", "error"}
  BY <1>2, UndoableIsHeld DEF IInv, Undoable
<1> QED
  BY <1>1, <1>2

LEMMA HeldIsOwned ==
    ASSUME IInv
    PROVE  EveryTreeHasOneOwner
<1>1. Held
  BY InvariantIsHeld
<1>2. Owned = ({image.root} \ {None}) \cup image.orphans \cup BranchRoots
  BY DEF Owned, BranchRoots, Adding
<1>3. {n \in DOMAIN image.dentries : image.dentries[n].parent = n} = Owned
  BY <1>1, <1>2 DEF Held, Roots
<1>4. ASSUME pc \in {"ok", "error"} PROVE Owned \subseteq {image.root}
  BY <1>2, <1>4, SettledIsHeld DEF IInv
<1> QED
  BY <1>1, <1>3, <1>4 DEF EveryTreeHasOneOwner, Held

LEMMA ForestIsTyped ==
    ASSUME NEW d, Forest(d), d = image.dentries, NEW n \in DOMAIN d
    PROVE  /\ d[n].parent \in DOMAIN d
           /\ d[n].parent # n => /\ d[d[n].parent].dir
                                 /\ Named(image, d[n].parent, d[n].name) = {n}
<1>1. d[n].parent \in DOMAIN d
  BY DEF Forest, Dentries
<1>2. ASSUME d[n].parent # n
      PROVE  Named(image, d[n].parent, d[n].name) = {n}
  <2>1. n \in Named(image, d[n].parent, d[n].name)
    BY <1>2 DEF Named, Children
  <2>2. ASSUME NEW m \in Named(image, d[n].parent, d[n].name) PROVE m = n
    <3>1. m \in DOMAIN d /\ m # d[n].parent /\ d[m].parent = d[n].parent /\ d[m].name = d[n].name
      BY <2>2 DEF Named, Children
    <3> QED
      BY <1>2, <3>1 DEF Forest
  <2> QED
    BY <2>1, <2>2
<1>3. ASSUME d[n].parent # n PROVE d[d[n].parent].dir
  BY <1>3 DEF Forest
<1> QED
  BY <1>1, <1>2, <1>3

LEMMA JournalIsTyped ==
    ASSUME NEW s, NEW R, NEW N, NEW P, UndoableWith(s, R, N, P),
           NEW i \in DOMAIN prims, NEW k \in DOMAIN prims[i]
    PROVE  /\ prims[i][k].subject \in DOMAIN image.dentries
           /\ prims[i][k].op \in {"link", "unlink"} =>
                 prims[i][k].parent \in DOMAIN image.dentries \cup {None}
<1>1. prims \in Seq(Seq(Prims(N)))
  <2>1. PICK e \in R : e = <<s, prims>>
    BY DEF UndoableWith
  <2>2. e[2] \in Seq(Seq(Prims(N)))
    BY <2>1 DEF UndoableWith, Safe
  <2> QED
    BY <2>1, <2>2
<1>2. PICK T : T = Prims(N)
  OBVIOUS
<1>3. prims[i] \in Seq(T)
  BY <1>1, <1>2
<1>4. prims[i][k] \in T
  BY <1>3
<1>5. PICK q \in Prims(N) : q = prims[i][k]
  BY <1>2, <1>4
<1>6. N \subseteq DOMAIN image.dentries
  BY SeenIs DEF Seen, Nodes
<1> QED
  BY <1>5, <1>6, PrimIs

LEMMA StackIsTyped ==
    ASSUME NEW s, NEW R, NEW N, NEW P, UndoableWith(s, R, N, P), NEW k \in DOMAIN stack
    PROVE  {stack[k].branch, stack[k].existing} \subseteq DOMAIN image.dentries
<1>1. PICK T : T = [branch : DOMAIN P, existing : N]
  OBVIOUS
<1>2. stack \in Seq(T)
  BY <1>1 DEF UndoableWith, StackOK
<1>3. stack[k] \in T
  BY <1>2
<1>4. DOMAIN image.dentries = N \cup DOMAIN P
  BY SeenIs DEF Seen, Nodes
<1> QED
  BY <1>1, <1>3, <1>4

LEMMA HeldIsTyped ==
    ASSUME IInv
    PROVE  TypeOK
<1>1. Held
  BY InvariantIsHeld
<1>2. ASSUME NEW n \in DOMAIN image.dentries
      PROVE  LET p == image.dentries[n].parent IN
             /\ p \in DOMAIN image.dentries
             /\ p # n => /\ image.dentries[p].dir
                         /\ Named(image, p, image.dentries[n].name) = {n}
  BY <1>1, <1>2, ForestIsTyped DEF Held
<1>3. \A k \in DOMAIN stack :
         {stack[k].branch, stack[k].existing} \subseteq DOMAIN image.dentries
  <2>1. CASE pc \in {"ok", "error"}
    BY <2>1 DEF IInv, Settled
  <2>2. CASE pc \notin {"ok", "error"}
    BY <2>2, StackIsTyped DEF IInv, Undoable
  <2> QED
    BY <2>1, <2>2
<1>4. ASSUME pc \notin {"ok", "error"}, NEW i \in DOMAIN prims, NEW k \in DOMAIN prims[i]
      PROVE  /\ prims[i][k].subject \in DOMAIN image.dentries
             /\ prims[i][k].op \in {"link", "unlink"} =>
                   prims[i][k].parent \in DOMAIN image.dentries \cup {None}
  <2>1. PICK s, R, N, P : UndoableWith(s, R, N, P)
    BY <1>4 DEF IInv, Undoable
  <2> QED
    BY <1>4, <2>1, JournalIsTyped
<1>5. pc \in {"command", "add", "delete", "rename", "attach", "conflict", "overlay", "end",
              "rollback", "ok", "error"}
  BY DEF IInv, CommandsOK
<1> QED
  BY <1>1, <1>2, <1>3, <1>4, <1>5 DEF TypeOK, Held

(* Nothing that the tree, the journal or a call under way points to has    *)
(* been freed, every parent is a directory, and no two children of one     *)
(* directory have one name: whatever the images and the commands are, and  *)
(* wherever a command fails (rollback_update, free_update_command_journal, *)
(* handle_conflict).                                                       *)
THEOREM TypeCorrect == Spec => []TypeOK
<1>1. Init => IInv
  BY InitHolds
<1>2. IInv /\ [Next]_vars => IInv'
  BY NextKeeps
<1>3. IInv => TypeOK
  BY HeldIsTyped
<1> QED
  BY <1>1, <1>2, <1>3, PTL DEF Spec

(* No tree of dentries is leaked or freed twice: each belongs to the       *)
(* image, to the list of orphans or to the add under way, to one of them   *)
(* only, and when the update is over only the image is left.               *)
THEOREM TreesHaveOneOwner == Spec => []EveryTreeHasOneOwner
<1>1. Init => IInv
  BY InitHolds
<1>2. IInv /\ [Next]_vars => IInv'
  BY NextKeeps
<1>3. IInv => EveryTreeHasOneOwner
  BY HeldIsOwned
<1> QED
  BY <1>1, <1>2, <1>3, PTL DEF Spec
=============================================================================
