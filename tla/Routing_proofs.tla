--------------------------- MODULE Routing_proofs ---------------------------
(***************************************************************************)
(* What TLAPS proves about the mux that serves while it is mounted, for    *)
(* every path.  The table of routes is the one that Mount registers; what  *)
(* the argument takes from it is stated in the lemmas about Routes.        *)
(***************************************************************************)
EXTENDS Routing, WellFoundedInduction, TLAPS

(* The inductive invariant.  A route is found by a request that comes      *)
(* after Mount because the tree covers its own nodes: from each there is a *)
(* way down to every node that it is a prefix of.  That holds in the midst *)
(* of a split too, but for the way to the node that is unlinked.           *)

Part == PathParts \cup {"/", "_ah", "_ah/", "debug", "warmup", "health", "stream", "rpc/", "*"}
Words == Seq(Part)
Under(n, k) == IsPrefix(n, k) /\ n # k
R == [i \in DOMAIN Routes |-> Routes[i].pattern]
Branch(n, k) == k[Len(n) + 1]
Starred(n) == n # Root /\ Last(n) = "*"

Unlinked == mountPc \in {"unlinked", "labelled", "shortening"}
Splitting == Unlinked \/ mountPc = "restoring"
Inserting == Splitting \/ mountPc \in {"walk", "add", "adding", "setting"}

\* The nodes that are in the tree, and the one that comes back to it.
Linked == {Root} \cup (UNION {kids[n] : n \in Nodes}) \cup ({split} \ {NoNode})

\* Mount has the handler built before the first route, and writes one thing at a time.
MountConsistent ==
  /\ mountPc = "use" => handler = NoHandler /\ Len(middlewares) < Len(Stack)
  /\ mountPc = "build" => handler = NoHandler
  /\ mountPc = "stored" => handler = Half
  /\ mountPc \notin {"use", "build", "stored"} => handler = Stack
  /\ middlewares = SubSeq(Stack, 1, Len(middlewares))
  /\ mountPc # "use" => middlewares = Stack
  /\ Inserting => done < Len(Routes)
  /\ mountPc = "returned" => done = Len(Routes)
  /\ split # NoNode <=> Splitting
  /\ torn # NoNode => mountPc \in {"restoring", "adding"}
  /\ writing # NoNode => mountPc = "setting" /\ writing = Pattern
  /\ ends = {R[i] : i \in 1 .. done}

\* A child's name has its parent's as a prefix, and a child for "*" adds just that.  No
\* two children begin alike, and what is not in the tree has no children.
Branching ==
  /\ \A n \in Nodes : \A k \in kids[n] : Under(n, k) /\ (Starred(k) => n = Front(k))
  /\ \A n \in Nodes : \A k, m \in kids[n] : Branch(n, k) = Branch(n, m) => k = m
  /\ \A n \in Nodes \ Linked : kids[n] = {}

\* Every node is on the way to a route that is registered or is being so.
OnTheWay ==
  /\ \A n \in Linked \ {Root} :
       \E i \in 1 .. (IF mountPc \in {"adding", "setting"} THEN done + 1 ELSE done) :
          IsPrefix(n, R[i])
  /\ \A i \in 1 .. done : R[i] \in Linked
  /\ mountPc \in {"adding", "setting"} => Pattern \in Linked

\* From a node there is a way down to each that it is a prefix of.
Covers ==
  \A n, m \in Linked :
    Under(n, m) => \/ \E k \in kids[n] : IsPrefix(k, m)
                   \/ Unlinked /\ n = spot /\ IsPrefix(split, m)

\* Where InsertRoute is, and what it has found there.  Only nodes below /_ah/ are split.
Inserts ==
  /\ mountPc = "walk" \/ Splitting \/ mountPc = "add" =>
       spot \in Linked /\ IsPrefix(spot, Pattern)
  /\ Splitting => Under(spot, split) /\ ~Starred(split) /\ IsPrefix(<<"/", "_ah/">>, split)
  /\ mountPc = "unlinked" =>
       /\ Len(Common(split)) > Len(spot)
       /\ Common(split) # split
       /\ \A m \in kids[spot] : Branch(spot, m) # Branch(spot, split)
  /\ mountPc \in {"labelled", "shortening", "restoring"} => Len(Common(split)) <= Len(spot)
  /\ mountPc \in {"labelled", "shortening"} => kids[spot] = {}
  /\ mountPc = "restoring" => kids[spot] = {split}
  /\ mountPc = "add" => Edges = {}

\* The request is where its path has led it, or, if Mount was not done, below /_ah/.
OnPath ==
  IF Starred(at) THEN rest = <<>> /\ IsPrefix(Front(at), path)
  ELSE IsPrefix(at, path) /\ rest = SubSeq(path, Len(at) + 1, Len(path))

Astray == ~late /\ IsPrefix(<<"/", "_ah/">>, at)

Requested ==
  /\ muxPc = None => ~late
  /\ muxPc # None => path \in Paths
  /\ muxPc \in {None, "arrived"} => at = Root
  /\ muxPc = "arrived" => rest = path
  /\ muxPc # "answered" => answer = None
  /\ muxPc \in {"lookup", "edge"} => chain = Stack /\ (OnPath \/ Astray)
  /\ muxPc = "edge" =>
       /\ edge \in Nodes
       /\ Under(at, edge)
       /\ IF Starred(edge) THEN at = Front(edge) ELSE rest # <<>> /\ Branch(at, edge) = Head(rest)
  /\ late =>
       /\ mountPc = "returned"
       /\ ~killed
       /\ muxPc = "lookup" => at \in Linked
       /\ muxPc = "edge" => edge \in kids[at]

TInv == RoutingTypeOK /\ MountConsistent
TreeInv == Branching /\ OnTheWay /\ Covers /\ Inserts
RequestInv == Requested /\ RoutedOnceMounted /\ NeverAnotherRoute
IInv == TInv /\ TreeInv /\ RequestInv
-----------------------------------------------------------------------------
(* Sequences of parts.                                                     *)

\* One sequence is a prefix of another if it is no longer and has the same parts.
LEMMA PrefixParts ==
  ASSUME NEW s \in Words, NEW t \in Words
  PROVE  IsPrefix(s, t) <=> Len(s) <= Len(t) /\ \A i \in 1 .. Len(s) : s[i] = t[i]
<1> DEFINE u == SubSeq(t, 1, Len(s))
<1>1. Len(s) \in Nat /\ Len(t) \in Nat
  BY DEF Words
<1>2. SubSeq(s, 1, Len(s)) = s
  BY DEF Words
<1>3. ASSUME Len(s) <= Len(t)
      PROVE  u = s <=> \A i \in 1 .. Len(s) : s[i] = t[i]
  <2>1. u \in Seq(Part) /\ Len(u) = Len(s) /\ \A i \in 1 .. Len(s) : u[i] = t[i]
    BY <1>1, <1>3 DEF Words
  <2>2. ASSUME \A i \in 1 .. Len(s) : s[i] = t[i] PROVE u = s
    BY <1>1, <2>1, <2>2 DEF Words
  <2> QED
    BY <2>1, <2>2
<1> QED
  BY <1>2, <1>3 DEF IsPrefix

LEMMA Length == \A s \in Words : Len(s) \in Nat
BY DEF Words

\* Two sequences of one length are equal if their parts are.
LEMMA SameParts ==
  ASSUME NEW s \in Words, NEW t \in Words, Len(s) = Len(t), \A i \in 1 .. Len(s) : s[i] = t[i]
  PROVE  s = t
BY DEF Words

\* The prefixes of a sequence are ordered by length.
LEMMA PrefixOrder ==
  ASSUME NEW s \in Words, NEW t \in Words, NEW u \in Words
  PROVE  /\ IsPrefix(s, s)
         /\ IsPrefix(Root, s)
         /\ IsPrefix(s, t) => Len(s) <= Len(t)
         /\ IsPrefix(s, t) /\ IsPrefix(t, u) => IsPrefix(s, u)
         /\ IsPrefix(s, t) /\ Len(s) = Len(t) => s = t
         /\ IsPrefix(s, t) /\ IsPrefix(t, s) => s = t
         /\ IsPrefix(s, u) /\ IsPrefix(t, u) /\ Len(s) <= Len(t) => IsPrefix(s, t)
<1>1. Len(s) \in Nat /\ Len(t) \in Nat /\ Len(u) \in Nat
  BY DEF Words
<1>2. Root \in Words /\ Len(Root) = 0
  BY DEF Words, Root
<1> QED
  BY <1>1, <1>2, PrefixParts, SameParts

\* The first parts of a sequence ...
LEMMA Beginning ==
  ASSUME NEW s \in Words, NEW n \in 0 .. Len(s)
  PROVE  /\ SubSeq(s, 1, n) \in Words /\ Len(SubSeq(s, 1, n)) = n
         /\ \A i \in 1 .. n : SubSeq(s, 1, n)[i] = s[i]
BY DEF Words

\* ... and all but the last.
LEMMA FrontParts ==
  ASSUME NEW s \in Words, s # Root
  PROVE  /\ Front(s) \in Words /\ Len(s) >= 1 /\ Len(Front(s)) = Len(s) - 1
         /\ \A i \in 1 .. Len(s) - 1 : Front(s)[i] = s[i]
         /\ Under(Front(s), s)
         /\ \A n \in Words : Under(n, s) => IsPrefix(n, Front(s))
<1>1. Len(s) \in Nat /\ Len(s) >= 1
  BY DEF Words, Root
<1>2. /\ Front(s) \in Words /\ Len(Front(s)) = Len(s) - 1
      /\ \A i \in 1 .. Len(s) - 1 : Front(s)[i] = s[i]
  <2>1. Len(s) - 1 \in 0 .. Len(s)
    BY <1>1
  <2> QED
    BY <2>1, Beginning DEF Front
<1>3. Under(Front(s), s)
  BY <1>1, <1>2, PrefixParts DEF Under
<1>4. ASSUME NEW n \in Words, Under(n, s) PROVE IsPrefix(n, Front(s))
  <2>1. Len(n) \in Nat /\ Len(n) <= Len(s) /\ Len(n) # Len(s)
    BY <1>1, <1>4, PrefixOrder DEF Words, Under
  <2> QED
    BY <1>1, <1>2, <1>3, <1>4, <2>1, PrefixOrder DEF Under
<1> QED
  BY <1>1, <1>2, <1>3, <1>4

\* A sequence below a node has a part there, the same as all that it is a prefix of.
LEMMA SameBranch ==
  ASSUME NEW n \in Words, NEW k \in Words, NEW m \in Words, Under(n, k), IsPrefix(k, m)
  PROVE  Under(n, m) /\ Branch(n, k) = Branch(n, m) /\ Len(n) < Len(k)
<1>1. Len(n) \in Nat /\ Len(k) \in Nat /\ Len(n) < Len(k)
  BY PrefixOrder DEF Words, Under
<1>2. IsPrefix(n, m) /\ n # m
  BY <1>1, PrefixOrder DEF Under, Words
<1>3. k[Len(n) + 1] = m[Len(n) + 1]
  BY <1>1, PrefixParts
<1> QED
  BY <1>1, <1>2, <1>3 DEF Under, Branch

\* A set of numbers has a least one.
LEMMA Least ==
  ASSUME NEW D \in SUBSET Nat, D # {}
  PROVE  \E d \in D : \A e \in D : d <= e
<1> DEFINE L == {s \in Nat \X Nat : s[1] < s[2]}
<1>1. IsWellFoundedOn(L, Nat)
  BY NatLessThanWellFounded DEF OpToRel
<1> HIDE DEF L
<1>2. PICK d \in D : \A e \in D : <<e, d>> \notin L
  BY <1>1, WFMin
<1>3. ASSUME NEW e \in D PROVE d <= e
  <2>1. e \in Nat /\ d \in Nat /\ <<e, d>> \notin L
    BY <1>2
  <2> QED
    BY <2>1 DEF L
<1> QED
  BY <1>3

\* Two sequences have a longest common prefix, below which their branches differ.
LEMMA CommonPrefix ==
  ASSUME NEW k \in Words, NEW m \in Words
  PROVE  LET c == LongestCommonPrefix({k, m})
         IN  /\ c \in Words /\ IsPrefix(c, k) /\ IsPrefix(c, m)
             /\ \A x \in Words : IsPrefix(x, k) /\ IsPrefix(x, m) => IsPrefix(x, c)
             /\ \A n \in Words : Under(n, k) /\ Under(n, m) =>
                  (Len(c) > Len(n) <=> Branch(n, k) = Branch(n, m))
<1> DEFINE D == {n \in Nat : n = Len(k) \/ n = Len(m) \/ k[n + 1] # m[n + 1]}
           P == CommonPrefixes({k, m})
           c == LongestCommonPrefix({k, m})
<1>1. Len(k) \in Nat /\ Len(m) \in Nat
  BY DEF Words
<1>2. PICK d \in D : \A e \in D : d <= e
  <2>1. D \subseteq Nat /\ Len(k) \in D
    BY <1>1
  <2> QED
    BY <2>1, Least
<1>3. d \in Nat /\ d <= Len(k) /\ d <= Len(m)
  BY <1>1, <1>2
<1>4. \A i \in 1 .. d : k[i] = m[i]
  <2> SUFFICES ASSUME NEW i \in 1 .. d PROVE k[i] = m[i]
    OBVIOUS
  <2>1. i - 1 \in Nat /\ i - 1 < d /\ (i - 1) + 1 = i
    BY <1>3
  <2>2. i - 1 \notin D
    <3>1. \A e \in D : d <= e
      BY <1>2
    <3> HIDE DEF D
    <3> QED
      BY <1>3, <2>1, <3>1
  <2> QED
    BY <2>1, <2>2
<1> HIDE DEF D
<1> DEFINE b == SubSeq(k, 1, d)
<1>5. b \in Words /\ Len(b) = d /\ \A i \in 1 .. d : b[i] = k[i]
  BY <1>1, <1>3, Beginning
<1>6. ASSUME NEW x \in Words, IsPrefix(x, k), IsPrefix(x, m) PROVE Len(x) <= d
  <2>1. Len(x) \in Nat /\ Len(x) <= Len(k) /\ Len(x) <= Len(m)
    BY <1>6, PrefixOrder DEF Words
  <2>2. \A i \in 1 .. Len(x) : k[i] = m[i]
    BY <1>6, PrefixParts
  <2>3. d = Len(k) \/ d = Len(m) \/ k[d + 1] # m[d + 1]
    BY <1>2 DEF D
  <2>4. ~(d < Len(x))
    BY <1>3, <2>1, <2>2, <2>3
  <2> QED
    BY <1>3, <2>1, <2>4
<1>7. ASSUME NEW x PROVE x \in P <=> x \in Words /\ IsPrefix(x, k) /\ IsPrefix(x, m)
  <2>1. x \in P <=> x \in Prefixes(k) \cup Prefixes(m) /\ IsPrefix(x, k) /\ IsPrefix(x, m)
    BY DEF CommonPrefixes
  <2>2. x \in Prefixes(k) \cup Prefixes(m) => x \in Words
    BY <1>1, Beginning DEF Prefixes
  <2>3. ASSUME x \in Words, IsPrefix(x, k) PROVE x \in Prefixes(k)
    <3>1. Len(x) \in 0 .. Len(k)
      BY <1>1, <2>3, PrefixOrder DEF Words
    <3>2. x = SubSeq(k, 1, Len(x))
      BY <2>3 DEF IsPrefix, Words
    <3> QED
      BY <3>1, <3>2 DEF Prefixes
  <2> QED
    BY <2>1, <2>2, <2>3
<1> HIDE DEF P, b
<1>8. b \in P
  BY <1>1, <1>3, <1>4, <1>5, <1>7, PrefixParts
<1>9. c \in P /\ \A x \in P : Len(x) <= Len(c)
  <2>1. \A x \in P : Len(x) <= Len(b)
    BY <1>5, <1>6, <1>7
  <2>2. c = CHOOSE y \in P : \A x \in P : Len(x) <= Len(y)
    BY DEF LongestCommonPrefix, P
  <2> QED
    BY <1>8, <2>1, <2>2
<1> HIDE DEF c
<1>10. c \in Words /\ IsPrefix(c, k) /\ IsPrefix(c, m)
  BY <1>7, <1>9
<1>11. ASSUME NEW x \in Words, IsPrefix(x, k), IsPrefix(x, m) PROVE IsPrefix(x, c)
  BY <1>7, <1>9, <1>10, <1>11, PrefixOrder
<1>12. ASSUME NEW n \in Words, Under(n, k), Under(n, m)
       PROVE  Len(c) > Len(n) <=> Branch(n, k) = Branch(n, m)
  <2>1. Len(n) \in Nat /\ Len(c) \in Nat /\ IsPrefix(n, k) /\ IsPrefix(n, m) /\ IsPrefix(n, c)
    BY <1>10, <1>11, <1>12 DEF Under, Words
  <2>2. ASSUME Len(c) > Len(n) PROVE Branch(n, k) = Branch(n, m)
    <3>1. n # c
      BY <2>1, <2>2
    <3> QED
      BY <1>10, <2>1, <3>1, SameBranch DEF Under
  <2>3. ASSUME Branch(n, k) = Branch(n, m), ~(Len(c) > Len(n)) PROVE FALSE
    <3> DEFINE e == Len(n) + 1
    <3>1. n = c
      BY <1>10, <2>1, <2>3, PrefixOrder
    <3>2. Len(n) < Len(k) /\ Len(n) < Len(m)
      BY <1>1, <1>12, <2>1, PrefixOrder DEF Under
    <3>3. e \in 0 .. Len(k) /\ e \in 1 .. Len(k) /\ e <= Len(m)
      BY <1>1, <2>1, <3>2
    <3>4. k[e] = m[e]
      BY <2>3 DEF Branch
    <3>5. \A i \in 1 .. Len(n) : k[i] = m[i]
      BY <2>1, PrefixParts
    <3> DEFINE y == SubSeq(k, 1, e)
    <3>6. y \in Words /\ Len(y) = e /\ \A i \in 1 .. e : y[i] = k[i]
      BY <3>3, Beginning
    <3> HIDE DEF y
    <3>7. \A i \in 1 .. e : k[i] = m[i]
      BY <2>1, <3>4, <3>5
    <3>8. IsPrefix(y, k) /\ IsPrefix(y, m)
      BY <1>1, <3>3, <3>6, <3>7, PrefixParts
    <3>9. Len(y) <= Len(c)
      BY <1>7, <1>9, <3>6, <3>8
    <3> QED
      BY <2>1, <3>1, <3>6, <3>9
  <2> QED
    BY <2>2, <2>3
<1> QED
  BY <1>10, <1>11, <1>12 DEF c

-----------------------------------------------------------------------------
(* The table of routes.                                                    *)

\* The patterns, part by part.
LEMMA Table ==
  /\ Len(Routes) = 7 /\ DOMAIN Routes = 1 .. 7
  /\ R[1] = <<"/", "_ah/", "debug">>
  /\ R[2] = <<"/", "_ah/", "debug", "/">>
  /\ R[3] = <<"/", "_ah/", "debug", "/", "*">>
  /\ R[4] = <<"/", "_ah/", "warmup">>
  /\ R[5] = <<"/", "_ah/", "health">>
  /\ R[6] = <<"/", "stream">>
  /\ R[7] = <<"/", "rpc/", "*">>
BY DEF Routes, Route, R

LEMMA RouteWords == \A i \in 1 .. 7 : R[i] \in Words /\ Len(R[i]) \in Nat
<1>1. {"/", "_ah/", "debug", "warmup", "health", "stream", "rpc/", "*"} \subseteq Part
  BY DEF Part
<1>2. ASSUME NEW S, {"/", "_ah/", "debug", "warmup", "health", "stream", "rpc/", "*"} \subseteq S
      PROVE  /\ R[1] \in Seq(S) /\ R[2] \in Seq(S) /\ R[3] \in Seq(S) /\ R[4] \in Seq(S)
             /\ R[5] \in Seq(S) /\ R[6] \in Seq(S) /\ R[7] \in Seq(S)
  BY <1>2, Table
<1>3. \A i \in 1 .. 7 : i = 1 \/ i = 2 \/ i = 3 \/ i = 4 \/ i = 5 \/ i = 6 \/ i = 7
  OBVIOUS
<1>4. ASSUME NEW i \in 1 .. 7 PROVE R[i] \in Seq(Part)
  BY <1>1, <1>2, <1>3
<1>5. ASSUME NEW i \in 1 .. 7 PROVE Len(R[i]) \in Nat
  BY <1>4
<1> QED
  BY <1>4, <1>5 DEF Words

LEMMA Lengths ==
  /\ Len(R[1]) = 3 /\ Len(R[2]) = 4 /\ Len(R[3]) = 5
  /\ Len(R[4]) = 3 /\ Len(R[5]) = 3 /\ Len(R[6]) = 2 /\ Len(R[7]) = 3
BY Table

LEMMA PartsOfRoutes ==
  /\ \A i \in 1 .. 7 : R[i][1] = "/"
  /\ \A i \in 1 .. 5 : R[i][2] = "_ah/"
  /\ \A i \in 1 .. 3 : R[i][3] = "debug"
  /\ R[2][4] = "/" /\ R[3][4] = "/" /\ R[3][5] = "*"
  /\ R[4][3] = "warmup" /\ R[5][3] = "health"
  /\ R[6][2] = "stream"
  /\ R[7][2] = "rpc/" /\ R[7][3] = "*"
BY Table

\* No route is a prefix of one that is registered before it, or is registered twice.
LEMMA NoneBefore ==
  ASSUME NEW i \in 1 .. 7, NEW j \in 1 .. 7, i < j
  PROVE  ~IsPrefix(R[j], R[i])
<1> SUFFICES ASSUME IsPrefix(R[j], R[i]) PROVE FALSE
  OBVIOUS
<1>1. R[i] \in Words /\ R[j] \in Words /\ Len(R[i]) \in Nat /\ Len(R[j]) \in Nat
  BY RouteWords
<1>2. Len(R[j]) <= Len(R[i]) /\ \A n \in 1 .. Len(R[j]) : R[j][n] = R[i][n]
  BY <1>1, PrefixParts
<1>3. CASE j = 2 \/ j = 3 \/ j = 7
  <2>1. CASE j = 2 \/ j = 3
    <3>1. CASE i = 1 /\ j = 2
      BY <1>2, <3>1, Lengths
    <3>2. CASE i = 1 /\ j = 3
      BY <1>2, <3>2, Lengths
    <3>3. CASE i = 2 /\ j = 3
      BY <1>2, <3>3, Lengths
    <3> QED
      BY <2>1, <3>1, <3>2, <3>3
  <2>2. CASE j = 7
    <3>1. R[j][2] = R[i][2]
      BY <1>2, <2>2, Lengths
    <3> QED
      BY <2>2, <3>1, PartsOfRoutes
  <2> QED
    BY <1>3, <2>1, <2>2
<1>4. CASE j = 4 \/ j = 5
  <2>1. \A m \in 1 .. 7 : m < j => R[m][3] # R[j][3]
    BY <1>4, PartsOfRoutes
  <2> QED
    BY <1>2, <1>4, <2>1, Lengths
<1>5. CASE j = 6
  BY <1>2, <1>5, Lengths, PartsOfRoutes
<1> QED
  BY <1>3, <1>4, <1>5

\* "*" ends a pattern, and no other route goes on where it stands.
LEMMA Stars ==
  /\ \A i \in 1 .. 7 : \A n \in 1 .. Len(R[i]) :
       R[i][n] = "*" => n = Len(R[i])
  /\ \A i \in 1 .. 7 : Starred(R[i]) <=> i \in {3, 7}
  /\ \A i \in {3, 7}, j \in 1 .. 7 :
       Under(Front(R[i]), R[j]) => j = i
<1>1. \A i \in 1 .. 7 : i = 1 \/ i = 2 \/ i = 3 \/ i = 4 \/ i = 5 \/ i = 6 \/ i = 7
  OBVIOUS
<1>2. ASSUME NEW i \in 1 .. 7 PROVE R[i] # Root /\ Len(R[i]) \in 2 .. 5
  <2>1. Len(R[i]) \in 2 .. 5
    BY Lengths
  <2>2. Len(Root) = 0
    BY DEF Root
  <2> QED
    BY <2>1, <2>2
<1>3. ASSUME NEW i \in 1 .. 7, NEW n \in 1 .. Len(R[i]), R[i][n] = "*" PROVE n = Len(R[i])
  <2>0. Len(R[i]) = 2 \/ Len(R[i]) = 3 \/ Len(R[i]) = 4 \/ Len(R[i]) = 5
    BY <1>2
  <2>1. n \in 1 .. 5
    <3>1. \A l : (l = 2 \/ l = 3 \/ l = 4 \/ l = 5) /\ n \in 1 .. l => n \in 1 .. 5
      OBVIOUS
    <3> QED
      BY <2>0, <3>1, Zenon
  <2>2. CASE n = 1
    BY <1>3, <2>2, PartsOfRoutes
  <2>3. CASE n = 2
    BY <1>1, <1>3, <2>3, PartsOfRoutes
  <2>4. CASE n = 3
    BY <1>1, <1>3, <2>4, Lengths, PartsOfRoutes
  <2>5. CASE n = 4
    BY <1>1, <1>3, <2>5, Lengths, PartsOfRoutes
  <2>6. CASE n = 5
    BY <1>1, <1>3, <2>6, Lengths, PartsOfRoutes
  <2> QED
    BY <2>1, <2>2, <2>3, <2>4, <2>5, <2>6
<1>4. ASSUME NEW i \in 1 .. 7 PROVE Starred(R[i]) <=> i \in {3, 7}
  BY <1>1, <1>2, Lengths, PartsOfRoutes DEF Starred, Last
<1>5. ASSUME NEW i \in {3, 7}, NEW j \in 1 .. 7, Under(Front(R[i]), R[j]) PROVE j = i
  <2> DEFINE f == Front(R[i])
  <2>1. f \in Words /\ Len(f) = Len(R[i]) - 1 /\ \A n \in 1 .. Len(R[i]) - 1 : f[n] = R[i][n]
    <3>1. R[i] \in Words /\ R[i] # Root
      BY <1>2, RouteWords
    <3> QED
      BY <3>1, FrontParts
  <2> HIDE DEF f
  <2>2. Len(f) < Len(R[j]) /\ \A n \in 1 .. Len(f) : f[n] = R[j][n]
    <3>1. R[j] \in Words /\ IsPrefix(f, R[j]) /\ f # R[j]
      BY <1>5, RouteWords DEF Under, f
    <3> QED
      BY <2>1, <3>1, PrefixParts, PrefixOrder DEF Words
  <2>3. CASE i = 3
    <3>1. Len(R[j]) > 4
      BY <2>1, <2>2, <2>3, Lengths
    <3>2. j = 3 \/ Len(R[j]) = 2 \/ Len(R[j]) = 3 \/ Len(R[j]) = 4
      BY <1>1, Lengths
    <3>3. \A l : l > 4 => l # 2 /\ l # 3 /\ l # 4
      OBVIOUS
    <3> QED
      BY <2>3, <3>1, <3>2, <3>3, Zenon
  <2>4. CASE i = 7
    <3>1. R[j][2] = "rpc/"
      BY <2>1, <2>2, <2>4, Lengths, PartsOfRoutes
    <3> QED
      BY <1>1, <2>4, <3>1, PartsOfRoutes
  <2> QED
    BY <2>3, <2>4
<1> QED
  BY <1>3, <1>4, <1>5

\* A node is what some pattern begins with.
LEMMA NodesAreBeginnings ==
  /\ Nodes \subseteq Words /\ Root \in Nodes /\ Root \in Words
  /\ \A n \in Nodes : \E i \in 1 .. 7 : IsPrefix(n, R[i])
  /\ \A n \in Words, i \in 1 .. 7 : IsPrefix(n, R[i]) => n \in Nodes
  /\ \A n \in Words, m \in Nodes : IsPrefix(n, m) => n \in Nodes
  /\ \A i \in 1 .. 7 : R[i] \in Nodes /\ R[i] # Root
<1>1. ASSUME NEW n
      PROVE  n \in Nodes <=> \E i \in 1 .. 7 : \E l \in 0 .. Len(R[i]) : n = SubSeq(R[i], 1, l)
  BY Table DEF Nodes, R
<1>2. ASSUME NEW i \in 1 .. 7, NEW l \in 0 .. Len(R[i])
      PROVE  SubSeq(R[i], 1, l) \in Words /\ IsPrefix(SubSeq(R[i], 1, l), R[i])
  <2> DEFINE n == SubSeq(R[i], 1, l)
  <2>1. R[i] \in Words /\ Len(R[i]) \in Nat
    BY RouteWords
  <2>2. n \in Words /\ Len(n) = l /\ \A k \in 1 .. l : n[k] = R[i][k]
    BY <2>1, Beginning
  <2> HIDE DEF n
  <2>3. Len(n) <= Len(R[i])
    BY <2>1, <2>2
  <2>4. IsPrefix(n, R[i])
    BY <2>1, <2>2, <2>3, PrefixParts
  <2> QED
    BY <2>2, <2>4 DEF n
<1>3. ASSUME NEW n \in Nodes PROVE n \in Words /\ \E i \in 1 .. 7 : IsPrefix(n, R[i])
  <2>1. PICK i \in 1 .. 7 : \E l \in 0 .. Len(R[i]) : n = SubSeq(R[i], 1, l)
    BY <1>1
  <2>2. PICK l \in 0 .. Len(R[i]) : n = SubSeq(R[i], 1, l)
    BY <2>1
  <2> QED
    BY <1>2, <2>2, Zenon
<1>4. ASSUME NEW n \in Words, NEW i \in 1 .. 7, IsPrefix(n, R[i]) PROVE n \in Nodes
  <2>1. n = SubSeq(R[i], 1, Len(n)) /\ Len(n) \in 0 .. Len(R[i])
    BY <1>4, RouteWords, PrefixOrder DEF IsPrefix, Words
  <2> QED
    BY <1>1, <2>1
<1>5. ASSUME NEW n \in Words, NEW m \in Nodes, IsPrefix(n, m) PROVE n \in Nodes
  <2>1. PICK i \in 1 .. 7 : IsPrefix(m, R[i])
    BY <1>3
  <2>2. IsPrefix(n, R[i])
    BY <1>3, <1>5, <2>1, RouteWords, PrefixOrder
  <2> QED
    BY <1>4, <2>2
<1>6. ASSUME NEW i \in 1 .. 7 PROVE IsPrefix(R[i], R[i]) /\ IsPrefix(Root, R[i]) /\ R[i] # Root
  <2>1. Len(R[i]) \in 2 .. 5
    BY Lengths
  <2>2. Len(Root) = 0
    BY DEF Root
  <2>3. R[i] # Root
    BY <2>1, <2>2
  <2> QED
    BY <2>3, RouteWords, PrefixOrder
<1>7. Root \in Words
  BY DEF Root, Words
<1> QED
  <2>1. Nodes \subseteq Words /\ \A n \in Nodes : \E i \in 1 .. 7 : IsPrefix(n, R[i])
    BY <1>3
  <2>2. \A i \in 1 .. 7 : R[i] \in Nodes /\ R[i] # Root
    BY <1>4, <1>6, RouteWords
  <2>3. Root \in Nodes
    BY <1>4, <1>6, <1>7
  <2> QED
    BY <1>4, <1>5, <1>7, <2>1, <2>2, <2>3

\* What stands for no node is none.
LEMMA NoNodeIsNone ==
  ASSUME PathsAssumption
  PROVE  NoNode \notin Nodes /\ NoNode # Root /\ (\A r \in Words : ~IsPrefix(NoNode, r))
<1>1. "none" \notin Part
  BY DEF PathsAssumption, Part
<1>2. NoNode[1] = "none" /\ Len(NoNode) = 1
  BY DEF NoNode
<1>3. NoNode \notin Words
  BY <1>1, <1>2 DEF Words
<1>4. ASSUME NEW r \in Words, IsPrefix(NoNode, r) PROVE FALSE
  <2>1. Len(NoNode) <= Len(r) /\ SubSeq(NoNode, 1, 1) = SubSeq(r, 1, 1)
    BY <1>2, <1>4 DEF IsPrefix
  <2>2. SubSeq(NoNode, 1, 1)[1] = "none"
    BY <1>2 DEF NoNode
  <2>3. Len(r) \in Nat /\ 1 <= Len(r)
    BY <1>2, <2>1 DEF Words
  <2>4. SubSeq(r, 1, 1)[1] = r[1] /\ r[1] \in Part
    BY <2>3 DEF Words
  <2> QED
    BY <1>1, <2>1, <2>2, <2>4
<1> QED
  BY <1>3, <1>4, NodesAreBeginnings

\* A node for "*" is a whole pattern, and what its parent is a prefix of is that node.
LEMMA StarNodes ==
  /\ \A n \in Nodes : Starred(n) => \E i \in {3, 7} : n = R[i]
  /\ \A n, m \in Nodes : Under(n, m) => ~Starred(n)
  /\ \A n, m \in Nodes : Starred(n) /\ Under(Front(n), m) => m = n
  /\ \A n \in Nodes : Starred(n) => Append(Front(n), "*") = n
<1>1. ASSUME NEW n \in Nodes, NEW i \in 1 .. 7, IsPrefix(n, R[i]), Starred(n)
      PROVE  n = R[i] /\ i \in {3, 7}
  <2>1. n \in Words /\ n # Root /\ Len(n) \in Nat /\ Len(n) >= 1 /\ R[i] \in Words
    BY <1>1, NodesAreBeginnings, FrontParts, RouteWords, Length DEF Starred
  <2>2. Len(n) <= Len(R[i]) /\ R[i][Len(n)] = "*"
    BY <1>1, <2>1, PrefixParts DEF Starred, Last
  <2>3. Len(n) \in 1 .. Len(R[i])
    BY <2>1, <2>2, RouteWords
  <2>4. Len(n) = Len(R[i])
    BY <2>2, <2>3, Stars
  <2>5. n = R[i]
    BY <1>1, <2>1, <2>4, PrefixOrder
  <2> QED
    BY <1>1, <2>5, Stars
<1>2. ASSUME NEW n \in Nodes, NEW m \in Nodes, Under(n, m), Starred(n) PROVE FALSE
  <2>1. PICK i \in 1 .. 7 : IsPrefix(m, R[i])
    BY NodesAreBeginnings
  <2>2. n \in Words /\ m \in Words /\ R[i] \in Words /\ IsPrefix(n, m) /\ n # m
    BY <1>2, NodesAreBeginnings, RouteWords DEF Under
  <2>3. n = R[i]
    BY <1>1, <1>2, <2>1, <2>2, PrefixOrder
  <2> QED
    BY <2>1, <2>2, <2>3, PrefixOrder
<1>3. ASSUME NEW n \in Nodes, NEW m \in Nodes, Starred(n), Under(Front(n), m) PROVE m = n
  <2>1. PICK i \in 1 .. 7 : IsPrefix(n, R[i])
    BY NodesAreBeginnings
  <2>2. n = R[i] /\ i \in {3, 7}
    BY <1>1, <1>3, <2>1
  <2>3. PICK j \in 1 .. 7 : IsPrefix(m, R[j])
    BY NodesAreBeginnings
  <2>4. n \in Words /\ m \in Words /\ R[j] \in Words /\ Front(n) \in Words
    BY <1>3, NodesAreBeginnings, RouteWords, FrontParts DEF Starred
  <2>5. Under(Front(n), R[j])
    BY <1>3, <2>3, <2>4, SameBranch
  <2>6. j = i
    BY <2>2, <2>5, Stars
  <2>7. IsPrefix(m, n)
    BY <2>2, <2>3, <2>6
  <2>8. m # n => IsPrefix(m, Front(n))
    BY <1>3, <2>4, <2>7, FrontParts DEF Starred, Under
  <2> QED
    BY <1>3, <2>4, <2>8, PrefixOrder DEF Under
<1>4. ASSUME NEW n \in Nodes, Starred(n) PROVE Append(Front(n), "*") = n
  <2>1. n \in Words /\ n # Root /\ n[Len(n)] = "*"
    BY <1>4, NodesAreBeginnings DEF Starred, Last
  <2>2. Len(n) \in Nat /\ Len(n) >= 1
    BY <2>1, FrontParts DEF Words
  <2>3. /\ Front(n) \in Words /\ Len(Front(n)) = Len(n) - 1
        /\ \A i \in 1 .. Len(n) - 1 : Front(n)[i] = n[i]
    BY <2>1, FrontParts
  <2> DEFINE f == Front(n)
             a == Append(f, "*")
  <2> HIDE DEF f
  <2>4. "*" \in Part
    BY DEF Part
  <2>5. a \in Seq(Part) /\ Len(a) = Len(f) + 1 /\ a[Len(f) + 1] = "*"
        /\ \A i \in 1 .. Len(f) : a[i] = f[i]
    BY <2>3, <2>4 DEF Words, f
  <2> HIDE DEF a
  <2>6. a \in Words /\ Len(a) = Len(n) /\ \A i \in 1 .. Len(a) : a[i] = n[i]
    BY <2>1, <2>2, <2>3, <2>5 DEF Words, f
  <2>7. a = n
    BY <2>1, <2>6, SameParts
  <2> QED
    BY <2>7 DEF a, f
<1> QED
  <2>1. \A n \in Nodes : Starred(n) => \E i \in {3, 7} : n = R[i]
    BY <1>1, NodesAreBeginnings
  <2> QED
    BY <1>2, <1>3, <1>4, <2>1
-----------------------------------------------------------------------------
(* Types, and where Mount is.                                              *)

\* The pattern that Mount inserts is the next one.
LEMMA NextPattern ==
  ASSUME done \in 0 .. Len(Routes), done < Len(Routes)
  PROVE  done + 1 \in 1 .. 7 /\ Pattern = R[done + 1] /\ Pattern \in Nodes /\ Pattern # Root
<1>1. done + 1 \in 1 .. 7
  BY Table
<1>2. Pattern = R[done + 1]
  BY <1>1, Table DEF Pattern, R
<1> QED
  BY <1>1, <1>2, NodesAreBeginnings

\* What two nodes have in common is a node.
LEMMA CommonNode ==
  ASSUME NEW k \in Nodes, Pattern \in Nodes
  PROVE  /\ Common(k) \in Nodes /\ IsPrefix(Common(k), k) /\ IsPrefix(Common(k), Pattern)
         /\ \A x \in Nodes : IsPrefix(x, k) /\ IsPrefix(x, Pattern) => IsPrefix(x, Common(k))
         /\ \A n \in Nodes : Under(n, k) /\ Under(n, Pattern) =>
              (Len(Common(k)) > Len(n) <=> Branch(n, k) = Branch(n, Pattern))
BY CommonPrefix, NodesAreBeginnings DEF Common

LEMMA MountKeepsControl ==
  ASSUME PathsAssumption, RoutingTypeOK, MountConsistent, Mounting
  PROVE  MountConsistent'
<1> USE DEF MountGoes, muxVars, mountVars, Inserting, Splitting, Unlinked
<1>1. done \in 0 .. Len(Routes) /\ Len(Routes) = 7
  BY Table DEF RoutingTypeOK
<1>2. NoNode \notin Nodes /\ (done < Len(Routes) => Pattern \in Nodes)
  BY <1>1, NoNodeIsNone, NextPattern
<1>3. spot \in Nodes /\ split \in Nodes \cup {NoNode} /\ kids \in [Nodes -> SUBSET Nodes]
  BY DEF RoutingTypeOK
<1>4. CASE Use
  <2>1. Len(Stack) = 3 /\ Stack[1] = "RequestID" /\ Stack[2] = "RealIP" /\ Stack[3] = "Recoverer"
    BY DEF Stack
  <2>2. middlewares = SubSeq(Stack, 1, Len(middlewares)) /\ Len(middlewares) < 3
        /\ Len(middlewares) \in Nat
    BY <1>4, <2>1 DEF Use, MountConsistent, RoutingTypeOK
  <2>3. ASSUME NEW S, NEW t \in Seq(S), NEW n \in Nat, n < Len(t)
        PROVE  /\ SubSeq(t, 1, n + 1) = Append(SubSeq(t, 1, n), t[n + 1])
               /\ Len(SubSeq(t, 1, n + 1)) = n + 1
               /\ SubSeq(t, 1, Len(t)) = t
    BY <2>3
  <2>4. Stack \in Seq({"RequestID", "RealIP", "Recoverer"})
    BY DEF Stack
  <2> DEFINE n == Len(middlewares)
  <2>5. /\ SubSeq(Stack, 1, n + 1) = Append(SubSeq(Stack, 1, n), Stack[n + 1])
        /\ Len(SubSeq(Stack, 1, n + 1)) = n + 1
        /\ SubSeq(Stack, 1, 3) = Stack
    BY <2>1, <2>2, <2>3, <2>4
  <2>6. middlewares' = SubSeq(Stack, 1, n + 1)
    BY <1>4, <2>2, <2>5 DEF Use
  <2>7. /\ middlewares' = SubSeq(Stack, 1, Len(middlewares'))
        /\ Len(middlewares') = n + 1
    BY <2>5, <2>6
  <2>8. mountPc' = "build" => n + 1 = 3 /\ middlewares' = Stack
    BY <1>4, <2>1, <2>5, <2>6 DEF Use
  <2>9. /\ mountPc = "use" /\ mountPc' \in {"use", "build"} /\ handler = NoHandler
        /\ mountPc' = "use" => n + 1 # 3
        /\ UNCHANGED <<handler, done, spot, split, kids, torn, writing, ends>>
    BY <1>4, <2>1 DEF Use
  <2>10. mountPc' = "use" => Len(middlewares') < Len(Stack)
    BY <2>1, <2>2, <2>7, <2>9
  <2> HIDE DEF n
  <2> QED
    BY <2>7, <2>8, <2>9, <2>10 DEF MountConsistent, Pattern
<1>5. CASE BuildHandler \/ StoreHandler
  BY <1>5 DEF BuildHandler, StoreHandler, MountConsistent, Half, NoHandler
<1>6. CASE InsertRoute \/ MountReturns
  BY <1>1, <1>6 DEF InsertRoute, MountReturns, MountConsistent, Pattern
<1>7. CASE Follow \/ Shorten
  BY <1>7 DEF Follow, Shorten, MountConsistent, Pattern
<1>8. CASE Unlink
  BY <1>2, <1>3, <1>8 DEF Unlink, Edges, MountConsistent, Pattern
<1>9. CASE Label
  BY <1>9 DEF Label, MountConsistent, Pattern
<1>10. CASE Restore \/ Restored
  BY <1>10 DEF Restore, Restored, MountConsistent, Pattern
<1>11. CASE AddChild
  BY <1>11 DEF AddChild, MountConsistent
<1>12. CASE SetEndpoint
  BY <1>12 DEF SetEndpoint, MountConsistent, Pattern
<1>13. CASE Registered
  BY <1>1, <1>13, NextPattern DEF Registered, MountConsistent
<1> QED
  BY <1>4, <1>5, <1>6, <1>7, <1>8, <1>9, <1>10, <1>11, <1>12, <1>13 DEF Mounting

\* The part of the types that Mount can change.
MuxTypes ==
  /\ mountPc \in {"use", "build", "stored", "register", "walk", "unlinked", "labelled",
                  "shortening", "restoring", "add", "adding", "setting", "returned"}
  /\ middlewares \in Seq({Stack[i] : i \in DOMAIN Stack})
  /\ handler \in {NoHandler, Half, Stack}
  /\ done \in 0 .. Len(Routes)
  /\ spot \in Nodes
  /\ split \in Nodes \cup {NoNode}
  /\ kids \in [Nodes -> SUBSET Nodes]
  /\ torn \in Nodes \cup {NoNode}
  /\ writing \in Nodes \cup {NoNode}
  /\ ends \subseteq Nodes

RequestTypes ==
  /\ muxPc \in {None, "arrived", "lookup", "edge", "answered"}
  /\ path \in Paths \cup {Root}
  /\ verb \in Verbs
  /\ late \in BOOLEAN
  /\ chain \in {<<>>, Stack}
  /\ at \in Nodes
  /\ edge \in Nodes \cup {NoNode}
  /\ \E n \in 0 .. Len(path) : rest = SubSeq(path, n + 1, Len(path))
  /\ answer \in Handlers \cup Refusals \cup {None}
  /\ killed \in BOOLEAN

LEMMA TypesAreBoth == RoutingTypeOK <=> MuxTypes /\ RequestTypes
BY DEF RoutingTypeOK, MuxTypes, RequestTypes

LEMMA MountKeepsTypes ==
  ASSUME PathsAssumption, RoutingTypeOK, MountConsistent, Mounting
  PROVE  RoutingTypeOK'
<1> USE DEF MountGoes, muxVars, mountVars
<1>1. Len(Routes) = 7 /\ MuxTypes
  BY Table, TypesAreBoth
<1>2. done < Len(Routes) => Pattern \in Nodes /\ Pattern # Root
  BY <1>1, NextPattern DEF MuxTypes
<1>3. Inserting => Pattern \in Nodes /\ Pattern # Root
  BY <1>2 DEF MountConsistent
<1>4. Splitting => split \in Nodes
  BY <1>1 DEF MountConsistent, MuxTypes
<1>5. \A k \in Nodes : Pattern \in Nodes => Common(k) \in Nodes
  BY CommonNode
<1>6. UNCHANGED <<requestVars, killed>>
  BY DEF Mounting, Use, BuildHandler, StoreHandler, InsertRoute, MountReturns, Follow,
     Shorten,
         Unlink, Label, Restore, Restored, AddChild, SetEndpoint, Registered
<1>7. RequestTypes'
  BY <1>6, TypesAreBoth DEF RequestTypes, requestVars
<1>8. MuxTypes'
  <2>1. CASE Use
    <3>1. Len(middlewares) + 1 \in DOMAIN Stack
      BY <1>1, <2>1 DEF Use, MountConsistent, Stack, MuxTypes
    <3>2. middlewares' \in Seq({Stack[i] : i \in DOMAIN Stack})
      BY <1>1, <2>1, <3>1 DEF Use, MuxTypes
    <3>3. mountPc' \in {"use", "build"}
          /\ UNCHANGED <<handler, done, spot, split, kids, torn, writing, ends>>
      BY <2>1 DEF Use
    <3> QED
      BY <1>1, <3>2, <3>3 DEF MuxTypes
  <2>2. CASE BuildHandler \/ StoreHandler
    BY <1>1, <2>2 DEF BuildHandler, StoreHandler, MountConsistent, MuxTypes
  <2>3. CASE InsertRoute \/ MountReturns
    BY <1>1, <2>3, NodesAreBeginnings DEF InsertRoute, MountReturns, MuxTypes
  <2>4. CASE Follow \/ Shorten
    BY <1>1, <2>4 DEF Follow, Shorten, Edges, MuxTypes
  <2>5. CASE Unlink
    <3>1. PICK k \in kids[spot] : split' = k /\ kids' = [kids EXCEPT ![spot] = @ \ {k}]
      BY <2>5 DEF Unlink, Edges
    <3>2. k \in Nodes
      BY <1>1, <3>1 DEF MuxTypes
    <3>3. mountPc' = "unlinked"
          /\ UNCHANGED <<middlewares, handler, done, spot, torn, writing, ends>>
      BY <2>5 DEF Unlink
    <3> QED
      BY <1>1, <3>1, <3>2, <3>3 DEF MuxTypes
  <2>6. CASE Label
    <3>1. Common(split) \in Nodes
      BY <1>3, <1>4, <1>5, <2>6 DEF Label, Inserting, Splitting, Unlinked
    <3>2. kids' = [kids EXCEPT ![spot] = @ \cup {Common(split)}] /\ spot' = Common(split)
          /\ mountPc' = "labelled"
             /\ UNCHANGED <<middlewares, handler, done, split, torn, writing, ends>>
      BY <2>6 DEF Label
    <3> QED
      BY <1>1, <3>1, <3>2 DEF MuxTypes
  <2>7. CASE Restore \/ Restored
    BY <1>1, <1>4, <2>7 DEF Restore, Restored, Splitting, Unlinked, MuxTypes
  <2>8. CASE AddChild
    <3>1. Pattern \in Nodes /\ Pattern # Root
      BY <1>3, <2>8 DEF AddChild, Inserting
    <3>2. Front(Pattern) \in Nodes
      BY <3>1, FrontParts, NodesAreBeginnings DEF Under
    <3>3. kids' \in [Nodes -> SUBSET Nodes]
      BY <1>1, <2>8, <3>1, <3>2 DEF AddChild, MuxTypes
    <3> QED
      BY <1>1, <2>8, <3>3 DEF AddChild, MuxTypes
  <2>9. CASE SetEndpoint
    BY <1>1, <1>3, <2>9 DEF SetEndpoint, Inserting, MuxTypes
  <2>10. CASE Registered
    BY <1>1, <1>3, <2>10 DEF Registered, Inserting, MuxTypes, MountConsistent
  <2> QED
    BY <2>1, <2>2, <2>3, <2>4, <2>5, <2>6, <2>7, <2>8, <2>9, <2>10 DEF Mounting
<1> QED
  BY <1>7, <1>8 DEF RoutingTypeOK, MuxTypes, RequestTypes
-----------------------------------------------------------------------------
(* The tree.                                                               *)

\* Nodes are ordered as prefixes, those on the way to one in a chain.
LEMMA Order ==
  /\ \A n \in Nodes : IsPrefix(n, n) /\ IsPrefix(Root, n)
  /\ \A n, k, m \in Nodes : IsPrefix(n, k) /\ IsPrefix(k, m) => IsPrefix(n, m)
  /\ \A n, k \in Nodes : IsPrefix(n, k) /\ IsPrefix(k, n) => n = k
  /\ \A n, k, m \in Nodes : IsPrefix(n, m) /\ IsPrefix(k, m) => IsPrefix(n, k) \/ IsPrefix(k, n)
<1>1. Nodes \subseteq Words
  BY NodesAreBeginnings
<1>2. \A n \in Nodes : IsPrefix(n, n) /\ IsPrefix(Root, n)
  BY <1>1, PrefixOrder
<1>3. ASSUME NEW n \in Nodes, NEW k \in Nodes, NEW m \in Nodes, IsPrefix(n, k), IsPrefix(k, m)
      PROVE  IsPrefix(n, m)
  BY <1>1, <1>3, PrefixOrder
<1>4. ASSUME NEW n \in Nodes, NEW k \in Nodes, IsPrefix(n, k), IsPrefix(k, n)
      PROVE  n = k
  BY <1>1, <1>4, PrefixOrder
<1>5. ASSUME NEW n \in Nodes, NEW k \in Nodes, NEW m \in Nodes, IsPrefix(n, m), IsPrefix(k, m)
      PROVE  IsPrefix(n, k) \/ IsPrefix(k, n)
  <2>1. n \in Words /\ k \in Words /\ m \in Words /\ Len(n) \in Nat /\ Len(k) \in Nat
    BY <1>1, Length
  <2>2. Len(n) <= Len(k) \/ Len(k) <= Len(n)
    BY <2>1
  <2> QED
    BY <1>5, <2>1, <2>2, PrefixOrder
<1> QED
  BY <1>2, <1>3, <1>4, <1>5

LEMMA Branches ==
  /\ \A n, k, m \in Nodes : Under(n, k) /\ IsPrefix(k, m) =>
       Under(n, m) /\ Branch(n, k) = Branch(n, m)
  /\ \A n, k, m \in Nodes : IsPrefix(n, k) /\ Under(k, m) => Under(n, m)
<1>1. Nodes \subseteq Words
  BY NodesAreBeginnings
<1>2. ASSUME NEW n \in Nodes, NEW k \in Nodes, NEW m \in Nodes, Under(n, k), IsPrefix(k, m)
      PROVE  Under(n, m) /\ Branch(n, k) = Branch(n, m)
  BY <1>1, <1>2, SameBranch
<1>3. ASSUME NEW n \in Nodes, NEW k \in Nodes, NEW m \in Nodes, IsPrefix(n, k), Under(k, m)
      PROVE  Under(n, m)
  BY <1>3, Order DEF Under
<1> QED
  BY <1>2, <1>3

\* Nodes that have children, and those that are children, are in the tree.
LEMMA LinkedNodes ==
  ASSUME PathsAssumption, RoutingTypeOK, Branching
  PROVE  /\ Linked \subseteq Nodes /\ Root \in Linked
         /\ split # NoNode => split \in Linked
         /\ \A n \in Nodes : \A k \in kids[n] : n \in Linked /\ k \in Linked
<1>1. kids \in [Nodes -> SUBSET Nodes] /\ split \in Nodes \cup {NoNode}
  BY DEF RoutingTypeOK
<1>2. Root \in Linked /\ (split # NoNode => split \in Linked)
  BY DEF Linked
<1>4. ASSUME NEW m \in Linked PROVE m \in Nodes
  BY <1>1, <1>4, NodesAreBeginnings DEF Linked
<1>3. ASSUME NEW n \in Nodes, NEW k \in kids[n] PROVE n \in Linked /\ k \in Linked
  BY <1>3 DEF Linked, Branching
<1> QED
  BY <1>2, <1>3, <1>4

\* A node that is labelled comes between two of the tree, and leads to the one that is split.
LEMMA LabelKeepsTree ==
  ASSUME PathsAssumption, RoutingTypeOK, MountConsistent, TreeInv, Label
  PROVE  TreeInv'
<1> DEFINE c == Common(split)
<1>1. /\ mountPc = "unlinked" /\ mountPc' = "labelled" /\ spot' = c
      /\ kids' = [kids EXCEPT ![spot] = @ \cup {c}]
      /\ UNCHANGED <<done, split>>
  BY DEF Label, MountGoes
<1>2. /\ kids \in [Nodes -> SUBSET Nodes] /\ spot \in Nodes /\ split \in Nodes /\ split # NoNode
      /\ Pattern \in Nodes
  BY <1>1, NextPattern, NoNodeIsNone
     DEF RoutingTypeOK, MountConsistent, Splitting, Unlinked, Inserting
<1>3. Pattern' = Pattern /\ c' = c
  BY <1>1 DEF Pattern, Common
<1>4. c \in Nodes /\ IsPrefix(c, split) /\ IsPrefix(c, Pattern)
  BY <1>2, CommonNode
<1>5. /\ spot \in Linked /\ IsPrefix(spot, Pattern) /\ Under(spot, split) /\ ~Starred(split)
      /\ IsPrefix(<<"/", "_ah/">>, split)
      /\ Len(c) > Len(spot) /\ c # split
      /\ \A m \in kids[spot] : Branch(spot, m) # Branch(spot, split)
  BY <1>1 DEF TreeInv, Inserts, Splitting, Unlinked
<1>6. Under(spot, c) /\ Under(c, split)
  <2>1. IsPrefix(spot, c) /\ spot # c
    BY <1>2, <1>4, <1>5, CommonNode, NodesAreBeginnings, Length DEF Under
  <2> QED
    BY <1>4, <1>5, <2>1 DEF Under
<1> HIDE DEF c
<1>7. Linked \subseteq Nodes /\ \A n \in Nodes : \A k \in kids[n] : n \in Linked /\ k \in Linked
  BY LinkedNodes DEF TreeInv
<1>8. ASSUME NEW n \in Linked, NEW m \in Linked, Under(n, m)
      PROVE  (\E k \in kids[n] : IsPrefix(k, m)) \/ (n = spot /\ IsPrefix(split, m))
  BY <1>1, <1>8 DEF TreeInv, Covers
\* Nothing of the tree is where the new node comes, or begins as it does.
<1>9. ASSUME NEW m \in Linked, Under(spot, m), Branch(spot, m) = Branch(spot, split)
      PROVE  IsPrefix(split, m)
  <2>1. ASSUME NEW k \in kids[spot], IsPrefix(k, m) PROVE FALSE
    <3>1. k \in Nodes /\ m \in Nodes /\ Under(spot, k)
      BY <1>2, <1>7, <2>1 DEF TreeInv, Branching
    <3>2. Branch(spot, k) = Branch(spot, m)
      BY <1>2, <2>1, <3>1, Branches
    <3> QED
      BY <1>5, <1>9, <2>1, <3>2
  <2> QED
    BY <1>5, <1>8, <1>9, <2>1
<1>10. ASSUME NEW m \in Nodes, Under(spot, m), IsPrefix(m, split) PROVE m \in Linked => m = split
  <2>1. Branch(spot, m) = Branch(spot, split)
    BY <1>2, <1>10, Branches
  <2> QED
    BY <1>2, <1>9, <1>10, <2>1, Order
<1>11. c \notin Linked /\ kids[c] = {} /\ c # Root
  <2>1. c \notin Linked
    BY <1>4, <1>5, <1>6, <1>10
  <2> QED
    BY <1>4, <2>1, LinkedNodes DEF TreeInv, Branching
<1>12. Linked' = Linked \cup {c}
  BY <1>1, <1>2, <1>4 DEF Linked
<1>13. kids'[spot] = kids[spot] \cup {c} /\ \A n \in Nodes : n # spot => kids'[n] = kids[n]
  BY <1>1, <1>2
<1>14. Branching'
  <2>1. ~Starred(c)
    BY <1>2, <1>4, <1>6, StarNodes
  <2>2. ASSUME NEW n \in Nodes, NEW k \in kids'[n] PROVE Under(n, k) /\ (Starred(k) => n = Front(k))
    BY <1>6, <1>13, <2>1, <2>2 DEF TreeInv, Branching
  <2>3. Branch(spot, c) = Branch(spot, split)
    BY <1>2, <1>4, <1>6, Branches DEF Under
  <2>4. ASSUME NEW n \in Nodes, NEW k \in kids'[n], NEW m \in kids'[n], Branch(n, k) = Branch(n, m)
        PROVE  k = m
    BY <1>5, <1>13, <2>3, <2>4 DEF TreeInv, Branching
  <2>5. ASSUME NEW n \in Nodes \ Linked' PROVE kids'[n] = {}
    BY <1>5, <1>12, <1>13, <2>5 DEF TreeInv, Branching
  <2> QED
    BY <2>2, <2>4, <2>5 DEF Branching
<1>15. OnTheWay'
  <2>1. \A n \in Linked \ {Root} : \E i \in 1 .. done : IsPrefix(n, R[i])
    BY <1>1 DEF TreeInv, OnTheWay
  <2>2. PICK i \in 1 .. done : IsPrefix(split, R[i])
    <3>1. split \in Linked
      BY <1>2, LinkedNodes DEF TreeInv
    <3>2. split # Root
      BY <1>2, <1>5, Order, NodesAreBeginnings DEF Under
    <3> QED
      BY <2>1, <3>1, <3>2
  <2>3. i \in 1 .. 7
    BY Table DEF RoutingTypeOK
  <2>4. IsPrefix(c, R[i])
    BY <1>2, <1>4, <2>2, <2>3, NodesAreBeginnings, Order
  <2>5. \A n \in Linked' \ {Root} : \E j \in 1 .. done : IsPrefix(n, R[j])
    BY <1>12, <2>1, <2>4
  <2>6. \A j \in 1 .. done : R[j] \in Linked'
    BY <1>12 DEF TreeInv, OnTheWay
  <2> QED
    BY <1>1, <2>5, <2>6 DEF OnTheWay
<1>16. Covers'
  <2> SUFFICES ASSUME NEW n \in Linked', NEW m \in Linked', Under(n, m)
               PROVE  \/ \E k \in kids'[n] : IsPrefix(k, m)
                      \/ n = c /\ IsPrefix(split, m)
    BY <1>1 DEF Covers, Unlinked
  <2>1. n \in Nodes /\ m \in Nodes
    BY <1>4, <1>7, <1>12
  <2>2. CASE n \in Linked /\ m \in Linked
    BY <1>2, <1>4, <1>8, <1>13, <2>1, <2>2, Order
  <2>3. CASE n = c
    <3>1. m \in Linked /\ Under(spot, m)
      BY <1>2, <1>4, <1>6, <1>12, <2>1, <2>3, Branches, Order DEF Under
    <3>2. Branch(spot, m) = Branch(spot, c) /\ Branch(spot, c) = Branch(spot, split)
      BY <1>2, <1>4, <1>6, <2>1, <2>3, Branches DEF Under
    <3> QED
      BY <1>9, <2>3, <3>1, <3>2
  <2>4. CASE n \in Linked /\ m = c
    <3>1. IsPrefix(n, spot) \/ Under(spot, n)
      BY <1>2, <1>4, <1>6, <2>1, <2>4, Order DEF Under
    <3>2. ASSUME Under(spot, n) PROVE FALSE
      <4>1. IsPrefix(n, split) /\ n # split
        BY <1>2, <1>4, <1>6, <2>1, <2>4, Order DEF Under
      <4> QED
        BY <1>10, <2>1, <2>4, <3>2, <4>1
    <3>3. CASE n = spot
      BY <1>4, <1>13, <2>4, <3>3, Order
    <3>4. CASE Under(n, spot)
      <4>1. n # spot
        BY <3>4 DEF Under
      <4>2. PICK k \in kids[n] : IsPrefix(k, spot)
        BY <1>5, <1>8, <2>4, <3>4, <4>1
      <4>3. IsPrefix(k, c)
        BY <1>2, <1>4, <1>6, <1>7, <2>1, <4>2, Order DEF Under
      <4> QED
        BY <1>13, <2>1, <2>4, <4>1, <4>2, <4>3
    <3> QED
      BY <3>1, <3>2, <3>3, <3>4 DEF Under
  <2> QED
    BY <1>12, <2>2, <2>3, <2>4 DEF Under
<1>17. Inserts'
  <2>1. kids'[c] = {}
    BY <1>4, <1>6, <1>11, <1>13 DEF Under
  <2>2. Len(c) <= Len(c)
    BY <1>4, NodesAreBeginnings, Length
  <2> QED
    BY <1>1, <1>3, <1>4, <1>5, <1>6, <1>12, <2>1, <2>2 DEF Inserts, Splitting, Unlinked, c
<1> QED
  BY <1>14, <1>15, <1>16, <1>17 DEF TreeInv

\* Only nodes below /_ah/ are split: "/" is a node of its own when /rpc/ comes.
LEMMA SplitsAreBelow ==
  ASSUME PathsAssumption, RoutingTypeOK, MountConsistent, TreeInv,
         mountPc = "walk", NEW k \in Edges, Common(k) # k
  PROVE  IsPrefix(<<"/", "_ah/">>, k) /\ ~Starred(k)
<1> DEFINE b == <<"/", "_ah/">>
           c == Common(k)
<1>1. b \in Words /\ Len(b) = 2 /\ b[1] = "/" /\ b[2] = "_ah/"
  BY DEF Words, Part
<1>2. done \in 0 .. 6 /\ Pattern \in Nodes /\ kids \in [Nodes -> SUBSET Nodes] /\ spot \in Nodes
  BY NextPattern, Table DEF RoutingTypeOK, MountConsistent, Inserting
<1>3. k \in kids[spot] /\ k \in Nodes /\ Len(c) > Len(spot)
  BY <1>2 DEF Edges
<1>4. k \in Linked /\ Under(spot, k) /\ (Starred(k) => spot = Front(k))
  BY <1>2, <1>3, LinkedNodes DEF TreeInv, Branching
<1>5. c \in Nodes /\ IsPrefix(c, k) /\ c # k
  BY <1>2, <1>3, CommonNode
<1> HIDE DEF b, c
<1>6. /\ k \in Words /\ c \in Words /\ spot \in Words
      /\ Len(k) \in Nat /\ Len(c) \in Nat /\ Len(spot) \in Nat
  BY <1>2, <1>3, <1>5, NodesAreBeginnings, Length
<1>7. Len(c) < Len(k)
  BY <1>5, <1>6, PrefixOrder
<1>8. ~Starred(k)
  <2>1. ASSUME Starred(k) PROVE Len(spot) = Len(k) - 1
    BY <1>4, <1>6, <2>1, FrontParts DEF Starred
  <2> QED
    BY <1>3, <1>6, <1>7, <2>1
<1>9. k # Root
  <2>1. Len(Root) = 0
    BY DEF Root
  <2> QED
    BY <1>6, <1>7, <2>1
<1>10. PICK i \in 1 .. done : IsPrefix(k, R[i])
  BY <1>4, <1>9 DEF TreeInv, OnTheWay
<1>11. i \in 1 .. 6 /\ R[i] \in Words /\ Len(k) >= 2
  <2>1. i \in 1 .. 6 /\ i \in 1 .. 7
    BY <1>2
  <2>2. Len(k) >= 2
    BY <1>3, <1>6, <1>7
  <2> QED
    BY <2>1, <2>2, RouteWords
<1>12. k[1] = R[i][1] /\ k[2] = R[i][2]
  BY <1>6, <1>10, <1>11, PrefixParts
<1>13. CASE i # 6
  <2>1. k[1] = "/" /\ k[2] = "_ah/"
    BY <1>11, <1>12, <1>13, PartsOfRoutes
  <2>2. IsPrefix(b, k)
    <3>1. \A n \in 1 .. 2 : b[n] = k[n]
      BY <1>1, <2>1
    <3> QED
      BY <1>1, <1>6, <1>11, <3>1, PrefixParts
  <2> QED
    BY <1>8, <2>2 DEF b
<1>14. CASE i = 6
  <2>1. k = R[6] /\ Len(k) = 2
    <3>1. Len(k) <= Len(R[6])
      BY <1>6, <1>10, <1>11, <1>14, PrefixOrder
    <3>3. Len(R[6]) = 2
      BY Lengths
    <3>2. Len(k) = 2 /\ Len(k) = Len(R[6])
      <4>1. \A l \in Nat : l >= 2 /\ l <= 2 => l = 2
        OBVIOUS
      <4> QED
        BY <1>6, <1>11, <3>1, <3>3, <4>1, Zenon
    <3> QED
      BY <1>6, <1>10, <1>11, <1>14, <3>2, PrefixOrder
  <2>2. spot = Root
    <3>1. Len(spot) = 0
      BY <1>3, <1>6, <1>7, <2>1
    <3> QED
      BY <1>6, <3>1 DEF Root, Words
  <2>3. R[1] \in Linked /\ R[6] \in Linked /\ Root \in Linked
    BY <1>2, <1>10, <1>14, LinkedNodes DEF TreeInv, OnTheWay
  <2>4. Under(Root, R[1])
    BY NodesAreBeginnings, Order DEF Under
  <2>5. PICK m \in kids[Root] : IsPrefix(m, R[1])
    BY <2>3, <2>4 DEF TreeInv, Covers, Unlinked
  <2>6. m \in Nodes /\ Under(Root, m)
    BY <1>2, <2>2, <2>5 DEF TreeInv, Branching
  <2>7. Branch(Root, m) = Branch(Root, R[1])
    BY <2>5, <2>6, Branches, NodesAreBeginnings
  <2>8. Branch(Root, R[1]) = "/" /\ Branch(Root, R[6]) = "/"
    BY PartsOfRoutes DEF Branch, Root
  <2>9. m = k
    BY <1>2, <1>3, <2>1, <2>2, <2>5, <2>7, <2>8 DEF TreeInv, Branching
  <2>10. k[2] = R[1][2]
    <3>2. R[1] \in Words /\ IsPrefix(k, R[1])
      BY <2>5, <2>9, RouteWords
    <3>1. \A n \in 1 .. Len(k) : k[n] = R[1][n]
      BY <1>6, <3>2, PrefixParts
    <3> QED
      BY <2>1, <3>1
  <2> QED
    BY <2>1, <2>10, PartsOfRoutes
<1> QED
  BY <1>13, <1>14

\* A node that is unlinked stays the way to what is below it.
LEMMA UnlinkKeepsTree ==
  ASSUME PathsAssumption, RoutingTypeOK, MountConsistent, TreeInv, Unlink
  PROVE  TreeInv'
<1>1. PICK k \in Edges : /\ Common(k) # k /\ split' = k
                         /\ kids' = [kids EXCEPT ![spot] = @ \ {k}]
  BY DEF Unlink
<1>2. mountPc = "walk" /\ mountPc' = "unlinked" /\ UNCHANGED <<done, spot>>
  BY DEF Unlink, MountGoes
<1>3. /\ kids \in [Nodes -> SUBSET Nodes] /\ spot \in Nodes /\ split = NoNode /\ Pattern \in Nodes
      /\ NoNode \notin Nodes
  BY <1>2, NextPattern, NoNodeIsNone
     DEF RoutingTypeOK, MountConsistent, Splitting, Unlinked, Inserting
<1>4. k \in kids[spot] /\ k \in Nodes /\ Len(Common(k)) > Len(spot) /\ Under(spot, k)
  BY <1>3 DEF Edges, TreeInv, Branching
<1>5. Pattern' = Pattern /\ (Common(split))' = Common(k)
  BY <1>1, <1>2 DEF Pattern, Common
<1>6. kids'[spot] = kids[spot] \ {k} /\ \A n \in Nodes : n # spot => kids'[n] = kids[n]
  BY <1>1, <1>3
<1>7. Linked' = Linked
  <2>1. k # NoNode /\ k \in Linked
    BY <1>3, <1>4, LinkedNodes DEF TreeInv
  <2>2. ASSUME NEW n \in Nodes, NEW m \in kids[n] PROVE m \in Linked'
    BY <1>1, <1>6, <2>1, <2>2 DEF Linked
  <2>3. ASSUME NEW n \in Nodes, NEW m \in kids'[n] PROVE m \in Linked
    BY <1>6, <2>3 DEF Linked
  <2>4. Root \in Linked' /\ Root \in Linked
    BY DEF Linked
  <2>5. \A m : m \in Linked => m \in Linked'
    BY <1>3, <2>2, <2>4 DEF Linked
  <2>6. \A m : m \in Linked' => m \in Linked
    BY <1>1, <2>1, <2>3, <2>4 DEF Linked
  <2> QED
    BY <2>5, <2>6
<1>8. Branching'
  BY <1>3, <1>6, <1>7 DEF TreeInv, Branching
<1>9. OnTheWay'
  BY <1>2, <1>7 DEF TreeInv, OnTheWay
<1>10. Covers'
  <2> SUFFICES ASSUME NEW n \in Linked, NEW m \in Linked, Under(n, m)
               PROVE  (\E x \in kids'[n] : IsPrefix(x, m)) \/ (n = spot /\ IsPrefix(k, m))
    BY <1>1, <1>2, <1>7 DEF Covers, Unlinked
  <2>1. PICK x \in kids[n] : IsPrefix(x, m)
    BY <1>2 DEF TreeInv, Covers, Unlinked
  <2>2. n \in Nodes
    BY LinkedNodes DEF TreeInv
  <2> QED
    BY <1>6, <2>1, <2>2
<1>11. Inserts'
  <2>1. spot \in Linked /\ IsPrefix(spot, Pattern)
    BY <1>2 DEF TreeInv, Inserts
  <2>2. IsPrefix(<<"/", "_ah/">>, k) /\ ~Starred(k)
    BY <1>1, <1>2, SplitsAreBelow
  <2>3. \A m \in kids'[spot] : Branch(spot, m) # Branch(spot, k)
    BY <1>3, <1>4, <1>6 DEF TreeInv, Branching
  <2> QED
    BY <1>1, <1>2, <1>4, <1>5, <1>7, <2>1, <2>2, <2>3 DEF Inserts, Splitting, Unlinked
<1> QED
  BY <1>8, <1>9, <1>10, <1>11 DEF TreeInv

\* The node that was split is a child again.
LEMMA RestoreKeepsTree ==
  ASSUME PathsAssumption, RoutingTypeOK, MountConsistent, TreeInv, Restore
  PROVE  TreeInv'
<1>1. /\ mountPc = "shortening" /\ mountPc' = "restoring" /\ UNCHANGED <<done, spot, split>>
      /\ kids' = [kids EXCEPT ![spot] = {split}]
  BY DEF Restore, MountGoes
<1>2. /\ kids \in [Nodes -> SUBSET Nodes] /\ spot \in Nodes /\ split \in Nodes /\ split # NoNode
  BY <1>1, NoNodeIsNone DEF RoutingTypeOK, MountConsistent, Splitting, Unlinked, Inserting
<1>3. /\ spot \in Linked /\ IsPrefix(spot, Pattern) /\ Under(spot, split) /\ ~Starred(split)
      /\ IsPrefix(<<"/", "_ah/">>, split) /\ Len(Common(split)) <= Len(spot) /\ kids[spot] = {}
  BY <1>1 DEF TreeInv, Inserts, Splitting, Unlinked
<1>4. kids'[spot] = {split} /\ \A n \in Nodes : n # spot => kids'[n] = kids[n]
  BY <1>1, <1>2
<1>5. Linked' = Linked
  <2>1. ASSUME NEW n \in Nodes
        PROVE  kids[n] \subseteq kids'[n] /\ kids'[n] \subseteq kids[n] \cup {split}
    BY <1>3, <1>4
  <2> QED
    BY <1>1, <1>2, <2>1 DEF Linked
<1>6. Pattern' = Pattern /\ (Common(split))' = Common(split)
  BY <1>1 DEF Pattern, Common
<1>7. Branching'
  BY <1>3, <1>4, <1>5 DEF TreeInv, Branching
<1>8. OnTheWay'
  BY <1>1, <1>5 DEF TreeInv, OnTheWay
<1>9. Covers'
  <2> SUFFICES ASSUME NEW n \in Linked, NEW m \in Linked, Under(n, m)
               PROVE  \E x \in kids'[n] : IsPrefix(x, m)
    BY <1>5 DEF Covers
  <2>1. n \in Nodes
    BY LinkedNodes DEF TreeInv
  <2>2. (\E x \in kids[n] : IsPrefix(x, m)) \/ (n = spot /\ IsPrefix(split, m))
    BY DEF TreeInv, Covers
  <2> QED
    BY <1>3, <1>4, <2>1, <2>2
<1>10. Inserts'
  BY <1>1, <1>3, <1>4, <1>5, <1>6 DEF Inserts, Splitting, Unlinked
<1> QED
  BY <1>7, <1>8, <1>9, <1>10 DEF TreeInv

LEMMA RestoredKeepsTree ==
  ASSUME PathsAssumption, RoutingTypeOK, MountConsistent, TreeInv, Restored
  PROVE  TreeInv'
<1>1. mountPc = "restoring" /\ mountPc' = "add" /\ split' = NoNode /\ UNCHANGED <<done, spot, kids>>
  BY DEF Restored, MountGoes, muxVars
<1>2. /\ kids \in [Nodes -> SUBSET Nodes] /\ spot \in Nodes /\ split \in Nodes
  BY <1>1, NoNodeIsNone DEF RoutingTypeOK, MountConsistent, Splitting, Unlinked, Inserting
<1>3. /\ spot \in Linked /\ IsPrefix(spot, Pattern) /\ Len(Common(split)) <= Len(spot)
      /\ kids[spot] = {split}
  BY <1>1 DEF TreeInv, Inserts, Splitting, Unlinked
<1>4. Linked' = Linked
  BY <1>1, <1>2, <1>3 DEF Linked
<1>5. Pattern' = Pattern /\ Edges' = Edges
  BY <1>1 DEF Pattern, Common, Edges
<1>6. Edges = {}
  <2>1. ASSUME NEW k \in Edges PROVE FALSE
    <3>1. k = split /\ Len(Common(split)) > Len(spot)
      BY <1>3 DEF Edges
    <3>2. Common(split) \in Nodes
      BY <1>1, <1>2, NextPattern, CommonNode
         DEF RoutingTypeOK, MountConsistent, Splitting, Inserting
    <3>3. Len(Common(split)) \in Nat /\ Len(spot) \in Nat
      BY <1>2, <3>2, NodesAreBeginnings, Length
    <3> QED
      BY <1>3, <3>1, <3>3
  <2> QED
    BY <2>1
<1>7. Branching' /\ OnTheWay'
  BY <1>1, <1>4 DEF TreeInv, Branching, OnTheWay
<1>8. Covers'
  BY <1>1, <1>4 DEF TreeInv, Covers, Unlinked
<1>9. Inserts'
  BY <1>1, <1>3, <1>4, <1>5, <1>6 DEF Inserts, Splitting, Unlinked
<1> QED
  BY <1>7, <1>8, <1>9 DEF TreeInv

\* Where InsertRoute adds a child there is none that begins as the pattern does.
LEMMA AddKeepsTree ==
  ASSUME PathsAssumption, RoutingTypeOK, MountConsistent, TreeInv, AddChild
  PROVE  TreeInv'
<1> DEFINE p == Pattern
           apart == Last(p) = "*" /\ Len(p) - Len(spot) > 1
           g == IF apart THEN Front(p) ELSE p
<1>1. mountPc \in {"walk", "add"} /\ mountPc' = "adding" /\ UNCHANGED <<done, spot, split>>
  BY DEF AddChild, MountGoes
<1>2. /\ kids \in [Nodes -> SUBSET Nodes] /\ spot \in Nodes /\ split = NoNode
      /\ done \in 0 .. 6 /\ done + 1 \in 1 .. 7 /\ p = R[done + 1] /\ p \in Nodes /\ p # Root
  BY <1>1, NextPattern, Table DEF RoutingTypeOK, MountConsistent, Splitting, Unlinked,
     Inserting
<1>3. /\ Edges = {} /\ spot \in Linked /\ IsPrefix(spot, p)
      /\ kids' = IF apart
                 THEN [kids EXCEPT ![spot] = @ \cup {Front(p)}, ![Front(p)] = {p}]
                 ELSE [kids EXCEPT ![spot] = @ \cup {p}]
  <2>1. spot \in Linked /\ IsPrefix(spot, p) /\ (mountPc = "add" => Edges = {})
    BY <1>1 DEF TreeInv, Inserts
  <2>2. mountPc = "walk" => Edges = {}
    BY DEF AddChild, MountGoes
  <2>3. kids' = IF apart
                THEN [kids EXCEPT ![spot] = @ \cup {Front(p)}, ![Front(p)] = {p}]
                ELSE [kids EXCEPT ![spot] = @ \cup {p}]
    BY DEF AddChild
  <2> HIDE DEF p, apart
  <2> QED
    BY <1>1, <2>1, <2>2, <2>3
<1>4. Pattern' = p
  BY <1>1 DEF Pattern
<1> HIDE DEF p
<1>5. Linked \subseteq Nodes /\ \A n \in Nodes : \A k \in kids[n] : n \in Linked /\ k \in Linked
  BY LinkedNodes DEF TreeInv
<1>6. ASSUME NEW n \in Linked, NEW m \in Linked, Under(n, m)
      PROVE  \E k \in kids[n] : IsPrefix(k, m)
  BY <1>1, <1>6 DEF TreeInv, Covers, Unlinked
<1>7. Under(spot, p)
  <2>1. ASSUME spot = p PROVE FALSE
    <3>1. PICK i \in 1 .. done : IsPrefix(p, R[i])
      BY <1>1, <1>2, <1>3, <2>1 DEF TreeInv, OnTheWay
    <3>2. i \in 1 .. 7 /\ i < done + 1
      BY <1>2
    <3> QED
      BY <1>2, <3>1, <3>2, NoneBefore
  <2> QED
    BY <1>3, <2>1 DEF Under
<1>8. ASSUME NEW m \in Linked, Under(spot, m), Branch(spot, m) = Branch(spot, p) PROVE FALSE
  <2>1. PICK k \in kids[spot] : IsPrefix(k, m)
    BY <1>3, <1>6, <1>8
  <2>2. k \in Nodes /\ Under(spot, k)
    BY <1>2, <2>1 DEF TreeInv, Branching
  <2>3. Branch(spot, k) = Branch(spot, p)
    BY <1>2, <1>5, <1>8, <2>1, <2>2, Branches
  <2>4. Len(Common(k)) > Len(spot)
    BY <1>2, <1>7, <2>2, <2>3, CommonNode DEF p
  <2> QED
    BY <1>3, <2>1, <2>4 DEF Edges
<1>9. /\ p \in Words /\ spot \in Words /\ Front(p) \in Nodes /\ Under(Front(p), p)
      /\ Len(p) \in Nat /\ Len(spot) \in Nat /\ Len(Front(p)) = Len(p) - 1
         /\ IsPrefix(spot, Front(p))
  BY <1>2, <1>7, NodesAreBeginnings, FrontParts, Length DEF Under
<1>10. /\ g \in Nodes /\ Under(spot, g) /\ IsPrefix(g, p) /\ (apart => Under(g, p))
       /\ (Starred(g) => spot = Front(g)) /\ (Starred(p) /\ apart => g = Front(p))
  <2>1. CASE apart
    <3>1. g = Front(p) /\ Len(g) # Len(spot)
      BY <1>9, <2>1
    <3>2. ~Starred(g)
      BY <1>2, <1>9, <3>1, StarNodes
    <3> QED
      BY <1>9, <3>1, <3>2 DEF Under
  <2>2. CASE ~apart
    <3>1. g = p
      BY <2>2
    <3>2. ASSUME Starred(p) PROVE spot = Front(p)
      <4>1. ~(Len(p) - Len(spot) > 1)
        BY <2>2, <3>2 DEF Starred
      <4>2. Front(p) \in Words /\ Len(spot) <= Len(Front(p))
        BY <1>9, NodesAreBeginnings, PrefixOrder
      <4>3. \A l, n \in Nat : ~(l - n > 1) /\ n <= l - 1 => n = l - 1
        OBVIOUS
      <4>4. Len(spot) = Len(Front(p))
        BY <1>9, <4>1, <4>2, <4>3
      <4> QED
        BY <1>9, <4>2, <4>4, PrefixOrder
    <3> QED
      BY <1>2, <1>7, <2>2, <3>1, <3>2, Order
  <2> QED
    BY <2>1, <2>2
<1>11. /\ kids'[spot] = kids[spot] \cup {g}
       /\ apart => kids'[g] = {p}
       /\ \A n \in Nodes : n # spot /\ (n # g \/ ~apart) => kids'[n] = kids[n]
  <2>1. CASE apart
    <3>1. g = Front(p) /\ g # spot
      BY <1>10, <2>1 DEF Under
    <3> QED
      BY <1>2, <1>3, <1>9, <2>1, <3>1
  <2>2. CASE ~apart
    BY <1>2, <1>3, <2>2
  <2> QED
    BY <2>1, <2>2
<1>12. apart \/ g = p
  OBVIOUS
<1> HIDE DEF g, apart
<1>13. ASSUME NEW x \in {g, p}
      PROVE  x \in Nodes /\ Under(spot, x) /\ Branch(spot, x) = Branch(spot, p)
  BY <1>2, <1>7, <1>10, <1>13, Branches
<1>14. ASSUME NEW x \in {g, p}, NEW m \in Linked, IsPrefix(x, m) PROVE FALSE
  <2>1. Under(spot, m) /\ Branch(spot, m) = Branch(spot, p)
    BY <1>2, <1>5, <1>13, <1>14, Branches
  <2> QED
    BY <1>8, <2>1
<1>15. g \notin Linked /\ p \notin Linked /\ kids[g] = {} /\ kids[p] = {} /\ g # spot /\ g # Root
  <2>1. g \notin Linked /\ p \notin Linked
    BY <1>2, <1>10, <1>14, Order
  <2> QED
    BY <1>2, <1>3, <1>10, <2>1, LinkedNodes DEF TreeInv, Branching
<1>16. Linked' = Linked \cup {g, p}
  <2>1. ASSUME NEW m \in Linked PROVE m \in Linked'
    <3>1. CASE \E n \in Nodes : m \in kids[n]
      <4>1. PICK n \in Nodes : m \in kids[n]
        BY <3>1
      <4>2. m \in kids'[n]
        BY <1>11, <1>15, <4>1
      <4> QED
        BY <4>1, <4>2 DEF Linked
    <3>2. CASE m = Root
      BY <3>2 DEF Linked
    <3> QED
      BY <1>2, <3>1, <3>2 DEF Linked
  <2>2. ASSUME NEW m \in Linked' PROVE m \in Linked \cup {g, p}
    <3>1. CASE \E n \in Nodes : m \in kids'[n]
      <4>1. PICK n \in Nodes : m \in kids'[n]
        BY <3>1
      <4>2. m \in kids[n] \cup {g, p}
        BY <1>11, <1>12, <4>1
      <4> QED
        BY <1>5, <4>1, <4>2
    <3>2. CASE m = Root
      BY <3>2 DEF Linked
    <3> QED
      BY <1>1, <1>2, <3>1, <3>2 DEF Linked
  <2>3. g \in Linked' /\ p \in Linked'
    <3>1. g \in Linked'
      BY <1>2, <1>11 DEF Linked
    <3>2. CASE apart
      BY <1>10, <1>11, <3>1, <3>2 DEF Linked
    <3> QED
      BY <1>12, <3>1, <3>2
  <2> QED
    BY <2>1, <2>2, <2>3
<1>17. Branching'
  <2>1. ASSUME NEW n \in Nodes, NEW k \in kids'[n] PROVE Under(n, k) /\ (Starred(k) => n = Front(k))
    <3>1. CASE k \in kids[n]
      BY <3>1 DEF TreeInv, Branching
    <3>2. CASE n = spot /\ k = g
      BY <1>10, <3>2
    <3>3. CASE apart /\ n = g /\ k = p
      BY <1>10, <3>3
    <3> QED
      BY <1>11, <2>1, <3>1, <3>2, <3>3
  <2>2. ASSUME NEW k \in kids[spot], Branch(spot, k) = Branch(spot, g) PROVE FALSE
    BY <1>2, <1>5, <1>8, <1>13, <2>2 DEF TreeInv, Branching
  <2>3. ASSUME NEW n \in Nodes, NEW k \in kids'[n], NEW m \in kids'[n], Branch(n, k) = Branch(n, m)
        PROVE  k = m
    <3>1. CASE n = spot
      BY <1>2, <1>11, <2>2, <2>3, <3>1 DEF TreeInv, Branching
    <3>2. CASE apart /\ n = g
      BY <1>11, <2>3, <3>2
    <3>3. CASE n # spot /\ (n # g \/ ~apart)
      BY <1>11, <2>3, <3>3 DEF TreeInv, Branching
    <3> QED
      BY <3>1, <3>2, <3>3
  <2>4. ASSUME NEW n \in Nodes \ Linked' PROVE kids'[n] = {}
    BY <1>3, <1>11, <1>16, <2>4 DEF TreeInv, Branching
  <2> QED
    BY <2>1, <2>3, <2>4 DEF Branching
<1>18. OnTheWay'
  <2>1. \A n \in Linked \ {Root} : \E i \in 1 .. done : IsPrefix(n, R[i])
    BY <1>1 DEF TreeInv, OnTheWay
  <2>2. 1 .. done \subseteq 1 .. done + 1 /\ done + 1 \in 1 .. done + 1
    BY <1>2
  <2>3. IsPrefix(g, R[done + 1]) /\ IsPrefix(p, R[done + 1])
    BY <1>2, <1>10, Order
  <2>4. \A n \in Linked' \ {Root} : \E i \in 1 .. done + 1 : IsPrefix(n, R[i])
    BY <1>16, <2>1, <2>2, <2>3
  <2>5. \A i \in 1 .. done : R[i] \in Linked'
    BY <1>16 DEF TreeInv, OnTheWay
  <2> QED
    BY <1>1, <1>4, <1>16, <2>4, <2>5 DEF OnTheWay
<1>19. Covers'
  <2> SUFFICES ASSUME NEW n \in Linked', NEW m \in Linked', Under(n, m)
               PROVE  \E k \in kids'[n] : IsPrefix(k, m)
    BY DEF Covers
  <2>1. n \in Nodes /\ m \in Nodes
    BY <1>2, <1>5, <1>10, <1>16
  <2>2. CASE n \in Linked /\ m \in Linked
    BY <1>6, <1>11, <1>15, <2>1, <2>2
  <2>3. CASE n \in Linked /\ m \in {g, p}
    <3>1. IsPrefix(n, p)
      BY <1>2, <1>10, <2>1, <2>3, Order DEF Under
    <3>2. IsPrefix(n, spot) \/ Under(spot, n)
      BY <1>2, <1>3, <2>1, <3>1, Order DEF Under
    <3>3. ASSUME Under(spot, n) PROVE FALSE
      BY <1>2, <1>8, <2>1, <2>3, <3>1, <3>3, Branches
    <3>4. CASE n = spot
      BY <1>2, <1>10, <1>11, <2>3, <3>4, Order
    <3>5. CASE Under(n, spot)
      <4>1. PICK k \in kids[n] : IsPrefix(k, spot)
        BY <1>3, <1>6, <2>3, <3>5
      <4>2. k \in Nodes /\ IsPrefix(k, m)
        BY <1>2, <1>5, <1>13, <2>1, <2>3, <4>1, Order DEF Under
      <4> QED
        BY <1>11, <1>15, <2>1, <2>3, <3>5, <4>1, <4>2 DEF Under
    <3> QED
      BY <3>2, <3>3, <3>4, <3>5 DEF Under
  <2>4. CASE n \in {g, p} /\ m \in Linked
    BY <1>14, <2>4 DEF Under
  <2>5. CASE n \in {g, p} /\ m \in {g, p}
    <3>1. n = g /\ m = p /\ g # p
      BY <1>2, <1>10, <2>5, Order DEF Under
    <3> QED
      BY <1>2, <1>11, <1>12, <3>1, Order
  <2> QED
    BY <1>16, <2>2, <2>3, <2>4, <2>5
<1>20. Inserts'
  BY <1>1 DEF Inserts, Splitting, Unlinked
<1> QED
  BY <1>17, <1>18, <1>19, <1>20 DEF TreeInv

\* The steps that only look at the tree, or write elsewhere.
LEMMA OthersKeepTree ==
  ASSUME PathsAssumption, RoutingTypeOK, MountConsistent, TreeInv,
         Use \/ BuildHandler \/ StoreHandler \/ InsertRoute \/ Follow \/ Shorten \/ SetEndpoint
           \/ Registered \/ MountReturns
  PROVE  TreeInv'
<1>1. UNCHANGED <<kids, split>>
  BY DEF Use, BuildHandler, StoreHandler, InsertRoute, Follow, Shorten, SetEndpoint,
     Registered,
         MountReturns, muxVars
<1>2. Linked' = Linked
  BY <1>1 DEF Linked
<1>3. Branching'
  BY <1>1, <1>2 DEF TreeInv, Branching
<1>4. done \in Nat
  BY DEF RoutingTypeOK
<1>5. CASE Use \/ BuildHandler \/ StoreHandler \/ MountReturns
  <2>1. /\ mountPc \in {"use", "build", "stored", "register"} /\ UNCHANGED <<done, spot>>
        /\ mountPc' \in {"use", "build", "stored", "register", "returned"}
    BY <1>5 DEF Use, BuildHandler, StoreHandler, MountReturns, MountGoes, muxVars
  <2>2. OnTheWay'
    BY <1>1, <1>2, <2>1 DEF TreeInv, OnTheWay, Pattern
  <2>3. Covers'
    BY <1>1, <1>2, <2>1 DEF TreeInv, Covers, Unlinked
  <2>4. Inserts'
    BY <2>1 DEF Inserts, Splitting, Unlinked
  <2> QED
    BY <1>3, <2>2, <2>3, <2>4 DEF TreeInv
<1>6. CASE InsertRoute
  <2>1. mountPc = "register" /\ mountPc' = "walk" /\ spot' = Root /\ UNCHANGED done
        /\ done < Len(Routes)
    BY <1>6 DEF InsertRoute, MountGoes, muxVars
  <2>2. OnTheWay'
    BY <1>1, <1>2, <2>1 DEF TreeInv, OnTheWay, Pattern
  <2>3. Covers'
    BY <1>1, <1>2, <2>1 DEF TreeInv, Covers, Unlinked
  <2>4. Pattern' = Pattern /\ IsPrefix(Root, Pattern)
    BY <2>1, NextPattern, Order DEF Pattern, RoutingTypeOK
  <2>5. Inserts'
    BY <1>2, <2>1, <2>4 DEF Inserts, Splitting, Unlinked, Linked
  <2> QED
    BY <1>3, <2>2, <2>3, <2>5 DEF TreeInv
<1>7. CASE Follow
  <2>1. mountPc = "walk" /\ mountPc' = "walk" /\ UNCHANGED done
    BY <1>7 DEF Follow, MountGoes, muxVars
  <2>2. PICK k \in Edges : Common(k) = k /\ spot' = k
    BY <1>7 DEF Follow
  <2>3. k \in Nodes /\ k \in Linked /\ Pattern \in Nodes
    BY <2>1, LinkedNodes, NextPattern DEF Edges, TreeInv, RoutingTypeOK, MountConsistent,
       Inserting
  <2>4. IsPrefix(k, Pattern) /\ Pattern' = Pattern
    BY <2>1, <2>2, <2>3, CommonNode DEF Pattern
  <2>5. OnTheWay'
    BY <1>1, <1>2, <2>1, <2>4 DEF TreeInv, OnTheWay
  <2>6. Covers'
    BY <1>1, <1>2, <2>1 DEF TreeInv, Covers, Unlinked
  <2>7. Inserts'
    BY <1>2, <2>1, <2>2, <2>3, <2>4 DEF Inserts, Splitting, Unlinked
  <2> QED
    BY <1>3, <2>5, <2>6, <2>7 DEF TreeInv
<1>8. CASE Shorten
  <2>1. mountPc = "labelled" /\ mountPc' = "shortening" /\ UNCHANGED <<done, spot>>
    BY <1>8 DEF Shorten, MountGoes, muxVars
  <2>2. Pattern' = Pattern /\ (Common(split))' = Common(split)
    BY <1>1, <2>1 DEF Pattern, Common
  <2>3. OnTheWay'
    BY <1>1, <1>2, <2>1, <2>2 DEF TreeInv, OnTheWay
  <2>4. Covers'
    BY <1>1, <1>2, <2>1 DEF TreeInv, Covers, Unlinked
  <2>5. Inserts'
    BY <1>1, <1>2, <2>1, <2>2 DEF TreeInv, Inserts, Splitting, Unlinked
  <2> QED
    BY <1>3, <2>3, <2>4, <2>5 DEF TreeInv
<1>9. CASE SetEndpoint
  <2>1. mountPc = "adding" /\ mountPc' = "setting" /\ UNCHANGED <<done, spot>>
    BY <1>9 DEF SetEndpoint, MountGoes, muxVars
  <2>2. OnTheWay'
    BY <1>1, <1>2, <2>1 DEF TreeInv, OnTheWay, Pattern
  <2>3. Covers'
    BY <1>1, <1>2, <2>1 DEF TreeInv, Covers, Unlinked
  <2>4. Inserts'
    BY <2>1 DEF Inserts, Splitting, Unlinked
  <2> QED
    BY <1>3, <2>2, <2>3, <2>4 DEF TreeInv
<1>10. CASE Registered
  <2>1. mountPc = "setting" /\ mountPc' = "register" /\ done' = done + 1
    BY <1>10 DEF Registered, MountGoes
  <2>2. Pattern = R[done + 1]
    BY <2>1, NextPattern DEF RoutingTypeOK, MountConsistent, Inserting
  <2>3. \A i \in 1 .. done + 1 : i \in 1 .. done \/ i = done + 1
    BY <1>4
  <2>4. \A i \in 1 .. done + 1 : R[i] \in Linked
    BY <2>1, <2>2, <2>3 DEF TreeInv, OnTheWay
  <2>5. OnTheWay'
    BY <1>2, <2>1, <2>4 DEF TreeInv, OnTheWay
  <2>6. Covers'
    BY <1>1, <1>2, <2>1 DEF TreeInv, Covers, Unlinked
  <2>7. Inserts'
    BY <2>1 DEF Inserts, Splitting, Unlinked
  <2> QED
    BY <1>3, <2>5, <2>6, <2>7 DEF TreeInv
<1> QED
  BY <1>5, <1>6, <1>7, <1>8, <1>9, <1>10

LEMMA MountKeepsTree ==
  ASSUME PathsAssumption, RoutingTypeOK, MountConsistent, TreeInv, Mounting
  PROVE  TreeInv'
BY UnlinkKeepsTree, LabelKeepsTree, RestoreKeepsTree, RestoredKeepsTree, AddKeepsTree,
   OthersKeepTree
   DEF Mounting
-----------------------------------------------------------------------------
(* What the table says of a request.                                       *)

\* The route's pattern is the path, or leaves what "*" takes.
Matches(i, p) == R[i] = p \/ (Starred(R[i]) /\ IsPrefix(Front(R[i]), p))

\* What the endpoint of the route answers.
Endpoint(i, v) == IF v = "OPTIONS" /\ Routes[i].cors THEN "preflight" ELSE Routes[i].to

\* No path has two routes, but for the one that ends where another has its "*".
LEMMA OneMatches ==
  ASSUME NEW p \in Words, NEW i \in 1 .. 7, NEW j \in 1 .. 7, Matches(i, p), Matches(j, p)
  PROVE  i = j \/ (i \in 1 .. 3 /\ j \in 1 .. 3)
<1>1. \A k \in 1 .. 7 : R[k] \in Words /\ (k \in {3, 7} <=> Starred(R[k])) /\ R[k] # Root
  BY RouteWords, Stars, NodesAreBeginnings
<1>2. \A k \in {3, 7} : /\ Front(R[k]) \in Words /\ Front(R[k])[2] = R[k][2]
                        /\ Len(Front(R[k])) = Len(R[k]) - 1
  <2> SUFFICES ASSUME NEW k \in {3, 7}
               PROVE  /\ Front(R[k]) \in Words /\ Front(R[k])[2] = R[k][2]
                      /\ Len(Front(R[k])) = Len(R[k]) - 1
    OBVIOUS
  <2>1. 2 \in 1 .. Len(R[k]) - 1
    <3>1. Len(R[k]) = 3 \/ Len(R[k]) = 5
      BY Lengths
    <3>2. \A l : l = 3 \/ l = 5 => 2 \in 1 .. l - 1
      OBVIOUS
    <3> QED
      BY <3>1, <3>2, Zenon
  <2>2. R[k] \in Words /\ R[k] # Root
    BY <1>1
  <2> QED
    BY <2>1, <2>2, FrontParts, Zenon
<1>3. Len(Front(R[3])) = 4 /\ Len(Front(R[7])) = 2
  <2>1. Len(Front(R[3])) = Len(R[3]) - 1 /\ Len(Front(R[7])) = Len(R[7]) - 1
    BY <1>2, Zenon
  <2>2. Len(R[3]) = 5 /\ Len(R[7]) = 3 /\ 5 - 1 = 4 /\ 3 - 1 = 2
    BY Lengths
  <2> QED
    BY <2>1, <2>2, Zenon
<1>4. ASSUME NEW k \in 1 .. 7, Matches(k, p)
      PROVE  R[k][2] = p[2]
  <2>1. CASE R[k] = p
    BY <2>1
  <2>2. CASE k \in {3, 7} /\ IsPrefix(Front(R[k]), p)
    <3>1. Len(Front(R[k])) = 2 \/ Len(Front(R[k])) = 4
      BY <1>3, <2>2, Zenon
    <3>2. \A l : l = 2 \/ l = 4 => 2 \in 1 .. l
      OBVIOUS
    <3>3. 2 \in 1 .. Len(Front(R[k]))
      BY <3>1, <3>2, Zenon
    <3>4. Front(R[k])[2] = p[2]
      BY <1>2, <2>2, <3>3, PrefixParts, Zenon
    <3> QED
      BY <1>2, <2>2, <3>4, Zenon
  <2> QED
    BY <1>1, <1>4, <2>1, <2>2 DEF Matches
<1>5. R[i][2] = R[j][2]
  BY <1>4
<1>6. ASSUME R[i] = R[j] PROVE i = j
  <2>1. IsPrefix(R[i], R[j]) /\ IsPrefix(R[j], R[i])
    BY <1>1, <1>6, PrefixOrder
  <2>2. i < j \/ j < i \/ i = j
    OBVIOUS
  <2> QED
    BY <2>1, <2>2, NoneBefore
<1>7. ASSUME NEW k \in 1 .. 7, NEW m \in 1 .. 7, Matches(k, p), Matches(m, p), m \in 4 .. 5
      PROVE  k = m
  <2>1. R[m] = p /\ p[3] # "debug" /\ Len(p) = 3
    BY <1>1, <1>7, Lengths, PartsOfRoutes DEF Matches
  <2>2. CASE R[k] = p
    <3>1. k \in 4 .. 5
      BY <1>7, <2>1, <2>2, Lengths, PartsOfRoutes, <1>4
    <3> QED
      BY <1>7, <2>1, <2>2, <3>1, PartsOfRoutes
  <2>3. CASE k = 3 /\ IsPrefix(Front(R[k]), p)
    <3>1. Len(Front(R[k])) <= Len(p)
      BY <1>2, <2>3, PrefixOrder
    <3>2. Len(Front(R[k])) = 4
      BY <1>3, <2>3, Zenon
    <3> QED
      BY <2>1, <3>1, <3>2
  <2>4. CASE k = 7
    BY <1>4, <1>7, <2>4, PartsOfRoutes
  <2> QED
    BY <1>1, <1>7, <2>2, <2>3, <2>4 DEF Matches
<1> QED
  <2>1. i \in 4 .. 5 \/ j \in 4 .. 5 => i = j
    BY <1>7
  <2>2. i \in 6 .. 7 \/ j \in 6 .. 7 => i = j
    BY <1>5, PartsOfRoutes
  <2> QED
    BY <2>1, <2>2

\* The routes below /_ah/ are the first five.
LEMMA Endpoints ==
  /\ \A i \in 1 .. 7 : Routes[i].to \in {"profiler", "warmup", "health", "stream", "rpc"}
  /\ \A i \in 1 .. 5 : ~Routes[i].cors /\ Routes[i].to \in {"profiler", "warmup", "health"}
  /\ \A i, j \in 1 .. 3 :
       Routes[i].verbs = Routes[j].verbs /\ \A v : Endpoint(i, v) = Endpoint(j, v)
  /\ Handlers = {"profiler", "warmup", "health", "stream", "rpc"}
  /\ \A i \in 1 .. 7 : Routes[i].pattern = R[i]
<1>1. /\ Routes[1].to = "profiler" /\ Routes[2].to = "profiler" /\ Routes[3].to = "profiler"
      /\ Routes[4].to = "warmup" /\ Routes[5].to = "health" /\ Routes[6].to = "stream"
      /\ Routes[7].to = "rpc"
  BY DEF Routes, Route
<1>2. ~Routes[1].cors /\ ~Routes[2].cors /\ ~Routes[3].cors /\ ~Routes[4].cors /\ ~Routes[5].cors
  BY DEF Routes, Route
<1>3. Routes[1].verbs = Verbs /\ Routes[2].verbs = Verbs /\ Routes[3].verbs = Verbs
  BY DEF Routes, Route
<1>4. DOMAIN Routes = 1 .. 7
  BY Table
<1>5. Handlers = {"profiler", "warmup", "health", "stream", "rpc"}
  BY <1>1, <1>4 DEF Handlers
<1>6. \A i \in 1 .. 7 : Routes[i].pattern = R[i]
  BY <1>4 DEF R
<1>7. \A i \in 1 .. 3 : i = 1 \/ i = 2 \/ i = 3
  OBVIOUS
<1>8. \A i, j \in 1 .. 3 :
        Routes[i].verbs = Routes[j].verbs /\ \A v : Endpoint(i, v) = Endpoint(j, v)
  BY <1>1, <1>2, <1>3, <1>7 DEF Endpoint
<1>9. \A i \in 1 .. 7 : Routes[i].to \in {"profiler", "warmup", "health", "stream", "rpc"}
  BY <1>1
<1>10. \A i \in 1 .. 5 : ~Routes[i].cors /\ Routes[i].to \in {"profiler", "warmup", "health"}
  BY <1>1, <1>2
<1> QED
  BY <1>5, <1>6, <1>8, <1>9, <1>10

\* What is wanted of a request is what any route that matches its path says.
LEMMA WantedIs ==
  ASSUME NEW p \in Words, NEW v
  PROVE  /\ (\A i \in 1 .. 7 : ~Matches(i, p)) => Wanted(p, v) = "notfound"
         /\ \A i \in 1 .. 7 : Matches(i, p) =>
              Wanted(p, v) = IF v \in Routes[i].verbs THEN Endpoint(i, v) ELSE "notallowed"
<1> DEFINE matching == {i \in 1 .. 7 : Matches(i, p)}
           taking == {i \in matching : v \in Routes[i].verbs}
           first == CHOOSE i \in taking : TRUE
<1>1. /\ matching = {} => Wanted(p, v) = "notfound"
      /\ matching # {} /\ taking = {} => Wanted(p, v) = "notallowed"
      /\ taking # {} => Wanted(p, v) = Endpoint(first, v)
  <2>1. matching = {i \in DOMAIN Routes :
                      LET r == Routes[i].pattern IN
                      r = p \/ (Last(r) = "*" /\ IsPrefix(Front(r), p))}
    BY Table, Endpoints, NodesAreBeginnings DEF Matches, Starred
  <2>2. taking # {} => matching # {}
    OBVIOUS
  <2> HIDE DEF matching
  <2> QED
    BY <2>1, <2>2 DEF Wanted, Endpoint
<1> HIDE DEF first
<1>2. taking # {} => first \in taking
  BY DEF first
<1>3. ASSUME NEW i \in 1 .. 7, Matches(i, p)
      PROVE  Wanted(p, v) = IF v \in Routes[i].verbs THEN Endpoint(i, v) ELSE "notallowed"
  <2>1. i \in matching
    BY <1>3
  <2>2. \A j \in matching : j = i \/ (i \in 1 .. 3 /\ j \in 1 .. 3)
    BY <1>3, OneMatches
  <2>3. \A j \in matching : Routes[j].verbs = Routes[i].verbs /\ Endpoint(j, v) = Endpoint(i, v)
    BY <2>2, Endpoints
  <2>4. CASE v \in Routes[i].verbs
    BY <1>1, <1>2, <2>1, <2>3, <2>4
  <2>5. CASE v \notin Routes[i].verbs
    <3>1. taking = {}
      BY <2>3, <2>5
    <3> QED
      BY <1>1, <2>1, <2>5, <3>1
  <2> QED
    BY <2>4, <2>5
<1> QED
  BY <1>1, <1>3
-----------------------------------------------------------------------------
(* What is left of a path.                                                 *)

Rest(p, n) == SubSeq(p, n + 1, Len(p))

\* "*" is a part of patterns only.
LEMMA PathWords ==
  ASSUME PathsAssumption
  PROVE  \A p \in Paths : p \in Words /\ \A n \in 1 .. Len(p) : p[n] # "*"
<1> SUFFICES ASSUME NEW p \in Paths PROVE p \in Words /\ \A n \in 1 .. Len(p) : p[n] # "*"
  OBVIOUS
<1>1. p \in Seq(PathParts)
  BY DEF PathsAssumption
<1>2. "*" \notin PathParts /\ PathParts \subseteq Part
  BY DEF PathsAssumption, Part
<1> QED
  BY <1>1, <1>2 DEF Words

\* The route of the RPC server takes what the generated client posts.
LEMMA RpcIsWanted ==
  ASSUME PathsAssumption
  PROVE  Wanted(RpcPath, "POST") = "rpc"
<1>1. RpcPath \in Words /\ Len(RpcPath) = 3 /\ RpcPath[1] = "/" /\ RpcPath[2] = "rpc/"
  <2>1. RpcPath \in Words
    BY PathWords DEF PathsAssumption
  <2> QED
    BY <2>1 DEF RpcPath
<1>2. Starred(R[7]) /\ R[7] \in Words /\ R[7] # Root /\ Len(R[7]) = 3
  <2>1. 7 \in 1 .. 7 /\ Len(R[7]) = 3
    BY Table
  <2>2. Starred(R[7])
    BY <2>1, Stars
  <2> QED
    BY <2>1, <2>2, RouteWords DEF Starred
<1>3. /\ Front(R[7]) \in Words /\ Len(Front(R[7])) = 2
      /\ Front(R[7])[1] = "/" /\ Front(R[7])[2] = "rpc/"
  <2>1. Front(R[7]) \in Words /\ Len(Front(R[7])) = 3 - 1
        /\ \A i \in 1 .. 3 - 1 : Front(R[7])[i] = R[7][i]
    BY <1>2, FrontParts
  <2> QED
    BY <2>1, PartsOfRoutes
<1>4. IsPrefix(Front(R[7]), RpcPath)
  <2>1. \A i \in 1 .. Len(Front(R[7])) : Front(R[7])[i] = RpcPath[i]
    <3>1. \A i \in 1 .. 2 : i = 1 \/ i = 2
      OBVIOUS
    <3> QED
      BY <1>1, <1>3, <3>1
  <2>2. Len(Front(R[7])) <= Len(RpcPath)
    BY <1>1, <1>3
  <2> QED
    BY <1>1, <1>3, <2>1, <2>2, PrefixParts
<1>5. Matches(7, RpcPath)
  BY <1>2, <1>4 DEF Matches
<1>6. "POST" \in Routes[7].verbs /\ Endpoint(7, "POST") = "rpc"
  BY DEF Routes, Route, Verbs, Endpoint
<1> QED
  BY <1>1, <1>5, <1>6, WantedIs

LEMMA RestParts ==
  ASSUME NEW p \in Words, NEW n \in 0 .. Len(p)
  PROVE  /\ Rest(p, n) \in Words /\ Len(Rest(p, n)) = Len(p) - n
         /\ \A i \in 1 .. Len(p) - n : Rest(p, n)[i] = p[n + i]
         /\ Rest(p, n) = <<>> <=> n = Len(p)
         /\ n # Len(p) => Head(Rest(p, n)) = p[n + 1]
<1>1. Len(p) \in Nat /\ n \in Nat /\ n <= Len(p)
  BY Length
<1>2. /\ Rest(p, n) \in Seq(Part) /\ Len(Rest(p, n)) = Len(p) - n
      /\ \A i \in 1 .. Len(p) - n : Rest(p, n)[i] = p[n + i]
  BY <1>1 DEF Rest, Words
<1>3. Rest(p, n) = <<>> <=> Len(Rest(p, n)) = 0
  BY <1>2
<1>4. Rest(p, n) = <<>> <=> n = Len(p)
  BY <1>1, <1>2, <1>3
<1>5. ASSUME n # Len(p) PROVE Head(Rest(p, n)) = p[n + 1]
  <2>1. Head(Rest(p, n)) = Rest(p, n)[1]
    BY <1>2, <1>4, <1>5
  <2>2. 1 \in 1 .. Len(p) - n
    BY <1>1, <1>5
  <2> QED
    BY <1>2, <2>1, <2>2
<1> QED
  BY <1>2, <1>4, <1>5 DEF Words

\* What is left of what is left.
LEMMA RestOfRest ==
  ASSUME NEW p \in Words, NEW n \in 0 .. Len(p), NEW m \in 0 .. Len(p) - n
  PROVE  n + m \in 0 .. Len(p) /\ Rest(Rest(p, n), m) = Rest(p, n + m)
<1>1. Len(p) \in Nat /\ n + m \in 0 .. Len(p) /\ n \in Nat /\ m \in Nat
  BY Length
<1> DEFINE s == Rest(p, n)
           t == Rest(s, m)
           u == Rest(p, n + m)
<1>2. s \in Words /\ Len(s) = Len(p) - n /\ \A i \in 1 .. Len(p) - n : s[i] = p[n + i]
  BY RestParts
<1>3. u \in Words /\ Len(u) = Len(p) - (n + m) /\ \A i \in 1 .. Len(p) - (n + m) :
        u[i] = p[n + m + i]
  BY <1>1, RestParts
<1> HIDE DEF s, u
<1>4. m \in 0 .. Len(s)
  BY <1>2
<1>5. t \in Words /\ Len(t) = Len(s) - m /\ \A i \in 1 .. Len(s) - m : t[i] = s[m + i]
  BY <1>2, <1>4, RestParts
<1> HIDE DEF t
<1>6. Len(t) = Len(u)
  BY <1>1, <1>2, <1>3, <1>5
<1>7. ASSUME NEW i \in 1 .. Len(t) PROVE t[i] = u[i]
  <2>1. i \in 1 .. Len(s) - m /\ m + i \in 1 .. Len(p) - n /\ i \in 1 .. Len(p) - (n + m)
        /\ n + (m + i) = n + m + i
    BY <1>1, <1>2, <1>3, <1>5, <1>6
  <2> QED
    BY <1>2, <1>3, <1>5, <2>1
<1>8. t = u
  BY <1>3, <1>5, <1>6, <1>7, SameParts
<1> QED
  BY <1>1, <1>8 DEF s, t, u

\* A node's prefix is one of what is left when its name is one of the path.
LEMMA PrefixOfRest ==
  ASSUME NEW p \in Words, NEW a \in Words, NEW k \in Words, IsPrefix(a, p), Under(a, k)
  PROVE  /\ Rest(k, Len(a)) \in Words
         /\ IsPrefix(Rest(k, Len(a)), Rest(p, Len(a))) <=> IsPrefix(k, p)
         /\ IsPrefix(k, p) =>
              /\ Rest(p, Len(a)) # <<>> /\ Branch(a, k) = Head(Rest(p, Len(a)))
              /\ Rest(Rest(p, Len(a)), Len(Rest(k, Len(a)))) = Rest(p, Len(k))
<1> DEFINE n == Len(a)
           s == Rest(p, n)
           e == Rest(k, n)
<1>1. /\ Len(p) \in Nat /\ n \in Nat /\ Len(k) \in Nat
      /\ n <= Len(p) /\ n < Len(k) /\ IsPrefix(a, k)
  <2>1. Len(p) \in Nat /\ n \in Nat /\ Len(k) \in Nat /\ n <= Len(p)
    BY Length, PrefixOrder
  <2>2. n <= Len(k) /\ n # Len(k)
    BY PrefixOrder DEF Under
  <2> QED
    BY <2>1, <2>2 DEF Under
<1>2. /\ s \in Words /\ Len(s) = Len(p) - n /\ (\A i \in 1 .. Len(p) - n : s[i] = p[n + i])
      /\ s = <<>> <=> n = Len(p)
      /\ n # Len(p) => Head(s) = p[n + 1]
  BY <1>1, RestParts
<1>3. e \in Words /\ Len(e) = Len(k) - n /\ \A i \in 1 .. Len(k) - n : e[i] = k[n + i]
  <2>1. n \in 0 .. Len(k)
    BY <1>1
  <2> QED
    BY <2>1, RestParts, Zenon
<1>4. \A i \in 1 .. n : a[i] = p[i] /\ a[i] = k[i]
  BY <1>1, PrefixParts
<1> HIDE DEF n, s, e
<1>5. ASSUME IsPrefix(k, p) PROVE IsPrefix(e, s)
  <2>1. Len(k) <= Len(p) /\ \A i \in 1 .. Len(k) : k[i] = p[i]
    BY <1>5, PrefixParts
  <2>2. Len(e) <= Len(s)
    BY <1>1, <1>2, <1>3, <2>1
  <2>3. ASSUME NEW i \in 1 .. Len(e) PROVE e[i] = s[i]
    <3>1. i \in 1 .. Len(k) - n /\ i \in 1 .. Len(p) - n /\ n + i \in 1 .. Len(k)
      BY <1>1, <1>2, <1>3, <2>1
    <3> QED
      BY <1>2, <1>3, <2>1, <3>1
  <2> QED
    BY <1>2, <1>3, <2>2, <2>3, PrefixParts
<1>6. ASSUME IsPrefix(e, s) PROVE IsPrefix(k, p)
  <2>1. Len(e) <= Len(s) /\ \A i \in 1 .. Len(e) : e[i] = s[i]
    BY <1>2, <1>3, <1>6, PrefixParts
  <2>2. Len(k) <= Len(p)
    BY <1>1, <1>2, <1>3, <2>1
  <2>3. ASSUME NEW i \in 1 .. Len(k) PROVE k[i] = p[i]
    <3>1. CASE i \in 1 .. n
      BY <1>4, <3>1
    <3>2. CASE i \notin 1 .. n
      <4>1. i - n \in 1 .. Len(e) /\ i - n \in 1 .. Len(p) - n /\ i - n \in 1 .. Len(k) - n
            /\ n + (i - n) = i
        BY <1>1, <1>3, <2>2, <3>2
      <4> QED
        BY <1>2, <1>3, <2>1, <4>1
    <3> QED
      BY <3>1, <3>2
  <2> QED
    BY <2>2, <2>3, PrefixParts
<1>7. ASSUME IsPrefix(k, p)
      PROVE  s # <<>> /\ Branch(a, k) = Head(s) /\ Rest(s, Len(e)) = Rest(p, Len(k))
  <2>1. Len(k) <= Len(p) /\ k[n + 1] = p[n + 1]
    BY <1>1, <1>7, PrefixParts
  <2>2. n # Len(p)
    BY <1>1, <2>1
  <2>3. n \in 0 .. Len(p) /\ Len(e) \in 0 .. Len(p) - n /\ n + Len(e) = Len(k)
    BY <1>1, <1>3, <2>1
  <2>4. Rest(Rest(p, n), Len(e)) = Rest(p, n + Len(e))
    BY <2>3, RestOfRest
  <2> QED
    BY <1>2, <2>1, <2>2, <2>3, <2>4 DEF Branch, n, s
<1> QED
  BY <1>3, <1>5, <1>6, <1>7 DEF n, s, e
-----------------------------------------------------------------------------
(* The request.                                                            *)

\* What stays when a request takes a step.
LEMMA MuxStays ==
  ASSUME RoutingTypeOK, MountConsistent, TreeInv, UNCHANGED <<muxVars, mountVars>>
  PROVE  MuxTypes' /\ MountConsistent' /\ TreeInv' /\ Linked' = Linked
<1> USE DEF muxVars, mountVars
<1>1. Linked' = Linked
  BY DEF Linked
<1>2. Pattern' = Pattern
  BY DEF Pattern
<1>3. Edges' = Edges /\ (Common(split))' = Common(split)
  BY <1>2 DEF Edges, Common
<1>4. MuxTypes'
  BY TypesAreBoth DEF MuxTypes
<1>5. Splitting' = Splitting /\ Unlinked' = Unlinked /\ Inserting' = Inserting
  BY DEF Splitting, Unlinked, Inserting
<1>6. MountConsistent'
  BY <1>2, <1>5 DEF MountConsistent
<1>7. Branching' /\ Covers'
  BY <1>1, <1>5 DEF TreeInv, Branching, Covers
<1>8. OnTheWay'
  BY <1>1, <1>2 DEF TreeInv, OnTheWay
<1>9. Inserts'
  BY <1>1, <1>2, <1>3, <1>5 DEF TreeInv, Inserts
<1> QED
  BY <1>1, <1>4, <1>6, <1>7, <1>8, <1>9 DEF TreeInv

\* The tree that Mount leaves behind.
LEMMA OnceMounted ==
  ASSUME PathsAssumption, TInv, TreeInv, mountPc = "returned"
  PROVE  /\ handler = Stack /\ handler \notin {NoHandler, Half}
         /\ split = NoNode /\ torn = NoNode /\ writing = NoNode
         /\ ends = {R[i] : i \in 1 .. 7}
         /\ \A i \in 1 .. 7 : R[i] \in Linked
         /\ \A n, m \in Linked : Under(n, m) => \E k \in kids[n] : IsPrefix(k, m)
<1>1. done = 7
  BY Table DEF TInv, MountConsistent
<1>2. handler = Stack /\ split = NoNode /\ torn = NoNode /\ writing = NoNode
  BY DEF TInv, MountConsistent, Splitting, Unlinked
<1>3. Stack # NoHandler /\ Stack # Half
  BY DEF Stack, NoHandler, Half
<1>4. ends = {R[i] : i \in 1 .. 7}
  BY <1>1 DEF TInv, MountConsistent
<1>5. \A i \in 1 .. 7 : R[i] \in Linked
  BY <1>1 DEF TreeInv, OnTheWay
<1>6. \A n, m \in Linked : Under(n, m) => \E k \in kids[n] : IsPrefix(k, m)
  BY DEF TreeInv, Covers, Unlinked
<1> QED
  BY <1>2, <1>3, <1>4, <1>5, <1>6

\* The path and what is left of it.
LEMMA RequestWords ==
  ASSUME PathsAssumption, RoutingTypeOK, Requested
  PROVE  /\ path \in Words /\ rest \in Words /\ at \in Words /\ at \in Nodes
         /\ \A n \in 1 .. Len(path) : path[n] # "*"
         /\ \A n \in 1 .. Len(rest) : rest[n] # "*"
<1>1. path \in Words /\ \A n \in 1 .. Len(path) : path[n] # "*"
  BY PathWords, NodesAreBeginnings DEF RoutingTypeOK, Root
<1>2. PICK n \in 0 .. Len(path) : rest = Rest(path, n)
  BY DEF RoutingTypeOK, Rest
<1>3. /\ rest \in Words /\ Len(rest) = Len(path) - n
      /\ \A i \in 1 .. Len(path) - n : rest[i] = path[n + i]
  BY <1>1, <1>2, RestParts
<1>4. ASSUME NEW i \in 1 .. Len(rest) PROVE rest[i] # "*"
  <2>1. Len(path) \in Nat /\ i \in 1 .. Len(path) - n /\ n + i \in 1 .. Len(path)
    BY <1>1, <1>3, Length
  <2> QED
    BY <1>1, <1>3, <2>1
<1>5. at \in Nodes /\ at \in Words
  BY NodesAreBeginnings DEF RoutingTypeOK
<1> QED
  BY <1>1, <1>3, <1>4, <1>5

\* From where its path has led a request there is a way to the route of the path.
LEMMA WayDown ==
  ASSUME PathsAssumption, TInv, TreeInv, Requested, mountPc = "returned", OnPath,
         at \in Linked, ~Starred(at), NEW i \in 1 .. 7, Matches(i, path)
  PROVE  \/ at = R[i] /\ rest = <<>>
         \/ \E k \in Children : IsPrefix(k, path) \/ (Starred(k) /\ k = R[i])
<1>1. /\ path \in Words /\ at \in Words /\ at \in Nodes /\ IsPrefix(at, path)
      /\ rest = Rest(path, Len(at))
  BY RequestWords DEF TInv, OnPath, Rest
<1>2. R[i] \in Nodes /\ R[i] \in Words /\ R[i] \in Linked /\ R[i] # Root
  BY NodesAreBeginnings, RouteWords, OnceMounted
<1>3. /\ \A k \in kids[at] : k \in Nodes /\ k \in Words /\ Under(at, k)
         /\ (Starred(k) => at = Front(k))
      /\ Under(at, R[i]) => \E k \in kids[at] : IsPrefix(k, R[i])
  BY <1>1, <1>2, OnceMounted, LinkedNodes, NodesAreBeginnings DEF TInv, TreeInv, Branching
<1>4. ASSUME NEW k \in kids[at], IsPrefix(k, path) PROVE k \in Children
  <2>1. rest # <<>> /\ Branch(at, k) = Head(rest)
    BY <1>1, <1>3, <1>4, PrefixOfRest
  <2> QED
    BY <2>1 DEF Children, Branch
<1>5. CASE R[i] = path
  <2>1. CASE at = path
    <3>1. Len(at) \in 0 .. Len(path) /\ Len(at) = Len(path)
      BY <1>1, <2>1, Length
    <3>2. rest = <<>>
      BY <1>1, <3>1, RestParts, Zenon
    <3> QED
      BY <1>5, <2>1, <3>2
  <2>2. CASE at # path
    <3>1. PICK k \in kids[at] : IsPrefix(k, R[i])
      BY <1>1, <1>3, <1>5, <2>2 DEF Under
    <3> QED
      BY <1>4, <1>5, <3>1
  <2> QED
    BY <2>1, <2>2
<1>6. CASE Starred(R[i]) /\ IsPrefix(Front(R[i]), path)
  <2> DEFINE f == Front(R[i])
  <2>1. f \in Words /\ f \in Nodes /\ Under(f, R[i]) /\ IsPrefix(f, path) /\ Append(f, "*") = R[i]
    BY <1>2, <1>6, FrontParts, NodesAreBeginnings, StarNodes DEF Under
  <2> HIDE DEF f
  <2>2. IsPrefix(f, at) \/ IsPrefix(at, f)
    <3>1. Len(f) \in Nat /\ Len(at) \in Nat
      BY <1>1, <2>1, Length
    <3>2. Len(f) <= Len(at) \/ Len(at) <= Len(f)
      BY <3>1
    <3> QED
      BY <1>1, <2>1, <3>2, PrefixOrder
  <2>3. ~Under(f, at)
    BY <1>1, <1>2, <1>6, StarNodes DEF f
  <2>4. CASE at = f
    <3>1. PICK k \in kids[at] : IsPrefix(k, R[i])
      BY <1>3, <2>1, <2>4
    <3>2. k = R[i]
      BY <1>2, <1>3, <1>6, <2>4, <3>1, StarNodes DEF f
    <3>3. k \in Children
      BY <2>1, <2>4, <3>1, <3>2 DEF Children
    <3> QED
      BY <1>6, <3>2, <3>3
  <2>5. CASE Under(at, f)
    <3>1. Under(at, R[i])
      BY <1>1, <1>2, <2>1, <2>5, Branches DEF Under
    <3>2. PICK k \in kids[at] : IsPrefix(k, R[i])
      BY <1>3, <3>1
    <3>3. k # R[i]
      BY <1>3, <1>6, <2>5, <3>2 DEF Under, f
    <3>4. IsPrefix(k, f)
      BY <1>2, <1>3, <3>2, <3>3, FrontParts DEF Under, f
    <3>5. IsPrefix(k, path)
      BY <1>1, <1>3, <2>1, <3>2, <3>4, PrefixOrder
    <3> QED
      BY <1>4, <3>2, <3>5
  <2> QED
    BY <2>2, <2>3, <2>4, <2>5 DEF Under
<1> QED
  BY <1>5, <1>6 DEF Matches

\* An answer that is what the table says, or is none of a handler, is one of the invariant.
LEMMA AnswersKeep ==
  ASSUME PathsAssumption, RoutingTypeOK, Requested,
         NEW from \in {"arrived", "lookup", "edge"}, NEW a \in Handlers \cup Refusals,
         Answers(from, a),
         late => a = Wanted(path, verb),
         a \in Handlers \cup {"preflight"} =>
           /\ chain = Stack
           /\ a = Wanted(path, verb) \/ (~late /\ a \in {"profiler", "warmup", "health"})
  PROVE  RequestTypes' /\ RequestInv' /\ UNCHANGED <<muxVars, mountVars>>
<1>1. /\ ~killed /\ muxPc = from /\ muxPc' = "answered" /\ answer' = a
      /\ UNCHANGED <<muxVars, mountVars, path, verb, late, chain, at, edge, rest, killed>>
  BY DEF Answers, RequestGoes
<1>2. mountPc' = mountPc /\ None # from
  BY <1>1 DEF mountVars, None
<1>3. RequestTypes'
  BY <1>1, TypesAreBoth DEF RequestTypes
<1>4. Requested'
  BY <1>1, <1>2 DEF Requested, None
<1>5. Wanted(path, verb)' = Wanted(path, verb)
  BY <1>1 DEF Wanted
<1>6. RoutedOnceMounted' /\ NeverAnotherRoute'
  BY <1>1, <1>5 DEF RoutedOnceMounted, NeverAnotherRoute
<1> QED
  BY <1>1, <1>3, <1>4, <1>6 DEF RequestInv

\* A step without an answer need but keep what is required of the request.
LEMMA GoesOnKeeps ==
  ASSUME PathsAssumption, RoutingTypeOK, Requested, RequestTypes', Requested',
         answer' = answer, answer = None, late' => ~killed'
  PROVE  RequestInv'
<1>1. None \notin Handlers \cup {"preflight"}
  BY Endpoints DEF None
<1> QED
  BY <1>1 DEF RequestInv, RoutedOnceMounted, NeverAnotherRoute

LEMMA ArriveKeeps ==
  ASSUME PathsAssumption, IInv, NEW p \in Paths, NEW v \in Verbs, Arrive(p, v)
  PROVE  RequestTypes' /\ RequestInv' /\ UNCHANGED <<muxVars, mountVars>>
<1>1. /\ ~killed /\ muxPc = None /\ muxPc' = "arrived" /\ path' = p /\ rest' = p /\ verb' = v
      /\ late' = (mountPc = "returned")
      /\ UNCHANGED <<muxVars, mountVars, chain, at, edge, answer, killed>>
  BY DEF Arrive
<1>2. RoutingTypeOK /\ Requested /\ mountPc' = mountPc
  BY <1>1 DEF IInv, TInv, RequestInv, mountVars
<1>3. p = SubSeq(p, 0 + 1, Len(p)) /\ 0 \in 0 .. Len(p)
  BY PathWords DEF Words
<1>4. RequestTypes'
  BY <1>1, <1>2, <1>3, TypesAreBoth DEF RequestTypes
<1>5. Requested' /\ answer = None
  BY <1>1, <1>2 DEF Requested, None
<1> QED
  BY <1>1, <1>2, <1>4, <1>5, GoesOnKeeps

\* The stack of middlewares is there when a request passes it.
LEMMA EnterKeeps ==
  ASSUME PathsAssumption, IInv, Enter
  PROVE  RequestTypes' /\ RequestInv' /\ UNCHANGED <<muxVars, mountVars>>
<1>1. /\ ~killed /\ muxPc = "arrived" /\ muxPc' = "lookup" /\ chain' = handler
      /\ handler \notin {NoHandler, Half}
      /\ UNCHANGED <<muxVars, mountVars, path, verb, late, at, edge, rest, answer, killed>>
  BY DEF Enter, RequestGoes
<1>2. RoutingTypeOK /\ Requested /\ mountPc' = mountPc /\ Linked' = Linked
  BY <1>1, MuxStays DEF IInv, TInv, RequestInv, mountVars
<1>3. chain' = Stack
  BY <1>1, <1>2 DEF RoutingTypeOK
<1>4. RequestTypes'
  BY <1>1, <1>2, <1>3, TypesAreBoth DEF RequestTypes
<1>5. at = Root /\ rest = path /\ path \in Words /\ answer = None
  BY <1>1, <1>2, RequestWords DEF Requested, None
<1>6. ~Starred(at) /\ IsPrefix(at, path) /\ rest = SubSeq(path, Len(at) + 1, Len(path))
  <2>1. SubSeq(path, 0 + 1, Len(path)) = path /\ Len(Root) = 0
    BY <1>5 DEF Words, Root
  <2> QED
    BY <1>5, <2>1, PrefixOrder DEF Starred
<1>7. OnPath'
  BY <1>1, <1>6 DEF OnPath
<1>8. late => at \in Linked
  BY <1>5 DEF Linked
<1>9. Requested'
  BY <1>1, <1>2, <1>3, <1>7, <1>8 DEF Requested, None
<1> QED
  BY <1>1, <1>2, <1>4, <1>5, <1>9, GoesOnKeeps

LEMMA FindEdgeKeeps ==
  ASSUME PathsAssumption, IInv, FindEdge
  PROVE  RequestTypes' /\ RequestInv' /\ UNCHANGED <<muxVars, mountVars>>
<1>1. /\ ~killed /\ muxPc = "lookup" /\ muxPc' = "edge" /\ edge' \in Children
      /\ UNCHANGED <<muxVars, mountVars, path, verb, late, chain, at, rest, answer, killed>>
  BY DEF FindEdge, RequestGoes
<1>2. RoutingTypeOK /\ Requested /\ Branching /\ mountPc' = mountPc /\ kids' = kids
  BY <1>1 DEF IInv, TInv, TreeInv, RequestInv, mountVars, muxVars
<1>3. at \in Nodes /\ edge' \in kids[at] /\ edge' \in Nodes
  BY <1>1, <1>2 DEF Children, RoutingTypeOK
<1>4. RequestTypes'
  BY <1>1, <1>2, <1>3, TypesAreBoth DEF RequestTypes
<1>5. Under(at, edge') /\ (Starred(edge') => at = Front(edge'))
  BY <1>2, <1>3 DEF Branching
<1>6. ASSUME ~Starred(edge') PROVE rest # <<>> /\ Branch(at, edge') = Head(rest)
  <2>1. edge' # Append(at, "*")
    <3>1. Append(at, "*") # Root /\ Last(Append(at, "*")) = "*"
      BY <1>2, RequestWords DEF Words, Last, Root
    <3> QED
      BY <1>6, <3>1 DEF Starred
  <2> QED
    BY <1>1, <2>1 DEF Children, Branch
<1>7. OnPath' = OnPath /\ Astray' = Astray
  BY <1>1 DEF OnPath, Astray
<1>8. Requested' /\ answer = None
  BY <1>1, <1>2, <1>3, <1>5, <1>6, <1>7 DEF Requested, None
<1> QED
  BY <1>1, <1>2, <1>4, <1>8, GoesOnKeeps DEF Requested

\* What the prefix of the child is read as.
LEMMA PrefixRead ==
  ASSUME PathsAssumption, TInv, TreeInv, Requested, muxPc = "edge"
  PROVE  /\ ~late /\ split = edge /\ mountPc = "shortening" /\ Prefix \in Words
            /\ IsPrefix(<<"/", "_ah/">>, edge) /\ ~Starred(edge)
         \/ /\ Prefix = Rest(edge, Len(at)) /\ Prefix \in Words
         \/ /\ Prefix = NoNode /\ ~late
<1>1. at \in Words /\ edge \in Words /\ Under(at, edge)
  BY RequestWords, NodesAreBeginnings DEF TInv, Requested
<1>2. CASE split = edge /\ mountPc = "shortening"
  <2>1. ~late /\ IsPrefix(<<"/", "_ah/">>, edge) /\ ~Starred(edge)
    BY <1>2 DEF TreeInv, Inserts, Splitting, Unlinked, Requested
  <2>2. <<"/", "_ah/">> \in Words /\ <<"/", "_ah">> \in Words
    BY DEF Words, Part
  <2>3. Prefix \in Words
    <3>1. TornPrefix(edge) \in Words
      BY <2>2 DEF TornPrefix
    <3>2. Prefix = TornPrefix(edge)
      BY <1>2 DEF Prefix
    <3> QED
      BY <3>1, <3>2
  <2> QED
    BY <1>2, <2>1, <2>3
<1>3. CASE ~(split = edge /\ mountPc = "shortening")
  <2>1. Prefix = Rest(edge, Len(at)) \/ Prefix = NoNode
    BY <1>3 DEF Prefix, Rest
  <2>2. late => Prefix = Rest(edge, Len(at))
    BY <1>3 DEF Prefix, Rest, Requested
  <2>3. Rest(edge, Len(at)) \in Words
    <3>1. Len(at) \in 0 .. Len(edge)
      BY <1>1, Length, PrefixOrder DEF Under
    <3> QED
      BY <1>1, <3>1, RestParts, Zenon
  <2> QED
    BY <2>1, <2>2, <2>3
<1> QED
  BY <1>2, <1>3

\* Down at the child the request is where its path has led it, or astray.
LEMMA DescendKeeps ==
  ASSUME PathsAssumption, IInv, Descend
  PROVE  RequestTypes' /\ RequestInv' /\ UNCHANGED <<muxVars, mountVars>>
<1>1. /\ ~killed /\ muxPc = "edge" /\ muxPc' = "lookup" /\ at' = edge /\ edge' = NoNode
      /\ UNCHANGED <<muxVars, mountVars, path, verb, late, chain, answer, killed>>
  BY DEF Descend, RequestGoes
<1>2. /\ TInv /\ TreeInv /\ RoutingTypeOK /\ MountConsistent /\ Requested
      /\ mountPc' = mountPc /\ Linked' = Linked
  BY <1>1, MuxStays DEF IInv, TInv, RequestInv, mountVars
<1>3. /\ edge \in Nodes /\ Under(at, edge) /\ edge # Root
      /\ IF Starred(edge) THEN at = Front(edge) ELSE rest # <<>> /\ Branch(at, edge) = Head(rest)
      /\ chain = Stack /\ (OnPath \/ Astray) /\ answer = None /\ path \in Paths
  <2>1. edge # Root
    <3>1. Root \in Words /\ at \in Words /\ Under(at, edge)
      BY <1>1, <1>2, RequestWords, NodesAreBeginnings DEF Requested
    <3> QED
      BY <3>1, PrefixOrder DEF Under
  <2> QED
    BY <1>1, <1>2, <2>1 DEF Requested, None
<1>4. /\ path \in Words /\ rest \in Words /\ at \in Words /\ at \in Nodes /\ edge \in Words
      /\ \A n \in 1 .. Len(rest) : rest[n] # "*"
  BY <1>2, <1>3, RequestWords, NodesAreBeginnings
<1>5. PICK n \in 0 .. Len(path) : rest = Rest(path, n)
  BY <1>2 DEF RoutingTypeOK, Rest
<1>6. \/ Last(edge) = "*" /\ rest' = <<>>
      \/ Prefix \in Words /\ IsPrefix(Prefix, rest) /\ rest' = Rest(rest, Len(Prefix))
  BY <1>1, <1>2, <1>4, PrefixRead, NoNodeIsNone DEF Descend, Rest
<1>7. \E m \in 0 .. Len(path) : rest' = SubSeq(path, m + 1, Len(path))
  <2>1. CASE rest' = <<>>
    <3>1. Len(path) \in 0 .. Len(path) /\ Rest(path, Len(path)) = <<>>
      BY <1>4, Length, RestParts
    <3> QED
      BY <2>1, <3>1 DEF Rest
  <2>2. CASE Prefix \in Words /\ IsPrefix(Prefix, rest) /\ rest' = Rest(rest, Len(Prefix))
    <3>1. Len(Prefix) \in 0 .. Len(path) - n
      BY <1>4, <1>5, <2>2, Length, PrefixOrder, RestParts
    <3>2. n + Len(Prefix) \in 0 .. Len(path) /\ rest' = Rest(path, n + Len(Prefix))
      BY <1>4, <1>5, <2>2, <3>1, RestOfRest
    <3> QED
      BY <3>2 DEF Rest
  <2> QED
    BY <1>6, <2>1, <2>2
<1>8. RequestTypes'
  BY <1>1, <1>2, <1>3, <1>7, TypesAreBoth DEF RequestTypes
<1>9. OnPath' \/ Astray'
  <2>1. CASE Astray
    <3>1. <<"/", "_ah/">> \in Words
      BY DEF Words, Part
    <3>2. IsPrefix(<<"/", "_ah/">>, edge)
      BY <1>3, <1>4, <2>1, <3>1, PrefixOrder DEF Astray, Under
    <3> QED
      BY <1>1, <2>1, <3>2 DEF Astray
  <2>2. CASE OnPath /\ Starred(edge)
    <3>1. ~Starred(at)
      BY <1>3, <1>4, StarNodes
    <3>2. IsPrefix(Front(edge), path) /\ rest = Rest(path, Len(at))
      BY <1>3, <2>2, <3>1 DEF OnPath, Rest
    <3>3. ASSUME Prefix \in Words, IsPrefix(Prefix, rest), Prefix = Rest(edge, Len(at)) PROVE FALSE
      <4>1. Len(at) \in 0 .. Len(edge) /\ Len(at) \in Nat /\ Len(edge) = Len(at) + 1
        BY <1>3, <1>4, <2>2, Length, FrontParts
      <4>2. /\ Len(Prefix) = Len(edge) - Len(at)
            /\ \A i \in 1 .. Len(edge) - Len(at) : Prefix[i] = edge[Len(at) + i]
        BY <1>4, <3>3, <4>1, RestParts, Zenon
      <4>3. \A a, e \in Nat : e = a + 1 => e - a = 1 /\ 1 \in 1 .. e - a
        OBVIOUS
      <4>4. Len(Prefix) = 1 /\ Prefix[1] = edge[Len(edge)]
        BY <1>4, <4>1, <4>2, <4>3, Length, Zenon
      <4>5. Len(Prefix) <= Len(rest) /\ \A i \in 1 .. Len(Prefix) : Prefix[i] = rest[i]
        BY <1>4, <3>3, PrefixParts
      <4>6. rest[1] = edge[Len(edge)] /\ 1 \in 1 .. Len(rest)
        BY <1>4, <4>4, <4>5, Length
      <4> QED
        BY <1>4, <2>2, <4>6 DEF Starred, Last
    <3>4. rest' = <<>>
      BY <1>1, <1>2, <1>4, <1>6, <2>2, <3>3, PrefixRead, NoNodeIsNone
    <3> QED
      BY <1>1, <2>2, <3>2, <3>4 DEF OnPath
  <2>3. CASE OnPath /\ ~Starred(edge)
    <3>1. ~Starred(at)
      BY <1>3, <1>4, StarNodes
    <3>2. IsPrefix(at, path) /\ rest = Rest(path, Len(at))
      BY <2>3, <3>1 DEF OnPath, Rest
    <3>3. Last(edge) # "*"
      BY <1>3, <2>3 DEF Starred
    <3>4. CASE Prefix = Rest(edge, Len(at))
      <4>1. IsPrefix(edge, path) /\ rest' = Rest(path, Len(edge))
        BY <1>3, <1>4, <1>6, <3>2, <3>3, <3>4, PrefixOfRest
      <4> QED
        BY <1>1, <2>3, <4>1 DEF OnPath, Rest
    <3>5. CASE ~late /\ IsPrefix(<<"/", "_ah/">>, edge)
      BY <1>1, <3>5 DEF Astray
    <3>6. Prefix # NoNode
      BY <1>4, <1>6, <3>3, NoNodeIsNone
    <3> QED
      BY <1>1, <1>2, <3>4, <3>5, <3>6, PrefixRead
  <2> QED
    BY <1>3, <2>1, <2>2, <2>3
<1>10. late => edge \in Linked
  BY <1>1, <1>2, <1>4, LinkedNodes DEF TreeInv, Requested
<1>11. Requested'
  BY <1>1, <1>2, <1>3, <1>9, <1>10 DEF Requested, None
<1> QED
  BY <1>1, <1>2, <1>3, <1>8, <1>11, GoesOnKeeps DEF Requested

\* A request that finds no way on has a path that no route matches, once all are there.
LEMMA NotFoundKeeps ==
  ASSUME PathsAssumption, IInv, NotFound
  PROVE  RequestTypes' /\ RequestInv' /\ UNCHANGED <<muxVars, mountVars>>
<1>1. /\ ~Leaf /\ (Children = {} \/ torn = at) /\ Answers("lookup", "notfound") /\ muxPc = "lookup"
      /\ TInv /\ TreeInv /\ RoutingTypeOK /\ Requested
  BY DEF NotFound, Answers, RequestGoes, IInv, TInv, RequestInv
<1>2. "notfound" \in Refusals /\ "notfound" \notin Handlers \cup {"preflight"}
  BY Endpoints DEF Refusals
<1>3. ASSUME late PROVE Wanted(path, verb) = "notfound"
  <2>1. /\ mountPc = "returned" /\ at \in Linked /\ OnPath /\ path \in Words /\ at \in Nodes
        /\ torn = NoNode /\ ends = {R[i] : i \in 1 .. 7}
    BY <1>1, <1>3, OnceMounted, RequestWords DEF Requested, Astray
  <2>2. Children = {}
    BY <1>1, <2>1, NoNodeIsNone
  <2>3. \A i \in 1 .. 7 : at = R[i] => rest # <<>>
    BY <1>1, <2>1, NodesAreBeginnings DEF Leaf
  <2>4. ~Starred(at)
    <3>1. Starred(at) => rest = <<>> /\ \E i \in {3, 7} : at = R[i]
      BY <2>1, StarNodes DEF OnPath
    <3> QED
      BY <2>3, <3>1
  <2>5. \A i \in 1 .. 7 : ~Matches(i, path)
    BY <1>1, <2>1, <2>2, <2>3, <2>4, WayDown
  <2> QED
    BY <2>1, <2>5, WantedIs
<1> QED
  BY <1>1, <1>2, <1>3, AnswersKeep

LEMMA OtherPrefixKeeps ==
  ASSUME PathsAssumption, IInv, OtherPrefix
  PROVE  RequestTypes' /\ RequestInv' /\ UNCHANGED <<muxVars, mountVars>>
<1>1. /\ Last(edge) # "*" /\ ~IsPrefix(Prefix, rest) /\ Answers("edge", "notfound")
         /\ muxPc = "edge"
      /\ TInv /\ TreeInv /\ RoutingTypeOK /\ Requested
  BY DEF OtherPrefix, Answers, RequestGoes, IInv, TInv, RequestInv
<1>2. "notfound" \in Refusals /\ "notfound" \notin Handlers \cup {"preflight"}
  BY Endpoints DEF Refusals
<1>3. ASSUME late PROVE Wanted(path, verb) = "notfound"
  <2>1. /\ mountPc = "returned" /\ OnPath /\ path \in Words /\ at \in Nodes /\ at \in Words
        /\ edge \in Nodes /\ edge \in Words /\ edge \in kids[at] /\ Under(at, edge)
           /\ ~Starred(edge)
        /\ rest # <<>> /\ Branch(at, edge) = Head(rest)
    BY <1>1, <1>3, RequestWords, NodesAreBeginnings DEF Requested, Astray, Starred
  <2>2. at \in Linked /\ ~Starred(at)
    BY <1>1, <2>1, LinkedNodes, StarNodes DEF TInv, TreeInv
  <2>3. IsPrefix(at, path) /\ rest = Rest(path, Len(at))
    BY <2>1, <2>2 DEF OnPath, Rest
  <2>4. ~IsPrefix(edge, path)
    <3>1. Prefix = Rest(edge, Len(at))
      BY <1>1, <1>3, PrefixRead
    <3> QED
      BY <1>1, <2>1, <2>3, <3>1, PrefixOfRest
  <2>5. ASSUME NEW i \in 1 .. 7, Matches(i, path) PROVE FALSE
    <3>1. PICK k \in Children : IsPrefix(k, path) \/ (Starred(k) /\ k = R[i])
      BY <1>1, <2>1, <2>2, <2>5, WayDown
    <3>2. k \in kids[at] /\ k \in Nodes /\ k \in Words /\ Under(at, k)
          /\ (Starred(k) => at = Front(k))
      BY <1>1, <2>1, <3>1, LinkedNodes, NodesAreBeginnings
         DEF Children, TInv, TreeInv, Branching
    <3>3. CASE IsPrefix(k, path)
      <4>1. Branch(at, k) = Branch(at, edge)
        BY <2>1, <2>3, <3>2, <3>3, PrefixOfRest
      <4>2. k = edge
        BY <1>1, <2>1, <3>2, <4>1 DEF TreeInv, Branching
      <4> QED
        BY <2>4, <3>3, <4>2
    <3>4. CASE Starred(k)
      BY <2>1, <3>2, <3>4, StarNodes
    <3> QED
      BY <3>1, <3>3, <3>4
  <2> QED
    BY <2>1, <2>5, WantedIs
<1> QED
  BY <1>1, <1>2, <1>3, AnswersKeep

\* A node that decides is the end of a route that matches the path, but for one astray.
LEMMA LeafMatches ==
  ASSUME PathsAssumption, TInv, Requested, muxPc = "lookup", Leaf, OnPath,
         NEW i \in 1 .. 7, R[i] = at
  PROVE  Matches(i, path)
<1>1. rest = <<>> /\ path \in Words /\ at \in Words
  BY RequestWords DEF Leaf, TInv
<1>2. CASE Starred(at)
  BY <1>2 DEF OnPath, Matches
<1>3. CASE ~Starred(at)
  <2>1. IsPrefix(at, path) /\ rest = Rest(path, Len(at))
    BY <1>3 DEF OnPath, Rest
  <2>2. Len(at) \in 0 .. Len(path)
    BY <1>1, <2>1, PrefixOrder, Length
  <2>3. Len(at) = Len(path)
    BY <1>1, <2>1, <2>2, RestParts
  <2> QED
    BY <1>1, <2>1, <2>3, PrefixOrder DEF Matches
<1> QED
  BY <1>2, <1>3

\* The endpoint that is found is the one that is wanted, or one below /_ah/.
LEMMA FoundKeeps ==
  ASSUME PathsAssumption, IInv, Found
  PROVE  RequestTypes' /\ RequestInv' /\ UNCHANGED <<muxVars, mountVars>>
<1>1. /\ Leaf /\ Takes(verb) /\ muxPc = "lookup"
      /\ TInv /\ TreeInv /\ RoutingTypeOK /\ Requested
  BY DEF Found, Answers, RequestGoes, IInv, TInv, RequestInv
<1>2. PICK i \in 1 .. 7 : R[i] = at /\ Answers("lookup", Endpoint(i, verb))
  BY Table DEF Found, R, Endpoint
<1>3. Endpoint(i, verb) \in Handlers \cup Refusals
  BY Endpoints DEF Endpoint, Refusals
<1>4. chain = Stack /\ (OnPath \/ Astray) /\ path \in Words
  BY <1>1, RequestWords DEF Requested
<1>5. ASSUME OnPath PROVE Endpoint(i, verb) = Wanted(path, verb)
  <2>1. Matches(i, path)
    BY <1>1, <1>2, <1>5, LeafMatches
  <2>2. PICK j \in 1 .. 7 : R[j] = at /\ verb \in Routes[j].verbs
    BY <1>1, Table DEF Takes, R
  <2>3. Matches(j, path)
    BY <1>1, <1>5, <2>2, LeafMatches
  <2>4. i = j \/ (i \in 1 .. 3 /\ j \in 1 .. 3)
    BY <1>4, <2>1, <2>3, OneMatches
  <2>5. verb \in Routes[i].verbs
    BY <2>2, <2>4, Endpoints
  <2> QED
    BY <1>4, <2>1, <2>5, WantedIs
<1>6. ASSUME Astray PROVE ~late /\ Endpoint(i, verb) \in {"profiler", "warmup", "health"}
  <2>1. R[i][2] = "_ah/"
    <3>1. <<"/", "_ah/">> \in Words /\ at \in Words /\ Len(<<"/", "_ah/">>) = 2
          /\ <<"/", "_ah/">>[2] = "_ah/"
      BY <1>1, RequestWords DEF Words, Part
    <3>2. IsPrefix(<<"/", "_ah/">>, at)
      BY <1>6 DEF Astray
    <3> QED
      BY <1>2, <3>1, <3>2, PrefixParts
  <2>2. i \in 1 .. 5
    BY <2>1, PartsOfRoutes
  <2> QED
    BY <1>6, <2>2, Endpoints DEF Endpoint, Astray
<1> QED
  BY <1>1, <1>2, <1>3, <1>4, <1>5, <1>6, AnswersKeep DEF Astray

LEMMA NotAllowedKeeps ==
  ASSUME PathsAssumption, IInv, NotAllowed
  PROVE  RequestTypes' /\ RequestInv' /\ UNCHANGED <<muxVars, mountVars>>
<1>1. /\ Leaf /\ (~Takes(verb) \/ at = writing) /\ muxPc = "lookup"
         /\ Answers("lookup", "notallowed")
      /\ TInv /\ TreeInv /\ RoutingTypeOK /\ Requested
  BY DEF NotAllowed, Answers, RequestGoes, IInv, TInv, RequestInv
<1>2. "notallowed" \in Refusals /\ "notallowed" \notin Handlers \cup {"preflight"}
  BY Endpoints DEF Refusals
<1>3. ASSUME late PROVE Wanted(path, verb) = "notallowed"
  <2>1. /\ mountPc = "returned" /\ OnPath /\ path \in Words /\ at \in Nodes
        /\ writing = NoNode /\ ends = {R[i] : i \in 1 .. 7}
    BY <1>1, <1>3, OnceMounted, RequestWords DEF Requested, Astray
  <2>2. ~Takes(verb) /\ at \in ends
    BY <1>1, <2>1, NoNodeIsNone DEF Leaf
  <2>3. PICK i \in 1 .. 7 : R[i] = at
    BY <2>1, <2>2
  <2>4. verb \notin Routes[i].verbs
    BY <2>2, <2>3, Table, Endpoints DEF Takes
  <2>5. Matches(i, path)
    BY <1>1, <2>1, <2>3, LeafMatches
  <2> QED
    BY <2>1, <2>4, <2>5, WantedIs
<1> QED
  BY <1>1, <1>2, <1>3, AnswersKeep

\* What only a mux that is being mounted does to a request.
LEMMA RacesKeep ==
  ASSUME PathsAssumption, IInv,
         NoHandlerYet \/ HalfAHandler \/ NilChild \/ ConcurrentMapAccess \/ OtherMapAccess
  PROVE  RequestTypes' /\ RequestInv' /\ UNCHANGED <<muxVars, mountVars>>
<1>1. TInv /\ TreeInv /\ RoutingTypeOK /\ Requested /\ RequestInv
  BY DEF IInv, TInv, RequestInv
<1>2. ~late
  <2>1. ASSUME late
        PROVE  handler \notin {NoHandler, Half} /\ torn # at /\ writing # at /\ writing = NoNode
    <3>1. mountPc = "returned" /\ at \in Nodes
      BY <1>1, <2>1, RequestWords DEF Requested
    <3> QED
      BY <1>1, <3>1, OnceMounted, NoNodeIsNone
  <2> QED
    BY <2>1 DEF NoHandlerYet, HalfAHandler, NilChild, ConcurrentMapAccess, OtherMapAccess
<1>3. \A a \in {"notfound", "aborted", "recovered"} : a \in Refusals
      /\ a \notin Handlers \cup {"preflight"}
  BY Endpoints DEF Refusals
<1>4. ASSUME NEW from \in {"arrived", "lookup"}, NEW a \in {"notfound", "aborted", "recovered"},
             Answers(from, a)
      PROVE  RequestTypes' /\ RequestInv' /\ UNCHANGED <<muxVars, mountVars>>
  BY <1>1, <1>2, <1>3, <1>4, AnswersKeep
<1>5. CASE NoHandlerYet \/ HalfAHandler \/ NilChild
  BY <1>4, <1>5 DEF NoHandlerYet, HalfAHandler, NilChild
<1>6. CASE ConcurrentMapAccess \/ OtherMapAccess
  <2>1. UNCHANGED <<muxVars, mountVars, requestVars>> /\ killed' = TRUE
    BY <1>6 DEF ConcurrentMapAccess, OtherMapAccess, RequestGoes, requestVars
  <2>2. RequestTypes'
    BY <1>1, <2>1, TypesAreBoth DEF RequestTypes, requestVars
  <2>3. Wanted(path, verb)' = Wanted(path, verb)
    BY <2>1 DEF Wanted, requestVars
  <2>4. OnPath' = OnPath /\ Astray' = Astray
    BY <2>1 DEF OnPath, Astray, requestVars
  <2>5. Requested'
    BY <1>1, <1>2, <2>1, <2>4 DEF Requested, requestVars
  <2>6. RoutedOnceMounted' /\ NeverAnotherRoute'
    BY <1>1, <1>2, <2>1, <2>3 DEF RequestInv, RoutedOnceMounted, NeverAnotherRoute,
       requestVars
  <2> QED
    BY <2>1, <2>2, <2>5, <2>6 DEF RequestInv
<1> QED
  BY <1>5, <1>6

\* While Mount goes on, no request is one that came after it.
LEMMA MountKeepsRequest ==
  ASSUME PathsAssumption, IInv, Mounting
  PROVE  RequestInv'
<1>1. Requested /\ RoutedOnceMounted /\ NeverAnotherRoute
  BY DEF IInv, RequestInv
<1>2. UNCHANGED <<requestVars, killed>> /\ mountPc # "returned"
  BY DEF Mounting, MountGoes, Use, BuildHandler, StoreHandler, InsertRoute, MountReturns,
     Follow,
         Shorten, Unlink, Label, Restore, Restored, AddChild, SetEndpoint, Registered
<1>3. ~late
  BY <1>1, <1>2 DEF Requested
<1>4. Wanted(path, verb)' = Wanted(path, verb) /\ OnPath' = OnPath /\ Astray' = Astray
  BY <1>2 DEF Wanted, OnPath, Astray, requestVars
<1>5. Requested'
  BY <1>1, <1>2, <1>3, <1>4 DEF Requested, requestVars
<1>6. RoutedOnceMounted' /\ NeverAnotherRoute'
  BY <1>1, <1>2, <1>3, <1>4 DEF RoutedOnceMounted, NeverAnotherRoute, requestVars
<1> QED
  BY <1>5, <1>6 DEF RequestInv
-----------------------------------------------------------------------------
(* The invariant.                                                          *)

LEMMA InitEstablishes ==
  ASSUME PathsAssumption, Init
  PROVE  IInv
<1> USE DEF Init
<1>1. Root \in Nodes /\ NoNode # Root
  BY NodesAreBeginnings, NoNodeIsNone
<1>2. MuxTypes
  BY <1>1, Table DEF MuxTypes
<1>3. RequestTypes
  <2>1. 0 \in 0 .. Len(Root) /\ Root = SubSeq(Root, 0 + 1, Len(Root))
    BY DEF Root
  <2> QED
    BY <1>1, <2>1 DEF RequestTypes, Verbs
<1>4. MountConsistent
  <2>1. middlewares = SubSeq(Stack, 1, Len(middlewares)) /\ Len(middlewares) < Len(Stack)
    BY DEF Stack
  <2>2. ends = {R[i] : i \in 1 .. done}
    BY DEF R
  <2> QED
    BY <2>1, <2>2 DEF MountConsistent, Inserting, Splitting, Unlinked
<1>5. Linked = {Root}
  BY DEF Linked
<1>6. Branching
  BY DEF Branching
<1>7. OnTheWay
  BY <1>5 DEF OnTheWay
<1>8. Covers
  BY <1>5 DEF Covers, Under
<1>9. Inserts
  BY DEF Inserts, Splitting, Unlinked
<1>10. RequestInv
  BY Endpoints DEF RequestInv, Requested, RoutedOnceMounted, NeverAnotherRoute, None
<1> QED
  BY <1>2, <1>3, <1>4, <1>6, <1>7, <1>8, <1>9, <1>10, TypesAreBoth DEF IInv, TInv, TreeInv

LEMMA StepKeeps ==
  ASSUME PathsAssumption, IInv, [Next]_vars
  PROVE  IInv'
<1>1. RoutingTypeOK /\ MountConsistent /\ TreeInv
  BY DEF IInv, TInv
<1>2. CASE Mounting
  BY <1>1, <1>2, MountKeepsTypes, MountKeepsControl, MountKeepsTree, MountKeepsRequest
     DEF IInv, TInv
<1>3. ASSUME RequestTypes', RequestInv', UNCHANGED <<muxVars, mountVars>> PROVE IInv'
  <2>1. MuxTypes' /\ MountConsistent' /\ TreeInv'
    BY <1>1, <1>3, MuxStays
  <2>2. RoutingTypeOK'
    BY <1>3, <2>1 DEF RoutingTypeOK, MuxTypes, RequestTypes
  <2> QED
    BY <1>3, <2>1, <2>2 DEF IInv, TInv
<1>4. CASE \E p \in Paths, v \in Verbs : Arrive(p, v)
  BY <1>3, <1>4, ArriveKeeps
<1>5. CASE Serving \/ OtherMapAccess
  BY <1>3, <1>5, EnterKeeps, FindEdgeKeeps, DescendKeeps, NotFoundKeeps, OtherPrefixKeeps,
     FoundKeeps, NotAllowedKeeps, RacesKeep DEF Serving
<1>6. CASE UNCHANGED vars
  <2>1. UNCHANGED <<muxVars, mountVars, requestVars, killed>>
    BY <1>6 DEF vars
  <2>2. RequestTypes'
    BY <1>1, <2>1, TypesAreBoth DEF RequestTypes, requestVars
  <2>3. Wanted(path, verb)' = Wanted(path, verb) /\ OnPath' = OnPath /\ Astray' = Astray
    BY <2>1 DEF Wanted, OnPath, Astray, requestVars
  <2>4. Requested'
    BY <2>1, <2>3 DEF IInv, RequestInv, Requested, requestVars, muxVars, mountVars, Linked
  <2>5. RoutedOnceMounted' /\ NeverAnotherRoute'
    BY <2>1, <2>3 DEF IInv, RequestInv, RoutedOnceMounted, NeverAnotherRoute, requestVars
  <2> QED
    BY <1>3, <2>1, <2>2, <2>4, <2>5 DEF RequestInv
<1> QED
  BY <1>2, <1>4, <1>5, <1>6 DEF Next

THEOREM Invariance ==
  ASSUME PathsAssumption
  PROVE  Spec => []IInv
BY InitEstablishes, StepKeeps, PTL DEF Spec

\* Every variable of the mux keeps its type, whatever Mount and the request do.
THEOREM TypeCorrect ==
  ASSUME PathsAssumption
  PROVE  Spec => []RoutingTypeOK
<1>1. IInv => RoutingTypeOK
  BY DEF IInv, TInv
<1> QED
  BY <1>1, Invariance, PTL

\* However long its path, a request that comes after Mount gets what the table of routes
\* says of it: no split of the radix tree loses a route, or makes one.
THEOREM RoutesAreKept ==
  ASSUME PathsAssumption
  PROVE  Spec => []RoutedOnceMounted
<1>1. IInv => RoutedOnceMounted
  BY DEF IInv, RequestInv
<1> QED
  BY <1>1, Invariance, PTL

\* Whenever it comes, no request gets to a handler without the whole stack of middlewares
\* before it, or to the stream or the RPC server by another route than its own.
THEOREM RoutesAreOwn ==
  ASSUME PathsAssumption
  PROVE  Spec => []NeverAnotherRoute
<1>1. IInv => NeverAnotherRoute
  BY DEF IInv, RequestInv
<1> QED
  BY <1>1, Invariance, PTL

\* From any node of the tree there is a way down to every route that it is a prefix of, in
\* the midst of a split too, but for the way to the node that is unlinked.
THEOREM TreeCovers ==
  ASSUME PathsAssumption
  PROVE  Spec => []TreeInv
<1>1. IInv => TreeInv
  BY DEF IInv
<1> QED
  BY <1>1, Invariance, PTL
=============================================================================
