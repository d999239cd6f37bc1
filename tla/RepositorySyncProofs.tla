------------------------- MODULE RepositorySyncProofs -------------------------
(***************************************************************************)
(* The backfill for any number of tasks, items and pages, any page length  *)
(* and any interleaving with changes on GitHub and with webhooks: what a   *)
(* success vouches for, what the status tells, and the time of the first   *)
(* review.                                                                 *)
(***************************************************************************)
EXTENDS RepositorySync, FiniteSetTheorems, SequenceTheorems, WellFoundedInduction, TLAPS

-----------------------------------------------------------------------------
(* Operators. *)

(* The five resources, by name. *)
LEMMA ResourceNames ==
    /\ Len(Order) = 5
    /\ Resources = {"branches", "commits", "pull_requests", "workflows", "workflow_runs"}
    /\ \A k \in 1..5 : Order[k] \in Resources
<1>1. Len(Order) = 5
    BY DEF Order
<1>2. \A k \in 1..5 : k = 1 \/ k = 2 \/ k = 3 \/ k = 4 \/ k = 5
    OBVIOUS
<1>3. /\ Order[1] = "branches" /\ Order[2] = "commits" /\ Order[3] = "pull_requests"
      /\ Order[4] = "workflows" /\ Order[5] = "workflow_runs"
    BY DEF Order
<1>4. Resources = {Order[k] : k \in 1..5}
    BY <1>1 DEF Resources
<1>5. Resources = {Order[1], Order[2], Order[3], Order[4], Order[5]}
    BY <1>2, <1>4
<1> QED BY <1>1, <1>3, <1>4, <1>5

(* A set of numbers that is not empty has a least one. *)
LEMMA LeastExists ==
    ASSUME NEW T, T \subseteq Nat, T # {}
    PROVE  \E x \in T : \A y \in T : x <= y
<1> DEFINE R == {ss \in Nat \X Nat : ss[1] < ss[2]}
<1>1. R = OpToRel(<, Nat)
    BY DEF OpToRel
<1>2. IsWellFoundedOn(R, Nat)
    BY <1>1, NatLessThanWellFounded
<1> HIDE DEF R
<1>3. PICK x \in T : \A y \in T : ~(<<y, x>> \in R)
    BY <1>2, WFMin
<1>4. \A y \in T : ~(y < x)
    BY <1>3 DEF R
<1> QED BY <1>3, <1>4

(* A new item is one that was not there before. *)
LEMMA NewestIsUnborn ==
    ASSUME NEW r, Unborn(r) # {}
    PROVE  Newest(r) \in Ids /\ ~(ver[r][Newest(r)] > 0)
<1>1. Unborn(r) \subseteq Nat
    BY DEF Unborn, Ids
<1>2. \E x \in Unborn(r) : \A y \in Unborn(r) : x <= y
    BY <1>1, LeastExists
<1>3. Newest(r) \in Unborn(r)
    BY <1>2 DEF Newest
<1> QED BY <1>3 DEF Unborn

(* first_review_at of the client returns the time of a review, or none. *)
LEMMA EarliestIsReal ==
    ASSUME NEW i, reviews[i] \subseteq Nat
    PROVE  EarliestReview(i) \in {0} \cup reviews[i]
<1>1. CASE reviews[i] = {}
    BY <1>1 DEF EarliestReview
<1>2. CASE reviews[i] # {}
  <2>1. \E t \in reviews[i] : \A u \in reviews[i] : t <= u
    BY <1>2, LeastExists
  <2> QED BY <1>2, <2>1 DEF EarliestReview
<1> QED BY <1>1, <1>2

(* Where the pages begin. *)
LEMMA PageBounds ==
    ASSUME NEW n \in Nat \ {0}
    PROVE  /\ (n - 1) * PerPage \in Nat /\ n * PerPage \in Nat
           /\ n * PerPage = (n - 1) * PerPage + PerPage
           /\ ((n + 1) - 1) * PerPage = n * PerPage
           /\ PerPage \in Nat \ {0} /\ (1 - 1) * PerPage = 0
    BY SyncConstants

(* What is on a page: the items at its places, with their versions. *)
LEMMA PageFacts ==
    ASSUME NEW r \in Resources, NEW n \in Nat \ {0}, github[r] \in Seq(Ids), ver[r] \in [Ids -> Nat]
    PROVE  /\ PageOf(r, n) \in Seq(Ids \X Nat)
           /\ \A k \in 1..Len(PageOf(r, n)) :
                /\ (n - 1) * PerPage + k \in 1..Len(github[r])
                /\ PageOf(r, n)[k] = <<github[r][(n - 1) * PerPage + k], ver[r][github[r][(n - 1) * PerPage + k]]>>
           /\ \A j \in 1..Len(github[r]) : (n - 1) * PerPage < j /\ j <= n * PerPage =>
                j - (n - 1) * PerPage \in 1..Len(PageOf(r, n))
<1> DEFINE a == (n - 1) * PerPage
           b == n * PerPage
           g == github[r]
           e == Low(b, Len(g))
           ids == SubSeq(g, a + 1, e)
<1>1. a \in Nat /\ b \in Nat /\ b = a + PerPage /\ PerPage \in Nat \ {0}
    BY PageBounds
<1>2. Len(g) \in Nat /\ g \in Seq(Ids)
    OBVIOUS
<1>3. PageOf(r, n) = [k \in 1..Len(ids) |-> <<ids[k], ver[r][ids[k]]>>]
    BY DEF PageOf
<1> HIDE DEF a, b, g
<1>4. e \in Nat /\ e <= Len(g) /\ e <= b /\ (e = Len(g) \/ e = b)
    BY <1>1, <1>2 DEF Low
<1> HIDE DEF e
<1>5. ids = [k \in 1..(e - a) |-> g[a + k]]
    BY <1>1, <1>2, <1>4
<1>6. Len(ids) = IF a <= e THEN e - a ELSE 0
    BY <1>1, <1>4, <1>5
<1>7. \A k \in 1..Len(ids) : a + k \in 1..Len(g) /\ ids[k] = g[a + k]
    BY <1>1, <1>2, <1>4, <1>5, <1>6
<1>8. Len(ids) \in Nat
    BY <1>1, <1>4, <1>6
<1>9. \A j \in 1..Len(g) : a < j /\ j <= b => j - a \in 1..Len(ids)
    BY <1>1, <1>2, <1>4, <1>6
<1> HIDE DEF ids
<1>10. \A k \in 1..Len(ids) : ids[k] \in Ids
    BY <1>2, <1>7
<1>11. PageOf(r, n) \in Seq(Ids \X Nat) /\ Len(PageOf(r, n)) = Len(ids)
    BY <1>3, <1>8, <1>10 DEF g
<1>12. \A k \in 1..Len(ids) : PageOf(r, n)[k] = <<g[a + k], ver[r][g[a + k]]>>
    BY <1>3, <1>7
<1> QED BY <1>7, <1>9, <1>11, <1>12 DEF a, b, g

-----------------------------------------------------------------------------
(* GitHub's lists. *)

(* A list names an item once, and only items that exist. *)
Listing(r) ==
    /\ github[r] \in Seq(Ids) /\ ver[r] \in [Ids -> Nat]
    /\ \A j, k \in 1..Len(github[r]) : github[r][j] = github[r][k] => j = k
    /\ \A k \in 1..Len(github[r]) : ver[r][github[r][k]] > 0

(* What a step may do to a list: items go to a later place, or are known   *)
(* to have moved up; and the first page of a list with the newest first    *)
(* never becomes what it has been before.                                  *)
Moves(r) ==
    /\ \A i \in Ids : ver[r][i] <= ver'[r][i]
    /\ movedUp[r] \subseteq movedUp'[r]
    /\ \A k \in 1..Len(github[r]) :
          \/ github[r][k] \in movedUp'[r]
          \/ \E j \in 1..Len(github'[r]) : j >= k /\ github'[r][j] = github[r][k]
    /\ r \in NewestFirst =>
          \/ github'[r] = github[r] /\ ver'[r] = ver[r]
          \/ Len(github'[r]) > 0 /\ ver'[r][github'[r][1]] > ver[r][github'[r][1]]

(* All reviews that were submitted. *)
Submitted == UNION {{<<i, t>> : t \in reviews[i]} : i \in Ids}

(* A delivery tells of what has happened. *)
Sent(m) ==
    /\ m \in Message /\ m.ver > 0
    /\ m.kind = "delete" => m.item \in movedUp["branches"]
    /\ m.kind = "review" => m.ref \in reviews[m.item]

HubInv ==
    /\ github \in [Resources -> Seq(Ids)] /\ ver \in [Resources -> [Ids -> Nat]]
    /\ movedUp \in [Resources -> SUBSET Ids]
    /\ \A r \in Resources : Listing(r)
    /\ reviews \in [Ids -> SUBSET (Nat \ {0})] /\ IsFiniteSet(Submitted)
    /\ \A m \in deliveries : Sent(m)

Onward == HubInv' /\ (\A r \in Resources : Moves(r)) /\ \A i \in Ids : reviews[i] \subseteq reviews'[i]

(* Where an item is. *)
LEMMA PlaceFacts ==
    ASSUME NEW r, Listing(r), NEW i \in Listed(r)
    PROVE  /\ i \in Ids /\ Place(r, i) \in 1..Len(github[r]) /\ github[r][Place(r, i)] = i
           /\ \A k \in 1..Len(github[r]) : github[r][k] = i => k = Place(r, i)
<1>1. \E k \in 1..Len(github[r]) : github[r][k] = i
    BY DEF Listed
<1>2. Place(r, i) \in 1..Len(github[r]) /\ github[r][Place(r, i)] = i
    BY <1>1 DEF Place
<1> QED BY <1>2 DEF Listing

(* A list without one of its items. *)
LEMMA WithoutFacts ==
    ASSUME NEW r, Listing(r), NEW i \in Listed(r)
    PROVE  LET h == Without(r, i)
               p == Place(r, i) IN
           /\ h \in Seq(Ids) /\ Len(h) = Len(github[r]) - 1 /\ Len(github[r]) >= 1
           /\ \A k \in 1..Len(h) : h[k] = github[r][IF k < p THEN k ELSE k + 1] /\ h[k] # i
           /\ \A j, k \in 1..Len(h) : h[j] = h[k] => j = k
<1> DEFINE g == github[r]
           p == Place(r, i)
           h == Without(r, i)
<1>1. p \in 1..Len(g) /\ g[p] = i /\ \A k \in 1..Len(g) : g[k] = i => k = p
    BY PlaceFacts
<1>2. /\ g \in Seq(Ids) /\ Len(g) \in Nat
      /\ \A j, k \in 1..Len(g) : g[j] = g[k] => j = k
    BY DEF Listing
<1>3. h = [k \in 1..(Len(g) - 1) |-> g[IF k < p THEN k ELSE k + 1]]
    BY DEF Without
<1> HIDE DEF g, p, h
<1>4. \A k \in 1..(Len(g) - 1) : (IF k < p THEN k ELSE k + 1) \in 1..Len(g) \ {p}
    BY <1>1, <1>2
<1>5. Len(g) - 1 \in Nat
    BY <1>1, <1>2
<1>6. \A k \in 1..(Len(g) - 1) : h[k] = g[IF k < p THEN k ELSE k + 1] /\ h[k] \in Ids
    BY <1>2, <1>3, <1>4
<1>7. h \in Seq(Ids) /\ Len(h) = Len(g) - 1
    BY <1>3, <1>5, <1>6
<1>8. \A k \in 1..Len(h) : h[k] # i
    BY <1>1, <1>4, <1>6, <1>7
<1>9. ASSUME NEW j \in 1..Len(h), NEW k \in 1..Len(h), h[j] = h[k] PROVE j = k
  <2>1. (IF j < p THEN j ELSE j + 1) = (IF k < p THEN k ELSE k + 1)
    BY <1>2, <1>4, <1>6, <1>7, <1>9
  <2> QED BY <1>1, <1>2, <1>7, <2>1
<1> QED BY <1>1, <1>2, <1>6, <1>7, <1>8, <1>9 DEF g, p, h

(* An item put before a list. *)
LEMMA Prepended ==
    ASSUME NEW g \in Seq(Ids), NEW c \in Ids
    PROVE  LET h == <<c>> \o g IN
           /\ h \in Seq(Ids) /\ Len(h) = Len(g) + 1 /\ h[1] = c
           /\ \A k \in 1..Len(g) : h[k + 1] = g[k]
           /\ \A k \in 1..Len(h) : k = 1 \/ (k - 1 \in 1..Len(g) /\ h[k] = g[k - 1])
<1> DEFINE h == <<c>> \o g
<1>1. /\ h \in Seq(Ids) /\ Len(h) = Len(g) + 1 /\ h[1] = c
      /\ \A k \in 1..Len(h) : k = 1 \/ h[k] = g[k - 1]
    OBVIOUS
<1> HIDE DEF h
<1> QED BY <1>1 DEF h

(* A list that is left alone. *)
LEMMA ListStays ==
    ASSUME NEW r, Listing(r), github'[r] = github[r], ver'[r] = ver[r], movedUp'[r] = movedUp[r]
    PROVE  Listing(r)' /\ Moves(r)
<1>1. Listing(r)'
    BY DEF Listing
<1>2. \A i \in Ids : ver[r][i] <= ver'[r][i]
    BY DEF Listing
<1>3. \A k \in 1..Len(github[r]) : \E j \in 1..Len(github'[r]) : j >= k /\ github'[r][j] = github[r][k]
    BY DEF Listing
<1> QED BY <1>1, <1>2, <1>3 DEF Moves

(* A list whose items are the same and of which some have a new version. *)
LEMMA VersionsGrow ==
    ASSUME NEW r, Listing(r), github'[r] = github[r], movedUp'[r] = movedUp[r], r \notin NewestFirst,
           ver'[r] \in [Ids -> Nat], \A i \in Ids : ver[r][i] <= ver'[r][i]
    PROVE  Listing(r)' /\ Moves(r)
<1>1. Listing(r)'
  <2>1. \A k \in 1..Len(github[r]) : github[r][k] \in Ids /\ ver[r][github[r][k]] > 0
    BY DEF Listing
  <2>2. \A i \in Ids : ver[r][i] \in Nat /\ ver'[r][i] \in Nat
    BY DEF Listing
  <2>3. \A k \in 1..Len(github[r]) : ver'[r][github[r][k]] > 0
    BY <2>1, <2>2
  <2> QED BY <2>3 DEF Listing
<1>2. \A k \in 1..Len(github[r]) : \E j \in 1..Len(github'[r]) : j >= k /\ github'[r][j] = github[r][k]
    BY DEF Listing
<1> QED BY <1>1, <1>2 DEF Moves

(* A new item comes first. *)
LEMMA NewComesFirst ==
    ASSUME NEW r, Listing(r), NEW c \in Ids, ~(ver[r][c] > 0), github'[r] = <<c>> \o github[r],
           ver'[r] = [ver[r] EXCEPT ![c] = 1], movedUp'[r] = movedUp[r]
    PROVE  Listing(r)' /\ Moves(r)
<1> DEFINE g == github[r]
           h == github'[r]
<1>1. /\ g \in Seq(Ids) /\ Len(g) \in Nat /\ ver[r] \in [Ids -> Nat]
      /\ \A j, k \in 1..Len(g) : g[j] = g[k] => j = k
      /\ \A k \in 1..Len(g) : g[k] \in Ids /\ ver[r][g[k]] > 0
    BY DEF Listing
<1>2. h = <<c>> \o g
    OBVIOUS
<1> HIDE DEF g, h
<1>3. /\ h \in Seq(Ids) /\ Len(h) = Len(g) + 1 /\ h[1] = c
      /\ \A k \in 1..Len(g) : h[k + 1] = g[k]
      /\ \A k \in 1..Len(h) : k = 1 \/ (k - 1 \in 1..Len(g) /\ h[k] = g[k - 1])
    BY <1>1, <1>2, Prepended
<1>4. /\ ver'[r] \in [Ids -> Nat] /\ ver'[r][c] = 1 /\ ver[r][c] = 0
      /\ \A i \in Ids \ {c} : ver'[r][i] = ver[r][i]
    BY <1>1
<1>5. \A k \in 1..Len(g) : g[k] # c
    BY <1>1
<1>6. ASSUME NEW k \in 1..Len(h) PROVE ver'[r][h[k]] > 0
  <2>1. CASE k = 1
    BY <1>3, <1>4, <2>1
  <2>2. CASE k # 1
    <3>1. PICK m \in 1..Len(g) : h[k] = g[m]
      BY <1>3, <2>2
    <3>2. g[m] \in Ids \ {c} /\ ver[r][g[m]] > 0
      BY <1>1, <1>5
    <3> QED BY <1>4, <3>1, <3>2
  <2> QED BY <2>1, <2>2
<1>7. ASSUME NEW j \in 1..Len(h), NEW k \in 1..Len(h), h[j] = h[k] PROVE j = k
  <2>1. CASE j = 1 \/ k = 1
    BY <1>3, <1>5, <1>7, <2>1
  <2>2. CASE j # 1 /\ k # 1
    <3>1. j - 1 \in 1..Len(g) /\ k - 1 \in 1..Len(g) /\ g[j - 1] = g[k - 1]
      BY <1>3, <1>7, <2>2
    <3>2. j - 1 = k - 1
      BY <1>1, <3>1
    <3> QED BY <3>2
  <2> QED BY <2>1, <2>2
<1>8. Listing(r)'
    BY <1>3, <1>4, <1>6, <1>7 DEF Listing, h
<1>9. \A i \in Ids : ver[r][i] <= ver'[r][i]
    BY <1>1, <1>4
<1>10. \A k \in 1..Len(g) : k + 1 \in 1..Len(h) /\ k + 1 >= k /\ h[k + 1] = g[k]
    BY <1>1, <1>3
<1>11. \A k \in 1..Len(g) : \E j \in 1..Len(h) : j >= k /\ h[j] = g[k]
    BY <1>10
<1>12. Len(h) > 0 /\ ver'[r][h[1]] > ver[r][h[1]]
    BY <1>1, <1>3, <1>4
<1> QED BY <1>8, <1>9, <1>11, <1>12 DEF Moves, g, h

(* A new item comes last. *)
LEMMA NewComesLast ==
    ASSUME NEW r, Listing(r), NEW c \in Ids, ~(ver[r][c] > 0), github'[r] = Append(github[r], c),
           ver'[r] = [ver[r] EXCEPT ![c] = 1], movedUp'[r] = movedUp[r], r \notin NewestFirst
    PROVE  Listing(r)' /\ Moves(r)
<1> DEFINE g == github[r]
           h == github'[r]
<1>1. /\ g \in Seq(Ids) /\ Len(g) \in Nat /\ ver[r] \in [Ids -> Nat]
      /\ \A j, k \in 1..Len(g) : g[j] = g[k] => j = k
      /\ \A k \in 1..Len(g) : g[k] \in Ids /\ ver[r][g[k]] > 0
    BY DEF Listing
<1>2. h = Append(g, c)
    OBVIOUS
<1> HIDE DEF g, h
<1>3. /\ h \in Seq(Ids) /\ Len(h) = Len(g) + 1 /\ h[Len(h)] = c
      /\ \A k \in 1..Len(g) : h[k] = g[k]
    BY <1>1, <1>2
<1>4. /\ ver'[r] \in [Ids -> Nat] /\ ver'[r][c] = 1 /\ ver[r][c] = 0
      /\ \A i \in Ids \ {c} : ver'[r][i] = ver[r][i]
    BY <1>1
<1>5. \A k \in 1..Len(g) : g[k] # c
    BY <1>1
<1>6. \A k \in 1..Len(h) : k = Len(h) \/ k \in 1..Len(g)
    BY <1>1, <1>3
<1>7. ASSUME NEW k \in 1..Len(h) PROVE ver'[r][h[k]] > 0
  <2>1. CASE k = Len(h)
    BY <1>3, <1>4, <2>1
  <2>2. CASE k \in 1..Len(g)
    <3>1. h[k] = g[k] /\ g[k] \in Ids \ {c} /\ ver[r][g[k]] > 0
      BY <1>1, <1>3, <1>5, <2>2
    <3> QED BY <1>4, <3>1
  <2> QED BY <1>6, <2>1, <2>2
<1>8. ASSUME NEW j \in 1..Len(h), NEW k \in 1..Len(h), h[j] = h[k] PROVE j = k
  <2>1. CASE j \in 1..Len(g) /\ k \in 1..Len(g)
    BY <1>1, <1>3, <1>8, <2>1
  <2>2. CASE j = Len(h) /\ k \in 1..Len(g)
    BY <1>3, <1>5, <1>8, <2>2
  <2>3. CASE k = Len(h) /\ j \in 1..Len(g)
    BY <1>3, <1>5, <1>8, <2>3
  <2> QED BY <1>6, <2>1, <2>2, <2>3
<1>9. Listing(r)'
    BY <1>3, <1>4, <1>7, <1>8 DEF Listing, h
<1>10. \A i \in Ids : ver[r][i] <= ver'[r][i]
    BY <1>1, <1>4
<1>11. \A k \in 1..Len(g) : k \in 1..Len(h) /\ k >= k /\ h[k] = g[k]
    BY <1>1, <1>3
<1>12. \A k \in 1..Len(g) : \E j \in 1..Len(h) : j >= k /\ h[j] = g[k]
    BY <1>11
<1> QED BY <1>9, <1>10, <1>12 DEF Moves, g, h

(* An item goes: those that follow it move up. *)
LEMMA ItemGoes ==
    ASSUME NEW r, Listing(r), NEW b \in Listed(r), github'[r] = Without(r, b), r \notin NewestFirst,
           ver'[r] = [ver[r] EXCEPT ![b] = ver[r][b] + 1],
           movedUp'[r] = movedUp[r] \cup {i \in Listed(r) : Place(r, i) >= Place(r, b)}
    PROVE  Listing(r)' /\ Moves(r)
<1> DEFINE g == github[r]
           h == github'[r]
           p == Place(r, b)
<1>1. /\ g \in Seq(Ids) /\ Len(g) \in Nat /\ ver[r] \in [Ids -> Nat]
      /\ \A k \in 1..Len(g) : g[k] \in Ids /\ ver[r][g[k]] > 0
    BY DEF Listing
<1>2. b \in Ids /\ p \in 1..Len(g) /\ g[p] = b
    BY PlaceFacts
<1>3. /\ h \in Seq(Ids) /\ Len(h) = Len(g) - 1
      /\ \A k \in 1..Len(h) : h[k] = g[IF k < p THEN k ELSE k + 1]
      /\ \A j, k \in 1..Len(h) : h[j] = h[k] => j = k
    BY WithoutFacts
<1>4. \A k \in 1..Len(g) : g[k] \in Listed(r) /\ Place(r, g[k]) = k
  <2> SUFFICES ASSUME NEW k \in 1..Len(g) PROVE g[k] \in Listed(r) /\ Place(r, g[k]) = k
    OBVIOUS
  <2>1. g[k] \in Listed(r)
    BY DEF Listed
  <2>2. PICK i \in Listed(r) : i = g[k]
    BY <2>1
  <2>3. k = Place(r, i)
    BY <2>2, PlaceFacts
  <2> QED BY <2>1, <2>2, <2>3
<1>5. \A i \in Listed(r) : Place(r, i) >= p => i \in movedUp'[r]
    OBVIOUS
<1> HIDE DEF g, h, p
<1>6. /\ ver'[r] \in [Ids -> Nat] /\ \A i \in Ids : ver[r][i] <= ver'[r][i]
  <2>1. ver[r][b] + 1 \in Nat
    BY <1>1, <1>2
  <2>2. ver'[r] \in [Ids -> Nat]
    BY <1>1, <1>2, <2>1
  <2>3. ver'[r][b] = ver[r][b] + 1 /\ \A i \in Ids \ {b} : ver'[r][i] = ver[r][i]
    BY <1>1, <1>2
  <2> QED BY <1>1, <1>2, <2>2, <2>3
<1>7. \A k \in 1..Len(h) : \E m \in 1..Len(g) : h[k] = g[m]
  <2>1. \A k \in 1..Len(h) : (IF k < p THEN k ELSE k + 1) \in 1..Len(g)
    BY <1>1, <1>2, <1>3
  <2> QED BY <1>3, <2>1
<1>8. \A k \in 1..Len(h) : ver'[r][h[k]] > 0
  <2> SUFFICES ASSUME NEW k \in 1..Len(h) PROVE ver'[r][h[k]] > 0
    OBVIOUS
  <2>1. PICK m \in 1..Len(g) : h[k] = g[m]
    BY <1>7
  <2>2. PICK i \in Ids : i = g[m]
    BY <1>1
  <2>3. ver[r][i] > 0 /\ ver[r][i] <= ver'[r][i] /\ ver[r][i] \in Nat /\ ver'[r][i] \in Nat
    BY <1>1, <1>6, <2>2
  <2> QED BY <2>1, <2>2, <2>3
<1>9. Listing(r)'
    BY <1>3, <1>6, <1>8 DEF Listing, h
<1>10. ASSUME NEW k \in 1..Len(g) PROVE g[k] \in movedUp'[r] \/ \E j \in 1..Len(h) : j >= k /\ h[j] = g[k]
  <2>1. CASE k >= p
    BY <1>4, <1>5, <2>1
  <2>2. CASE ~(k >= p)
    <3>1. k \in 1..Len(h) /\ k < p
      BY <1>1, <1>2, <1>3, <2>2
    <3>2. h[k] = g[k]
      BY <1>3, <3>1
    <3> QED BY <3>1, <3>2
  <2> QED BY <2>1, <2>2
<1> QED BY <1>6, <1>9, <1>10 DEF Moves, g, h

(* An item moves to the front: no other moves up. *)
LEMMA ItemComesFirst ==
    ASSUME NEW r, Listing(r), NEW b \in Listed(r), github'[r] = <<b>> \o Without(r, b),
           ver'[r] = [ver[r] EXCEPT ![b] = ver[r][b] + 1], movedUp'[r] = movedUp[r] \cup {b}
    PROVE  Listing(r)' /\ Moves(r)
<1> DEFINE g == github[r]
           w == Without(r, b)
           h == github'[r]
           p == Place(r, b)
<1>1. /\ g \in Seq(Ids) /\ Len(g) \in Nat /\ ver[r] \in [Ids -> Nat]
      /\ \A k \in 1..Len(g) : g[k] \in Ids /\ ver[r][g[k]] > 0
    BY DEF Listing
<1>2. b \in Ids /\ p \in 1..Len(g) /\ g[p] = b
    BY PlaceFacts
<1>3. /\ w \in Seq(Ids) /\ Len(w) = Len(g) - 1
      /\ \A k \in 1..Len(w) : w[k] = g[IF k < p THEN k ELSE k + 1] /\ w[k] # b
      /\ \A j, k \in 1..Len(w) : w[j] = w[k] => j = k
    BY WithoutFacts
<1>4. h = <<b>> \o w
    OBVIOUS
<1>5. b \in movedUp'[r]
    OBVIOUS
<1> HIDE DEF g, h, p, w
<1>6. /\ h \in Seq(Ids) /\ Len(h) = Len(w) + 1 /\ h[1] = b
      /\ \A k \in 1..Len(w) : h[k + 1] = w[k]
      /\ \A k \in 1..Len(h) : k = 1 \/ (k - 1 \in 1..Len(w) /\ h[k] = w[k - 1])
    BY <1>2, <1>3, <1>4, Prepended
<1>7. /\ ver'[r] \in [Ids -> Nat] /\ \A i \in Ids : ver[r][i] <= ver'[r][i]
      /\ ver'[r][b] > ver[r][b]
  <2>1. ver[r][b] + 1 \in Nat
    BY <1>1, <1>2
  <2>2. ver'[r] \in [Ids -> Nat]
    BY <1>1, <1>2, <2>1
  <2>3. ver'[r][b] = ver[r][b] + 1 /\ \A i \in Ids \ {b} : ver'[r][i] = ver[r][i]
    BY <1>1, <1>2
  <2> QED BY <1>1, <1>2, <2>2, <2>3
<1>8. \A k \in 1..Len(h) : \E m \in 1..Len(g) : h[k] = g[m]
  <2>1. \A k \in 1..Len(w) : (IF k < p THEN k ELSE k + 1) \in 1..Len(g)
    BY <1>1, <1>2, <1>3
  <2>2. \A k \in 1..Len(w) : \E m \in 1..Len(g) : w[k] = g[m]
    BY <1>3, <2>1
  <2>3. ASSUME NEW k \in 1..Len(h), k # 1 PROVE \E m \in 1..Len(g) : h[k] = g[m]
    <3>1. PICK n \in 1..Len(w) : h[k] = w[n]
      BY <1>6, <2>3
    <3> QED BY <2>2, <3>1
  <2>4. h[1] = g[p]
    BY <1>2, <1>6
  <2> QED BY <1>2, <2>3, <2>4
<1>9. \A k \in 1..Len(h) : ver'[r][h[k]] > 0
  <2> SUFFICES ASSUME NEW k \in 1..Len(h) PROVE ver'[r][h[k]] > 0
    OBVIOUS
  <2>1. PICK m \in 1..Len(g) : h[k] = g[m]
    BY <1>8
  <2>2. PICK i \in Ids : i = g[m]
    BY <1>1
  <2>3. ver[r][i] > 0 /\ ver[r][i] <= ver'[r][i] /\ ver[r][i] \in Nat /\ ver'[r][i] \in Nat
    BY <1>1, <1>7, <2>2
  <2> QED BY <2>1, <2>2, <2>3
<1>10. ASSUME NEW j \in 1..Len(h), NEW k \in 1..Len(h), h[j] = h[k] PROVE j = k
  <2>1. CASE j = 1 \/ k = 1
    BY <1>3, <1>6, <1>10, <2>1
  <2>2. CASE j # 1 /\ k # 1
    <3>1. j - 1 \in 1..Len(w) /\ k - 1 \in 1..Len(w) /\ w[j - 1] = w[k - 1]
      BY <1>6, <1>10, <2>2
    <3>2. j - 1 = k - 1
      BY <1>3, <3>1
    <3> QED BY <3>2
  <2> QED BY <2>1, <2>2
<1>11. Listing(r)'
    BY <1>6, <1>7, <1>9, <1>10 DEF Listing, h
<1>12. ASSUME NEW k \in 1..Len(g) PROVE g[k] \in movedUp'[r] \/ \E j \in 1..Len(h) : j >= k /\ h[j] = g[k]
  <2>1. CASE k = p
    BY <1>2, <1>5, <2>1
  <2>2. CASE k < p
    <3>1. k \in 1..Len(w) /\ k + 1 \in 1..Len(h) /\ k + 1 >= k
      BY <1>1, <1>2, <1>3, <1>6, <2>2
    <3>2. w[k] = g[k] /\ h[k + 1] = w[k]
      BY <1>3, <1>6, <2>2, <3>1
    <3> QED BY <3>1, <3>2
  <2>3. CASE k > p
    <3>1. k - 1 \in 1..Len(w) /\ k \in 1..Len(h) /\ ~(k - 1 < p) /\ (k - 1) + 1 = k /\ k >= k
      BY <1>1, <1>2, <1>3, <1>6, <2>3
    <3>2. PICK n \in 1..Len(w) : n = k - 1
      BY <3>1
    <3>3. w[n] = g[n + 1] /\ h[n + 1] = w[n] /\ n + 1 = k
      BY <1>3, <1>6, <3>1, <3>2
    <3> QED BY <3>1, <3>3
  <2> QED BY <1>1, <1>2, <2>1, <2>2, <2>3
<1>13. Len(h) > 0
    BY <1>1, <1>2, <1>3, <1>6
<1> QED BY <1>6, <1>7, <1>11, <1>12, <1>13 DEF Moves, g, h

-----------------------------------------------------------------------------
(* What was told of stays true. *)
LEMMA HubTogether ==
    ASSUME HubInv, github' \in [Resources -> Seq(Ids)], ver' \in [Resources -> [Ids -> Nat]],
           movedUp' \in [Resources -> SUBSET Ids],
           \A r \in Resources : Listing(r)' /\ Moves(r),
           reviews' \in [Ids -> SUBSET (Nat \ {0})], IsFiniteSet(Submitted'),
           \A i \in Ids : reviews[i] \subseteq reviews'[i],
           \A m \in deliveries' : m \in deliveries \/ Sent(m)'
    PROVE  Onward
<1>1. movedUp["branches"] \subseteq movedUp'["branches"]
    BY ResourceNames DEF Moves
<1>2. \A m \in deliveries : Sent(m)'
  <2>1. \A m \in deliveries : m.item \in Ids /\ Sent(m)
    BY DEF HubInv, Sent, Message
  <2> QED BY <1>1, <2>1 DEF Sent
<1>3. \A m \in deliveries' : Sent(m)'
    BY <1>2
<1> QED BY <1>3 DEF Onward, HubInv

(* No review was submitted. *)
LEMMA NoReview ==
    ASSUME HubInv, UNCHANGED reviews
    PROVE  /\ reviews' \in [Ids -> SUBSET (Nat \ {0})] /\ IsFiniteSet(Submitted')
           /\ \A i \in Ids : reviews[i] \subseteq reviews'[i]
<1>1. Submitted' = Submitted
    BY DEF Submitted
<1> QED BY <1>1 DEF HubInv

(* A message of Send is sent. *)
LEMMA SendsOne ==
    ASSUME NEW kind, NEW i, NEW v, NEW ref, Send(kind, i, v, ref),
           Sent([kind |-> kind, item |-> i, ver |-> v, ref |-> ref])'
    PROVE  \A m \in deliveries' : m \in deliveries \/ Sent(m)'
    BY DEF Send

(* A push. *)
LEMMA PushOnward ==
    ASSUME HubInv, NEW b \in Ids, Push(b)
    PROVE  Onward
<1>1. "branches" \in Resources /\ "commits" \in Resources /\ "branches" # "commits"
      /\ "branches" \notin NewestFirst
    BY ResourceNames DEF NewestFirst
<1>2. PICK c \in Ids : c = Newest("commits") /\ ~(ver["commits"][c] > 0)
    BY NewestIsUnborn DEF Push
<1>3. /\ github' = [github EXCEPT !["commits"] = <<c>> \o github["commits"]]
      /\ ver' = [ver EXCEPT !["branches"][b] = @ + 1, !["commits"][c] = 1]
      /\ Send("push", b, ver["branches"][b] + 1, c)
      /\ UNCHANGED <<reviews, movedUp>>
    BY <1>2 DEF Push
<1>4. /\ github \in [Resources -> Seq(Ids)] /\ ver \in [Resources -> [Ids -> Nat]]
      /\ \A r \in Resources : Listing(r)
    BY DEF HubInv
<1>5. /\ github'["commits"] = <<c>> \o github["commits"]
      /\ \A r \in Resources \ {"commits"} : github'[r] = github[r]
    BY <1>1, <1>3, <1>4
<1>6. /\ ver'["commits"] = [ver["commits"] EXCEPT ![c] = 1]
      /\ ver'["branches"] = [ver["branches"] EXCEPT ![b] = ver["branches"][b] + 1]
      /\ \A r \in Resources \ {"branches", "commits"} : ver'[r] = ver[r]
    BY <1>1, <1>3, <1>4
<1>7. /\ ver["branches"] \in [Ids -> Nat] /\ ver["branches"][b] \in Nat
      /\ ver'["branches"] \in [Ids -> Nat]
      /\ \A i \in Ids : ver["branches"][i] <= ver'["branches"][i]
    BY <1>1, <1>4, <1>6
<1>8. Listing("commits")' /\ Moves("commits")
    BY <1>1, <1>2, <1>3, <1>4, <1>5, <1>6, NewComesFirst
<1>9. Listing("branches")' /\ Moves("branches")
    BY <1>1, <1>3, <1>4, <1>5, <1>7, VersionsGrow
<1>10. ASSUME NEW r \in Resources \ {"branches", "commits"} PROVE Listing(r)' /\ Moves(r)
    BY <1>3, <1>4, <1>5, <1>6, ListStays
<1>11. \A r \in Resources : Listing(r)' /\ Moves(r)
    BY <1>8, <1>9, <1>10
<1>12. github' \in [Resources -> Seq(Ids)] /\ ver' \in [Resources -> [Ids -> Nat]]
  <2>1. \A r \in Resources : github'[r] \in Seq(Ids) /\ ver'[r] \in [Ids -> Nat]
    BY <1>11 DEF Listing
  <2>2. DOMAIN github' = Resources /\ github' = [r \in DOMAIN github' |-> github'[r]]
        /\ DOMAIN ver' = Resources /\ ver' = [r \in DOMAIN ver' |-> ver'[r]]
    BY <1>3, <1>4
  <2> QED BY <2>1, <2>2
<1>13. PICK v \in Nat : v = ver["branches"][b] + 1 /\ v > 0
    BY <1>7
<1>14. \A m \in deliveries' : m \in deliveries \/ Sent(m)'
  <2>1. Sent([kind |-> "push", item |-> b, ver |-> v, ref |-> c])'
    BY <1>13 DEF Sent, Message, Ids
  <2> QED BY <1>3, <1>13, <2>1, SendsOne
<1> QED BY <1>3, <1>11, <1>12, <1>14, NoReview, HubTogether DEF HubInv

(* A branch is deleted. *)
LEMMA DeleteOnward ==
    ASSUME HubInv, NEW b \in Ids, DeleteBranch(b)
    PROVE  Onward
<1>1. "branches" \in Resources /\ "branches" \notin NewestFirst
    BY ResourceNames DEF NewestFirst
<1>2. /\ b \in Listed("branches")
      /\ github' = [github EXCEPT !["branches"] = Without("branches", b)]
      /\ ver' = [ver EXCEPT !["branches"][b] = @ + 1]
      /\ Send("delete", b, ver["branches"][b] + 1, 0)
      /\ movedUp' = [movedUp EXCEPT !["branches"] =
            @ \cup {i \in Listed("branches") : Place("branches", i) >= Place("branches", b)}]
      /\ UNCHANGED reviews
    BY DEF DeleteBranch
<1>3. /\ github \in [Resources -> Seq(Ids)] /\ ver \in [Resources -> [Ids -> Nat]]
      /\ movedUp \in [Resources -> SUBSET Ids] /\ \A r \in Resources : Listing(r)
    BY DEF HubInv
<1>4. /\ github'["branches"] = Without("branches", b)
      /\ \A r \in Resources \ {"branches"} : github'[r] = github[r]
    BY <1>1, <1>2, <1>3
<1>5. /\ ver'["branches"] = [ver["branches"] EXCEPT ![b] = ver["branches"][b] + 1]
      /\ \A r \in Resources \ {"branches"} : ver'[r] = ver[r]
    BY <1>1, <1>2, <1>3
<1>6. /\ movedUp'["branches"] = movedUp["branches"] \cup
            {i \in Listed("branches") : Place("branches", i) >= Place("branches", b)}
      /\ \A r \in Resources \ {"branches"} : movedUp'[r] = movedUp[r]
    BY <1>1, <1>2, <1>3
<1>7. Listing("branches")' /\ Moves("branches")
    BY <1>1, <1>2, <1>3, <1>4, <1>5, <1>6, ItemGoes
<1>8. ASSUME NEW r \in Resources \ {"branches"} PROVE Listing(r)' /\ Moves(r)
    BY <1>3, <1>4, <1>5, <1>6, ListStays
<1>9. \A r \in Resources : Listing(r)' /\ Moves(r)
    BY <1>7, <1>8
<1>10. github' \in [Resources -> Seq(Ids)] /\ ver' \in [Resources -> [Ids -> Nat]]
  <2>1. \A r \in Resources : github'[r] \in Seq(Ids) /\ ver'[r] \in [Ids -> Nat]
    BY <1>9 DEF Listing
  <2>2. DOMAIN github' = Resources /\ github' = [r \in DOMAIN github' |-> github'[r]]
        /\ DOMAIN ver' = Resources /\ ver' = [r \in DOMAIN ver' |-> ver'[r]]
    BY <1>2, <1>3
  <2> QED BY <2>1, <2>2
<1>11. Listed("branches") \subseteq Ids
    BY <1>1, <1>3 DEF Listed
<1>12. movedUp' \in [Resources -> SUBSET Ids]
    BY <1>1, <1>2, <1>3, <1>11
<1>13. b \in movedUp'["branches"]
  <2>1. Place("branches", b) \in Nat
    BY <1>1, <1>2, <1>3, PlaceFacts
  <2> QED BY <1>2, <1>6, <2>1
<1>14. PICK v \in Nat : v = ver["branches"][b] + 1 /\ v > 0
  <2>1. ver["branches"][b] \in Nat
    BY <1>1, <1>3
  <2> QED BY <2>1
<1>15. Sent([kind |-> "delete", item |-> b, ver |-> v, ref |-> 0])'
    BY <1>13, <1>14 DEF Sent, Message
<1>16. \A m \in deliveries' : m \in deliveries \/ Sent(m)'
    BY <1>2, <1>14, <1>15, SendsOne
<1> QED BY <1>2, <1>9, <1>10, <1>12, <1>16, NoReview, HubTogether

(* The number of the reviews is a number. *)
LEMMA ReviewNumber ==
    ASSUME HubInv
    PROVE  LastReview \in Nat
<1>1. Cardinality(Submitted) \in Nat
    BY FS_CardinalityType DEF HubInv
<1> QED BY <1>1 DEF LastReview, Submitted

(* One more review. *)
LEMMA ReviewSubmitted ==
    ASSUME HubInv, NEW p \in Ids, reviews' = [reviews EXCEPT ![p] = @ \cup {LastReview + 1}]
    PROVE  /\ reviews' \in [Ids -> SUBSET (Nat \ {0})] /\ IsFiniteSet(Submitted')
           /\ \A i \in Ids : reviews[i] \subseteq reviews'[i]
<1>1. PICK n \in Nat : n = LastReview
    BY ReviewNumber
<1>2. reviews \in [Ids -> SUBSET (Nat \ {0})] /\ reviews' = [reviews EXCEPT ![p] = reviews[p] \cup {n + 1}]
    BY <1>1 DEF HubInv
<1>3. reviews'[p] = reviews[p] \cup {n + 1} /\ \A i \in Ids \ {p} : reviews'[i] = reviews[i]
    BY <1>2
<1>4. n + 1 \in Nat \ {0}
    BY <1>1
<1>5. reviews' \in [Ids -> SUBSET (Nat \ {0})]
    BY <1>2, <1>4
<1>6. Submitted' = Submitted \cup {<<p, n + 1>>}
  <2>1. ASSUME NEW x \in Submitted' PROVE x \in Submitted \cup {<<p, n + 1>>}
    <3>0. PICK i \in Ids : \E t \in reviews'[i] : x = <<i, t>>
      BY <2>1 DEF Submitted
    <3>1. PICK t \in reviews'[i] : x = <<i, t>>
      BY <3>0
    <3>2. t \in reviews[i] \/ (i = p /\ t = n + 1)
      BY <1>3, <3>1
    <3> QED BY <3>1, <3>2 DEF Submitted
  <2>2. ASSUME NEW x \in Submitted PROVE x \in Submitted'
    <3>0. PICK i \in Ids : \E t \in reviews[i] : x = <<i, t>>
      BY <2>2 DEF Submitted
    <3>1. PICK t \in reviews[i] : x = <<i, t>>
      BY <3>0
    <3>2. t \in reviews'[i]
      BY <1>3, <3>1
    <3> QED BY <3>1, <3>2 DEF Submitted
  <2>3. <<p, n + 1>> \in Submitted'
    BY <1>3 DEF Submitted
  <2> QED BY <2>1, <2>2, <2>3
<1>7. IsFiniteSet(Submitted \cup {<<p, n + 1>>})
    BY FS_AddElement DEF HubInv
<1> QED BY <1>3, <1>5, <1>6, <1>7

(* A pull request is updated or reviewed. *)
LEMMA UpdateOnward ==
    ASSUME HubInv, NEW p \in Ids, NEW reviewed \in BOOLEAN, UpdatePull(p, reviewed)
    PROVE  Onward
<1> DEFINE x == "pull_requests"
<1>1. x \in Resources
    BY ResourceNames
<1>2. /\ p \in Listed(x)
      /\ github' = [github EXCEPT ![x] = <<p>> \o Without(x, p)]
      /\ ver' = [ver EXCEPT ![x][p] = @ + 1]
      /\ movedUp' = [movedUp EXCEPT ![x] = @ \cup {p}]
    BY DEF UpdatePull
<1>3. /\ github \in [Resources -> Seq(Ids)] /\ ver \in [Resources -> [Ids -> Nat]]
      /\ movedUp \in [Resources -> SUBSET Ids] /\ \A r \in Resources : Listing(r)
    BY DEF HubInv
<1>4. PICK v \in Nat : v = ver[x][p] + 1 /\ v > 0
  <2>1. ver[x][p] \in Nat
    BY <1>1, <1>3
  <2> QED BY <2>1
<1>5. PICK n \in Nat : n = LastReview + 1 /\ n > 0
    BY ReviewNumber
<1>6. IF reviewed THEN reviews' = [reviews EXCEPT ![p] = @ \cup {LastReview + 1}] /\ Send("review", p, v, n)
                  ELSE UNCHANGED reviews /\ Send("pull_request", p, v, 0)
    BY <1>4, <1>5 DEF UpdatePull
<1> HIDE DEF x
<1>7. /\ github'[x] = <<p>> \o Without(x, p)
      /\ \A r \in Resources \ {x} : github'[r] = github[r]
    BY <1>1, <1>2, <1>3
<1>8. /\ ver'[x] = [ver[x] EXCEPT ![p] = ver[x][p] + 1]
      /\ \A r \in Resources \ {x} : ver'[r] = ver[r]
    BY <1>1, <1>2, <1>3
<1>9. /\ movedUp'[x] = movedUp[x] \cup {p}
      /\ \A r \in Resources \ {x} : movedUp'[r] = movedUp[r]
    BY <1>1, <1>2, <1>3
<1>10. Listing(x)' /\ Moves(x)
    BY <1>1, <1>2, <1>3, <1>7, <1>8, <1>9, ItemComesFirst
<1>11. ASSUME NEW r \in Resources \ {x} PROVE Listing(r)' /\ Moves(r)
    BY <1>3, <1>7, <1>8, <1>9, <1>11, ListStays
<1>12. \A r \in Resources : Listing(r)' /\ Moves(r)
    BY <1>10, <1>11
<1>13. github' \in [Resources -> Seq(Ids)] /\ ver' \in [Resources -> [Ids -> Nat]]
  <2>1. \A r \in Resources : github'[r] \in Seq(Ids) /\ ver'[r] \in [Ids -> Nat]
    BY <1>12 DEF Listing
  <2>2. DOMAIN github' = Resources /\ github' = [r \in DOMAIN github' |-> github'[r]]
        /\ DOMAIN ver' = Resources /\ ver' = [r \in DOMAIN ver' |-> ver'[r]]
    BY <1>2, <1>3
  <2> QED BY <2>1, <2>2
<1>14. movedUp' \in [Resources -> SUBSET Ids]
    BY <1>1, <1>2, <1>3
<1>15. /\ reviews' \in [Ids -> SUBSET (Nat \ {0})] /\ IsFiniteSet(Submitted')
       /\ \A i \in Ids : reviews[i] \subseteq reviews'[i]
    BY <1>6, NoReview, ReviewSubmitted
<1>16. CASE reviewed
  <2>1. n \in reviews'[p]
    BY <1>5, <1>6, <1>16 DEF HubInv
  <2>2. Sent([kind |-> "review", item |-> p, ver |-> v, ref |-> n])'
    BY <1>4, <2>1 DEF Sent, Message
  <2>3. \A m \in deliveries' : m \in deliveries \/ Sent(m)'
    BY <1>6, <1>16, <2>2, SendsOne
  <2> QED BY <1>12, <1>13, <1>14, <1>15, <2>3, HubTogether
<1>17. CASE ~reviewed
  <2>1. Sent([kind |-> "pull_request", item |-> p, ver |-> v, ref |-> 0])'
    BY <1>4 DEF Sent, Message
  <2>2. \A m \in deliveries' : m \in deliveries \/ Sent(m)'
    BY <1>6, <1>17, <2>1, SendsOne
  <2> QED BY <1>12, <1>13, <1>14, <1>15, <2>2, HubTogether
<1> QED BY <1>16, <1>17

(* An item appears. *)
LEMMA AppearOnward ==
    ASSUME HubInv, NEW x \in Resources, Appear(x)
    PROVE  Onward
<1>1. PICK c \in Ids : c = Newest(x) /\ ~(ver[x][c] > 0)
    BY NewestIsUnborn DEF Appear
<1>2. /\ github' = [github EXCEPT ![x] = IF x \in NewestFirst THEN <<c>> \o github[x] ELSE Append(github[x], c)]
      /\ ver' = [ver EXCEPT ![x][c] = 1]
      /\ UNCHANGED <<reviews, movedUp>>
    BY <1>1 DEF Appear
<1>3. /\ x = "pull_requests" => Send("pull_request", c, 1, 0)
      /\ x = "branches" => Send("push", c, 1, 0)
      /\ x # "pull_requests" /\ x # "branches" => UNCHANGED deliveries
    BY <1>1 DEF Appear
<1>4. /\ github \in [Resources -> Seq(Ids)] /\ ver \in [Resources -> [Ids -> Nat]]
      /\ movedUp \in [Resources -> SUBSET Ids] /\ \A r \in Resources : Listing(r)
    BY DEF HubInv
<1>5. /\ github'[x] = IF x \in NewestFirst THEN <<c>> \o github[x] ELSE Append(github[x], c)
      /\ \A r \in Resources \ {x} : github'[r] = github[r]
    BY <1>2, <1>4
<1>6. /\ ver'[x] = [ver[x] EXCEPT ![c] = 1]
      /\ \A r \in Resources \ {x} : ver'[r] = ver[r]
    BY <1>2, <1>4
<1>7. Listing(x)' /\ Moves(x)
  <2>1. CASE x \in NewestFirst
    BY <1>1, <1>2, <1>4, <1>5, <1>6, <2>1, NewComesFirst
  <2>2. CASE x \notin NewestFirst
    BY <1>1, <1>2, <1>4, <1>5, <1>6, <2>2, NewComesLast
  <2> QED BY <2>1, <2>2
<1>8. ASSUME NEW r \in Resources \ {x} PROVE Listing(r)' /\ Moves(r)
    BY <1>2, <1>4, <1>5, <1>6, <1>8, ListStays
<1>9. \A r \in Resources : Listing(r)' /\ Moves(r)
    BY <1>7, <1>8
<1>10. github' \in [Resources -> Seq(Ids)] /\ ver' \in [Resources -> [Ids -> Nat]]
  <2>1. \A r \in Resources : github'[r] \in Seq(Ids) /\ ver'[r] \in [Ids -> Nat]
    BY <1>9 DEF Listing
  <2>2. DOMAIN github' = Resources /\ github' = [r \in DOMAIN github' |-> github'[r]]
        /\ DOMAIN ver' = Resources /\ ver' = [r \in DOMAIN ver' |-> ver'[r]]
    BY <1>2, <1>4
  <2> QED BY <2>1, <2>2
<1>11. /\ Sent([kind |-> "pull_request", item |-> c, ver |-> 1, ref |-> 0])'
       /\ Sent([kind |-> "push", item |-> c, ver |-> 1, ref |-> 0])'
    BY DEF Sent, Message
<1>12. \A m \in deliveries' : m \in deliveries \/ Sent(m)'
  <2>1. CASE x = "pull_requests"
    BY <1>3, <1>11, <2>1, SendsOne
  <2>2. CASE x = "branches"
    BY <1>3, <1>11, <2>2, SendsOne
  <2>3. CASE x # "pull_requests" /\ x # "branches"
    BY <1>3, <2>3
  <2> QED BY <2>1, <2>2, <2>3
<1> QED BY <1>2, <1>4, <1>9, <1>10, <1>12, NoReview, HubTogether

(* Every change on GitHub. *)
LEMMA HubOnward == HubInv /\ HubStep => Onward
    BY PushOnward, DeleteOnward, UpdateOnward, AppearOnward DEF HubStep

(* A step of the gateway. *)
LEMMA HubStays ==
    ASSUME HubInv, UNCHANGED hub, UNCHANGED movedUp
    PROVE  Onward
<1>1. UNCHANGED <<github, ver, reviews, deliveries, movedUp>>
    BY DEF hub
<1>2. \A r \in Resources : Listing(r)' /\ Moves(r)
    BY <1>1, ListStays DEF HubInv
<1> QED BY <1>1, <1>2, NoReview, HubTogether DEF HubInv

-----------------------------------------------------------------------------
(* What the tasks hold. *)

TaskType ==
    /\ pc \in [Syncs -> {"off", "read", "begin", "fetch", "prepare", "store", "finish", "failing"}]
    /\ at \in [Syncs -> 1..5]
    /\ page \in [Syncs -> Nat \ {0}]
    /\ onFirst \in [Syncs -> BOOLEAN]
    /\ tag \in [Syncs -> SUBSET Seq(Ids \X Nat)]
    /\ rows \in [Syncs -> Seq(Row)]
    /\ next \in [Syncs -> Nat]
    /\ chain \in [Syncs -> SUBSET Ids]

RecordType ==
    /\ tracked \in BOOLEAN
    /\ status \in [Resources -> {"none", "idle", "syncing", "error"}]
    /\ cursor \in [Resources -> Nat]
    /\ etag \in [Resources -> SUBSET Seq(Ids \X Nat)]
    /\ walk \in [Resources -> SUBSET Ids]
    /\ promised \in [Resources -> SUBSET Ids]
    /\ overlapped \subseteq Resources
    /\ stranded \subseteq Resources

CountType == slots \subseteq Syncs /\ changes \in Nat /\ starts \in Nat /\ faults \in Nat

(* An etag is of versions that were there. *)
Older(r, t) == \A p \in t : \A k \in 1..Len(p) : p[k][2] <= ver[r][p[k][1]]

(* A row of a held page: the item exists, its review happened. *)
Real(r, w) == w.ver > 0 /\ ver[r][w.id] > 0 /\ w.review \in {0} \cup reviews[w.id]

Carries(s) ==
    /\ pc[s] \in {"fetch", "prepare", "store"} => Older(At(s), tag[s])
    /\ pc[s] \in {"prepare", "store"} => \A k \in 1..Len(rows[s]) : Real(At(s), rows[s][k])
    /\ pc[s] = "prepare" => At(s) = "pull_requests"
    /\ pc[s] = "store" /\ At(s) = "pull_requests" => \A k \in 1..Len(rows[s]) : rows[s][k].details

TaskInv ==
    /\ TaskType /\ RecordType
    /\ \A r \in Resources : Older(r, etag[r])
    /\ \A s \in Syncs : Carries(s)

(* The other tasks are left alone. *)
Elsewhere(s) == \A q \in Syncs \ {s} :
    /\ pc'[q] = pc[q] /\ at'[q] = at[q] /\ page'[q] = page[q] /\ onFirst'[q] = onFirst[q]
    /\ tag'[q] = tag[q] /\ rows'[q] = rows[q] /\ next'[q] = next[q] /\ chain'[q] = chain[q]

(* The other resources are left alone. *)
Apart(r) == \A x \in Resources \ {r} :
    /\ status'[x] = status[x] /\ cursor'[x] = cursor[x] /\ etag'[x] = etag[x]
    /\ walk'[x] = walk[x] /\ promised'[x] = promised[x]

(* Where a task is, it is at a resource. *)
LEMMA AtResource ==
    ASSUME TaskType, NEW s \in Syncs
    PROVE  At(s) \in Resources
<1>1. at[s] \in 1..5
    BY DEF TaskType
<1> QED BY <1>1, ResourceNames DEF At

(* A task is somewhere else only after NextResource or ReadRepository. *)
LEMMA SamePlace ==
    ASSUME NEW s, at'[s] = at[s]
    PROVE  At(s)' = At(s)
    BY DEF At

(* begin_resource. *)
LEMMA BeginFacts ==
    ASSUME HubInv, TaskInv, NEW s \in Syncs, BeginResource(s), NEW r \in Resources, r = At(s)
    PROVE  /\ TaskType' /\ RecordType' /\ Elsewhere(s) /\ Apart(r) /\ at'[s] = at[s]
           /\ pc[s] = "begin" /\ pc'[s] = "fetch" /\ status'[r] = "syncing"
           /\ onFirst'[s] = (cursor[r] = 0)
           /\ page'[s] = (IF cursor[r] = 0 THEN 1 ELSE cursor[r])
           /\ tag'[s] = (IF cursor[r] = 0 THEN etag[r] ELSE {})
           /\ chain'[s] = (IF cursor[r] = 0 THEN Listed(r) ELSE walk[r])
           /\ Meet(s) /\ stranded' = stranded \ {r}
           /\ UNCHANGED <<hub, facts, cursor, etag, walk, promised, movedUp, counts>>
<1>0. TaskType /\ RecordType /\ cursor[r] \in Nat /\ etag[r] \subseteq Seq(Ids \X Nat) /\ walk[r] \subseteq Ids
    BY DEF TaskInv, RecordType
<1>1. /\ pc[s] = "begin" /\ pc' = [pc EXCEPT ![s] = "fetch"]
      /\ status' = [status EXCEPT ![r] = "syncing"]
      /\ onFirst' = [onFirst EXCEPT ![s] = cursor[r] = 0]
      /\ page' = [page EXCEPT ![s] = IF cursor[r] = 0 THEN 1 ELSE cursor[r]]
      /\ tag' = [tag EXCEPT ![s] = IF cursor[r] = 0 THEN etag[r] ELSE {}]
      /\ chain' = [chain EXCEPT ![s] = IF cursor[r] = 0 THEN Listed(r) ELSE walk[r]]
      /\ Meet(s) /\ stranded' = stranded \ {r}
      /\ UNCHANGED <<hub, tracked, cursor, etag, facts, at, rows, next, walk, promised, movedUp, counts>>
    BY DEF BeginResource, Goto
<1>2. Listed(r) \subseteq Ids
    BY DEF HubInv, Listing, Listed
<1>3. (IF cursor[r] = 0 THEN 1 ELSE cursor[r]) \in Nat \ {0}
    BY <1>0
<1>4. TaskType'
    BY <1>0, <1>1, <1>2, <1>3 DEF TaskType
<1>5. overlapped' \subseteq Resources
  <2>1. \A q \in Syncs : At(q) \in Resources
    BY <1>0, AtResource
  <2> QED BY <1>0, <1>1, <2>1 DEF RecordType, Meet
<1>6. RecordType'
    BY <1>0, <1>1, <1>5 DEF RecordType
<1>7. Elsewhere(s)
    BY <1>0, <1>1 DEF TaskType, Elsewhere
<1>8. Apart(r)
    BY <1>0, <1>1 DEF RecordType, Apart
<1> QED BY <1>0, <1>1, <1>4, <1>6, <1>7, <1>8 DEF TaskType, RecordType

(* A 304. *)
LEMMA NotModifiedFacts ==
    ASSUME HubInv, TaskInv, NEW s \in Syncs, NotModified(s), NEW r \in Resources, r = At(s)
    PROVE  /\ TaskType' /\ RecordType' /\ Elsewhere(s) /\ at'[s] = at[s]
           /\ pc[s] = "fetch" /\ pc'[s] = "finish" /\ tag[s] = {PageOf(r, page[s])}
           /\ chain'[s] = (IF r \in NewestFirst THEN Listed(r) ELSE {})
           /\ UNCHANGED <<hub, sync, facts, history, counts>>
<1>0. TaskType /\ RecordType
    BY DEF TaskInv
<1>1. /\ pc[s] = "fetch" /\ pc' = [pc EXCEPT ![s] = "finish"] /\ tag[s] = {PageOf(r, page[s])}
      /\ chain' = [chain EXCEPT ![s] = IF r \in NewestFirst THEN Listed(r) ELSE {}]
      /\ UNCHANGED <<hub, tracked, sync, facts, at, page, onFirst, tag, rows, next, history, counts>>
    BY DEF NotModified, Goto
<1>2. Listed(r) \subseteq Ids
    BY DEF HubInv, Listing, Listed
<1>3. TaskType'
    BY <1>0, <1>1, <1>2 DEF TaskType
<1>4. RecordType'
    BY <1>0, <1>1 DEF RecordType, sync, history
<1>5. Elsewhere(s)
    BY <1>0, <1>1 DEF TaskType, Elsewhere
<1> QED BY <1>0, <1>1, <1>3, <1>4, <1>5 DEF TaskType

(* The rows of a page. *)
PageRows(p) == [k \in 1..Len(p) |-> [id |-> p[k][1], ver |-> p[k][2], review |-> 0, details |-> FALSE]]

(* They are the items of the page. *)
LEMMA PageRowsFacts ==
    ASSUME NEW p \in Seq(Ids \X Nat)
    PROVE  /\ PageRows(p) \in Seq(Row) /\ Len(PageRows(p)) = Len(p)
           /\ \A k \in 1..Len(p) : /\ PageRows(p)[k].id = p[k][1] /\ PageRows(p)[k].ver = p[k][2]
                                   /\ PageRows(p)[k].review = 0
<1>1. \A k \in 1..Len(p) : p[k] \in Ids \X Nat
    OBVIOUS
<1>2. \A k \in 1..Len(p) : p[k][1] \in Ids /\ p[k][2] \in Nat
    BY <1>1
<1>3. \A k \in 1..Len(p) : [id |-> p[k][1], ver |-> p[k][2], review |-> 0, details |-> FALSE] \in Row
    BY <1>2 DEF Row
<1>4. Len(p) \in Nat
    OBVIOUS
<1> QED BY <1>3, <1>4 DEF PageRows

(* A page is fetched. *)
LEMMA FetchFacts ==
    ASSUME HubInv, TaskInv, NEW s \in Syncs, FetchPage(s), NEW r \in Resources, r = At(s)
    PROVE  /\ TaskType' /\ RecordType' /\ Elsewhere(s) /\ at'[s] = at[s]
           /\ pc[s] = "fetch" /\ pc'[s] = (IF r = "pull_requests" THEN "prepare" ELSE "store")
           /\ page[s] \in Nat \ {0} /\ PageOf(r, page[s]) \in Seq(Ids \X Nat)
           /\ tag'[s] = {PageOf(r, page[s])} /\ rows'[s] = PageRows(PageOf(r, page[s]))
           /\ next'[s] = NextPage(r, page[s]) /\ next'[s] \in Nat
           /\ page'[s] = page[s] /\ onFirst'[s] = onFirst[s] /\ chain'[s] = chain[s]
           /\ UNCHANGED <<hub, sync, facts, history, counts>>
<1>0. TaskType /\ RecordType /\ page[s] \in Nat \ {0}
    BY DEF TaskInv, TaskType
<1>1. PICK n \in Nat \ {0} : n = page[s]
    BY <1>0
<1>2. PageOf(r, n) \in Seq(Ids \X Nat)
    BY PageFacts DEF HubInv
<1>3. /\ pc[s] = "fetch" /\ pc' = [pc EXCEPT ![s] = IF r = "pull_requests" THEN "prepare" ELSE "store"]
      /\ tag' = [tag EXCEPT ![s] = {PageOf(r, n)}]
      /\ rows' = [rows EXCEPT ![s] = PageRows(PageOf(r, n))]
      /\ next' = [next EXCEPT ![s] = NextPage(r, n)]
      /\ UNCHANGED <<hub, tracked, sync, facts, at, page, onFirst, chain, history, counts>>
    BY <1>1 DEF FetchPage, Goto, PageRows
<1>4. NextPage(r, n) \in Nat
    BY DEF NextPage
<1>5. PageRows(PageOf(r, n)) \in Seq(Row)
    BY <1>2, PageRowsFacts
<1>6. TaskType'
    BY <1>0, <1>2, <1>3, <1>4, <1>5 DEF TaskType
<1>7. RecordType'
    BY <1>0, <1>3 DEF RecordType, sync, history
<1>8. Elsewhere(s)
    BY <1>0, <1>3 DEF TaskType, Elsewhere
<1>9. /\ pc'[s] = (IF r = "pull_requests" THEN "prepare" ELSE "store")
      /\ tag'[s] = {PageOf(r, n)} /\ rows'[s] = PageRows(PageOf(r, n))
      /\ next'[s] = NextPage(r, n)
    BY <1>0, <1>3 DEF TaskType
<1> QED BY <1>0, <1>1, <1>2, <1>3, <1>4, <1>6, <1>7, <1>8, <1>9

(* prepare_pull_requests. *)
LEMMA PrepareFacts ==
    ASSUME HubInv, FirstReviewIsReal, firstReview \in [Ids -> Nat], TaskInv, NEW s \in Syncs, PreparePulls(s)
    PROVE  /\ TaskType' /\ RecordType' /\ Elsewhere(s) /\ at'[s] = at[s]
           /\ pc[s] = "prepare" /\ pc'[s] = "store"
           /\ Len(rows'[s]) = Len(rows[s])
           /\ \A k \in 1..Len(rows[s]) : /\ rows'[s][k].id = rows[s][k].id /\ rows'[s][k].details
                                         /\ Real(At(s), rows'[s][k])
           /\ page'[s] = page[s] /\ onFirst'[s] = onFirst[s] /\ chain'[s] = chain[s]
           /\ tag'[s] = tag[s] /\ next'[s] = next[s]
           /\ UNCHANGED <<hub, sync, facts, history, counts>>
<1>0. TaskType /\ RecordType /\ rows[s] \in Seq(Row)
    BY DEF TaskInv, TaskType
<1> DEFINE w == rows[s]
           x(k) == [id |-> w[k].id, ver |-> ver["pull_requests"][w[k].id], details |-> TRUE,
                    review |-> IF firstReview[w[k].id] # 0 THEN firstReview[w[k].id] ELSE EarliestReview(w[k].id)]
<1>1. /\ pc[s] = "prepare" /\ pc' = [pc EXCEPT ![s] = "store"]
      /\ rows' = [rows EXCEPT ![s] = [k \in 1..Len(w) |-> x(k)]]
      /\ UNCHANGED <<hub, tracked, sync, facts, at, page, onFirst, tag, next, chain, history, counts>>
    BY <1>0 DEF PreparePulls, Goto, TaskType
<1>2. At(s) = "pull_requests" /\ "pull_requests" \in Resources /\ \A k \in 1..Len(w) : Real(At(s), w[k])
    BY <1>1, ResourceNames DEF TaskInv, Carries
<1>3. ASSUME NEW k \in 1..Len(w) PROVE x(k) \in Row /\ Real(At(s), x(k))
  <2>0. w[k] \in Row
    BY <1>0
  <2>1. PICK i \in Ids : i = w[k].id
    BY <2>0 DEF Row
  <2>2. ver["pull_requests"][i] \in Nat /\ ver["pull_requests"][i] > 0
    BY <1>2, <2>1 DEF HubInv, Real
  <2>3. reviews[i] \subseteq Nat \ {0} /\ firstReview[i] \in Nat
    BY DEF HubInv
  <2>4. EarliestReview(i) \in {0} \cup reviews[i]
    BY <2>3, EarliestIsReal
  <2>5. firstReview[i] # 0 => firstReview[i] \in reviews[i]
    BY DEF FirstReviewIsReal
  <2>6. PICK v \in Nat : v = (IF firstReview[i] # 0 THEN firstReview[i] ELSE EarliestReview(i)) /\ v \in {0} \cup reviews[i]
    BY <2>3, <2>4, <2>5
  <2>7. x(k) = [id |-> i, ver |-> ver["pull_requests"][i], details |-> TRUE, review |-> v]
    BY <2>1, <2>6
  <2> HIDE DEF x
  <2>8. x(k) \in Row
    BY <2>2, <2>7 DEF Row
  <2>9. x(k).ver > 0 /\ ver[At(s)][x(k).id] > 0 /\ x(k).review \in {0} \cup reviews[x(k).id]
    BY <1>2, <2>2, <2>6, <2>7
  <2> QED BY <2>8, <2>9 DEF Real
<1>4. \A k \in 1..Len(w) : x(k).id = w[k].id /\ x(k).details
    OBVIOUS
<1> DEFINE y == [k \in 1..Len(w) |-> x(k)]
<1>5. Len(w) \in Nat
    BY <1>0
<1> HIDE DEF w, x
<1>6. y \in Seq(Row) /\ Len(y) = Len(w) /\ \A k \in 1..Len(w) : y[k] = x(k)
    BY <1>3, <1>5
<1> HIDE DEF y
<1>7. rows' = [rows EXCEPT ![s] = y]
    BY <1>1 DEF y
<1>8. TaskType'
    BY <1>0, <1>1, <1>6, <1>7 DEF TaskType
<1>9. RecordType'
    BY <1>0, <1>1 DEF RecordType, sync, history
<1>10. Elsewhere(s)
    BY <1>0, <1>1, <1>7 DEF TaskType, Elsewhere
<1>11. rows'[s] = y /\ pc'[s] = "store"
    BY <1>0, <1>1, <1>7 DEF TaskType
<1> QED BY <1>1, <1>3, <1>4, <1>6, <1>8, <1>9, <1>10, <1>11 DEF w

(* A page is committed, with its checkpoint. *)
LEMMA StoreFacts ==
    ASSUME HubInv, TaskInv, NEW s \in Syncs, NEW r \in Resources, StorePage(s, r)
    PROVE  /\ TaskType' /\ RecordType' /\ Elsewhere(s) /\ Apart(r) /\ at'[s] = at[s] /\ r = At(s)
           /\ pc[s] = "store" /\ pc'[s] = (IF next[s] = 0 THEN "finish" ELSE "fetch")
           /\ (next[s] # 0 => page'[s] = next[s])
           /\ status'[r] = status[r] /\ cursor'[r] = next[s]
           /\ etag'[r] = (IF onFirst[s] THEN tag[s] ELSE etag[r])
           /\ walk'[r] = chain[s] /\ promised'[r] = promised[r] /\ chain'[s] = chain[s]
           /\ onFirst'[s] = FALSE /\ tag'[s] = {}
           /\ UNCHANGED <<hub, movedUp, overlapped, stranded, counts>>
<1>0. TaskType /\ RecordType /\ next[s] \in Nat
    BY DEF TaskInv, TaskType
<1>1. /\ pc[s] = "store" /\ r = At(s)
      /\ cursor' = [cursor EXCEPT ![r] = next[s]]
      /\ etag' = [etag EXCEPT ![r] = IF onFirst[s] THEN tag[s] ELSE etag[r]]
      /\ walk' = [walk EXCEPT ![r] = chain[s]]
      /\ onFirst' = [onFirst EXCEPT ![s] = FALSE]
      /\ tag' = [tag EXCEPT ![s] = {}]
      /\ rows' = [rows EXCEPT ![s] = <<>>]
      /\ UNCHANGED <<status, hub, tracked, at, next, chain, promised, movedUp, overlapped, stranded, counts>>
    BY <1>0 DEF StorePage, Checkpoint, RecordType
<1>2. IF next[s] = 0 THEN pc' = [pc EXCEPT ![s] = "finish"] /\ page' = page
                     ELSE pc' = [pc EXCEPT ![s] = "fetch"] /\ page' = [page EXCEPT ![s] = next[s]]
    BY DEF StorePage, Goto
<1>3. TaskType'
  <2>1. /\ pc' \in [Syncs -> {"off", "read", "begin", "fetch", "prepare", "store", "finish", "failing"}]
        /\ page' \in [Syncs -> Nat \ {0}]
    BY <1>0, <1>2 DEF TaskType
  <2>2. rows' \in [Syncs -> Seq(Row)]
    BY <1>0, <1>1 DEF TaskType
  <2> QED BY <1>0, <1>1, <2>1, <2>2 DEF TaskType
<1>4. RecordType'
  <2>1. tag[s] \subseteq Seq(Ids \X Nat) /\ chain[s] \subseteq Ids
    BY <1>0 DEF TaskType
  <2> QED BY <1>0, <1>1, <2>1 DEF RecordType
<1>5. Elsewhere(s)
    BY <1>0, <1>1, <1>2 DEF TaskType, Elsewhere
<1>6. Apart(r)
    BY <1>0, <1>1 DEF RecordType, Apart
<1>7. /\ pc'[s] = (IF next[s] = 0 THEN "finish" ELSE "fetch") /\ (next[s] # 0 => page'[s] = next[s])
      /\ onFirst'[s] = FALSE /\ tag'[s] = {}
    BY <1>0, <1>1, <1>2 DEF TaskType
<1>8. /\ cursor'[r] = next[s] /\ etag'[r] = (IF onFirst[s] THEN tag[s] ELSE etag[r]) /\ walk'[r] = chain[s]
    BY <1>0, <1>1 DEF RecordType
<1> QED BY <1>1, <1>3, <1>4, <1>5, <1>6, <1>7, <1>8

(* The next resource, or the end. *)
LEMMA NextResourceFacts ==
    ASSUME TaskType, NEW s \in Syncs, NextResource(s)
    PROVE  /\ pc' \in [Syncs -> {"off", "read", "begin", "fetch", "prepare", "store", "finish", "failing"}]
           /\ at' \in [Syncs -> 1..5]
           /\ pc'[s] \in {"off", "begin"}
           /\ \A q \in Syncs \ {s} : pc'[q] = pc[q] /\ at'[q] = at[q]
<1>1. /\ pc' = [pc EXCEPT ![s] = IF at[s] = 5 THEN "off" ELSE "begin"]
      /\ at' = [at EXCEPT ![s] = IF at[s] = 5 THEN 1 ELSE at[s] + 1]
    BY ResourceNames DEF NextResource, Goto, TaskType
<1>2. (IF at[s] = 5 THEN 1 ELSE at[s] + 1) \in 1..5
  <2>1. at[s] \in 1..5
    BY DEF TaskType
  <2> QED BY <2>1
<1>3. pc \in [Syncs -> {"off", "read", "begin", "fetch", "prepare", "store", "finish", "failing"}] /\ at \in [Syncs -> 1..5]
    BY DEF TaskType
<1>4. at' \in [Syncs -> 1..5] /\ \A q \in Syncs \ {s} : at'[q] = at[q]
    BY <1>1, <1>2, <1>3
<1> QED BY <1>1, <1>3, <1>4

(* finish_resource. *)
LEMMA FinishFacts ==
    ASSUME HubInv, TaskInv, NEW s \in Syncs, FinishResource(s), NEW r \in Resources, r = At(s)
    PROVE  /\ TaskType' /\ RecordType' /\ Elsewhere(s) /\ Apart(r)
           /\ pc[s] = "finish" /\ pc'[s] \in {"off", "begin"}
           /\ status'[r] = "idle" /\ cursor'[r] = 0
           /\ promised'[r] = promised[r] \cup chain[s]
           /\ UNCHANGED <<hub, etag, facts, walk, movedUp, overlapped, stranded, counts>>
<1>0. TaskType /\ RecordType /\ chain[s] \subseteq Ids
    BY DEF TaskInv, TaskType
<1>1. /\ pc[s] = "finish" /\ NextResource(s)
      /\ status' = [status EXCEPT ![r] = "idle"]
      /\ cursor' = [cursor EXCEPT ![r] = 0]
      /\ promised' = [promised EXCEPT ![r] = promised[r] \cup chain[s]]
      /\ UNCHANGED <<hub, tracked, etag, facts, page, onFirst, tag, rows, next, chain, walk, movedUp,
                     overlapped, stranded, counts>>
    BY <1>0 DEF FinishResource, RecordType
<1>2. TaskType'
    BY <1>0, <1>1, NextResourceFacts DEF TaskType
<1>3. RecordType'
    BY <1>0, <1>1 DEF RecordType
<1>4. Elsewhere(s)
    BY <1>0, <1>1, NextResourceFacts DEF Elsewhere
<1>5. Apart(r)
    BY <1>0, <1>1 DEF RecordType, Apart
<1>6. status'[r] = "idle" /\ cursor'[r] = 0 /\ promised'[r] = promised[r] \cup chain[s]
    BY <1>0, <1>1 DEF RecordType
<1> QED BY <1>0, <1>1, <1>2, <1>3, <1>4, <1>5, <1>6, NextResourceFacts

(* The steps by which a task neither holds nor fetches anything. *)
Rests(s) ==
    EnableTracking(s) \/ ReadRepository(s) \/ SyncError(s) \/ RecordError(s) \/ RecordErrorFails(s) \/ Crash(s)

(* They leave the progress that is recorded alone. *)
LEMMA RestFacts ==
    ASSUME HubInv, TaskInv, NEW s \in Syncs, Rests(s)
    PROVE  /\ TaskType' /\ RecordType' /\ Elsewhere(s)
           /\ pc'[s] \in {"off", "read", "begin", "failing"}
           /\ overlapped \subseteq overlapped'
           /\ UNCHANGED <<hub, cursor, etag, facts, walk, promised, movedUp>>
<1>0. TaskType /\ RecordType /\ \A q \in Syncs : At(q) \in Resources
    BY AtResource DEF TaskInv
<1>1. CASE EnableTracking(s)
  <2>1. /\ tracked' = TRUE /\ pc' = [pc EXCEPT ![s] = "read"]
        /\ UNCHANGED <<hub, sync, facts, at, page, onFirst, tag, rows, next, chain, history>>
    BY <1>1 DEF EnableTracking, Goto
  <2>2. TaskType' /\ Elsewhere(s) /\ pc'[s] = "read"
    BY <1>0, <2>1 DEF TaskType, Elsewhere
  <2>3. RecordType' /\ UNCHANGED <<hub, cursor, etag, facts, walk, promised, movedUp, overlapped>>
    BY <1>0, <2>1 DEF RecordType, sync, history
  <2> QED BY <2>2, <2>3
<1>2. CASE ReadRepository(s)
  <2>1. /\ pc' = [pc EXCEPT ![s] = IF tracked THEN "begin" ELSE "off"] /\ at' = [at EXCEPT ![s] = 1]
        /\ UNCHANGED <<hub, tracked, sync, facts, page, onFirst, tag, rows, next, chain, history>>
    BY <1>2 DEF ReadRepository, Goto
  <2>2. TaskType' /\ Elsewhere(s) /\ pc'[s] \in {"begin", "off"}
    BY <1>0, <2>1 DEF TaskType, Elsewhere
  <2>3. RecordType' /\ UNCHANGED <<hub, cursor, etag, facts, walk, promised, movedUp, overlapped>>
    BY <1>0, <2>1 DEF RecordType, sync, history
  <2> QED BY <2>2, <2>3
<1>3. CASE SyncError(s)
  <2>1. /\ pc' = [pc EXCEPT ![s] = "failing"] /\ Meet(s)
        /\ UNCHANGED <<hub, tracked, sync, facts, at, page, onFirst, tag, rows, next, chain, walk,
                       promised, movedUp, stranded>>
    BY <1>3 DEF SyncError, Goto
  <2>2. TaskType' /\ Elsewhere(s) /\ pc'[s] = "failing"
    BY <1>0, <2>1 DEF TaskType, Elsewhere
  <2>3. overlapped' \subseteq Resources /\ overlapped \subseteq overlapped'
    BY <1>0, <2>1 DEF RecordType, Meet
  <2>4. RecordType' /\ UNCHANGED <<hub, cursor, etag, facts, walk, promised, movedUp>>
    BY <1>0, <2>1, <2>3 DEF RecordType, sync
  <2> QED BY <2>2, <2>3, <2>4
<1>4. CASE RecordError(s)
  <2>1. PICK r \in Resources : r = At(s)
    BY <1>0
  <2>2. /\ status' = [status EXCEPT ![r] = IF status[r] = "none" THEN "none" ELSE "error"]
        /\ NextResource(s)
        /\ UNCHANGED <<hub, tracked, cursor, etag, facts, page, onFirst, tag, rows, next, chain, history>>
    BY <1>0, <1>4, <2>1 DEF RecordError, RecordType
  <2>3. TaskType'
    BY <1>0, <2>2, NextResourceFacts DEF TaskType
  <2>4. Elsewhere(s) /\ pc'[s] \in {"off", "begin"}
    BY <1>0, <2>2, NextResourceFacts DEF Elsewhere
  <2>5. RecordType' /\ UNCHANGED <<hub, cursor, etag, facts, walk, promised, movedUp, overlapped>>
    BY <1>0, <2>2 DEF RecordType, history
  <2> QED BY <2>3, <2>4, <2>5
<1>5. CASE RecordErrorFails(s) \/ Crash(s)
  <2>1. /\ pc' = [pc EXCEPT ![s] = "off"] /\ Strand(s)
        /\ UNCHANGED <<hub, tracked, sync, facts, at, page, onFirst, tag, rows, next, chain, walk,
                       promised, movedUp, overlapped>>
    BY <1>5 DEF RecordErrorFails, Crash, Goto
  <2>2. TaskType' /\ Elsewhere(s) /\ pc'[s] = "off"
    BY <1>0, <2>1 DEF TaskType, Elsewhere
  <2>3. stranded' \subseteq Resources
    BY <1>0, <2>1 DEF RecordType, Strand
  <2>4. RecordType' /\ UNCHANGED <<hub, cursor, etag, facts, walk, promised, movedUp, overlapped>>
    BY <1>0, <2>1, <2>3 DEF RecordType, sync
  <2> QED BY <2>2, <2>4
<1> QED BY <1>1, <1>2, <1>3, <1>4, <1>5 DEF Rests

-----------------------------------------------------------------------------
(* The rows of the database. *)

FactInv ==
    /\ stored \in [Resources -> [Ids -> Nat]]
    /\ firstReview \in [Ids -> Nat]
    /\ detailed \subseteq Ids
    /\ FirstReviewIsReal

(* What no write undoes, except for items that are known to have moved. *)
FactsKeep ==
    /\ \A r \in Resources : \A i \in Ids \ movedUp[r] : stored[r][i] > 0 => stored'[r][i] > 0
    /\ detailed \subseteq detailed'
    /\ \A i \in Ids : firstReview[i] # 0 => firstReview'[i] \in 1..firstReview[i]

(* LEAST is the time of one of the two, and never later. *)
LEMMA LeastFacts ==
    ASSUME NEW a \in Nat, NEW b \in Nat
    PROVE  /\ Least(a, b) \in Nat /\ Least(a, b) \in {a, b}
           /\ a # 0 => Least(a, b) \in 1..a
           /\ Least(a, a) = a
    BY DEF Least

(* The rows are left alone. *)
LEMMA FactsStay ==
    ASSUME HubInv, FactInv, UNCHANGED facts, \A i \in Ids : reviews[i] \subseteq reviews'[i]
    PROVE  FactInv' /\ FactsKeep
<1>1. UNCHANGED <<stored, firstReview, detailed>>
    BY DEF facts
<1>2. \A i \in Ids : firstReview[i] # 0 => firstReview'[i] \in 1..firstReview[i]
    BY <1>1 DEF FactInv
<1>3. FactInv'
    BY <1>1 DEF FactInv, FirstReviewIsReal
<1> QED BY <1>1, <1>2, <1>3 DEF FactsKeep

(* An upsert of rows of a resource. *)
LEMMA StoredGrows ==
    ASSUME FactInv, NEW r \in Resources, NEW new, \A w \in new : w \in Row /\ w.ver > 0,
           stored' = [stored EXCEPT ![r] = [i \in Ids |->
              IF \E w \in new : w.id = i THEN (CHOOSE w \in new : w.id = i).ver ELSE @[i]]]
    PROVE  /\ stored' \in [Resources -> [Ids -> Nat]]
           /\ \A w \in new : stored'[r][w.id] > 0
           /\ \A x \in Resources, i \in Ids : stored[x][i] > 0 => stored'[x][i] > 0
<1> DEFINE f == [i \in Ids |-> IF \E w \in new : w.id = i THEN (CHOOSE w \in new : w.id = i).ver ELSE stored[r][i]]
<1>1. stored \in [Resources -> [Ids -> Nat]]
    BY DEF FactInv
<1>2. stored' = [stored EXCEPT ![r] = f]
    BY <1>1
<1>3. ASSUME NEW i \in Ids
      PROVE  /\ f[i] \in Nat
             /\ (\E w \in new : w.id = i) => f[i] > 0
             /\ stored[r][i] > 0 => f[i] > 0
  <2>1. CASE \E w \in new : w.id = i
    <3>1. PICK v : v = (CHOOSE w \in new : w.id = i) /\ v \in new
      BY <2>1
    <3>2. v.ver \in Nat /\ v.ver > 0
      BY <3>1 DEF Row
    <3>3. f[i] = v.ver
      BY <2>1, <3>1
    <3> QED BY <3>2, <3>3
  <2>2. CASE ~\E w \in new : w.id = i
    <3>1. f[i] = stored[r][i] /\ stored[r][i] \in Nat
      BY <1>1, <2>2
    <3> QED BY <2>2, <3>1
  <2> QED BY <2>1, <2>2
<1>4. f \in [Ids -> Nat]
    BY <1>3
<1> HIDE DEF f
<1>5. stored' \in [Resources -> [Ids -> Nat]]
    BY <1>1, <1>2, <1>4
<1>6. stored'[r] = f /\ \A x \in Resources \ {r} : stored'[x] = stored[x]
    BY <1>1, <1>2
<1>7. \A w \in new : w.id \in Ids
    BY DEF Row
<1>8. \A w \in new : stored'[r][w.id] > 0
    BY <1>3, <1>6, <1>7
<1>9. ASSUME NEW x \in Resources, NEW i \in Ids, stored[x][i] > 0 PROVE stored'[x][i] > 0
  <2>1. CASE x = r
    BY <1>3, <1>6, <1>9, <2>1
  <2>2. CASE x # r
    BY <1>6, <1>9, <2>2
  <2> QED BY <2>1, <2>2
<1> QED BY <1>5, <1>8, <1>9

(* A page of a resource without reviews. *)
LEMMA UpsertFacts ==
    ASSUME HubInv, FactInv, UNCHANGED hub, NEW r \in Resources, NEW new,
           \A w \in new : w \in Row /\ w.ver > 0, Upsert(r, new)
    PROVE  FactInv' /\ FactsKeep /\ \A w \in new : stored'[r][w.id] > 0
<1>1. /\ stored' = [stored EXCEPT ![r] = [i \in Ids |->
              IF \E w \in new : w.id = i THEN (CHOOSE w \in new : w.id = i).ver ELSE @[i]]]
      /\ UNCHANGED <<firstReview, detailed, reviews>>
    BY DEF Upsert, hub
<1>2. /\ stored' \in [Resources -> [Ids -> Nat]]
      /\ \A w \in new : stored'[r][w.id] > 0
      /\ \A x \in Resources, i \in Ids : stored[x][i] > 0 => stored'[x][i] > 0
    BY <1>1, StoredGrows
<1>3. FactInv'
    BY <1>1, <1>2 DEF FactInv, FirstReviewIsReal
<1>4. \A i \in Ids : firstReview[i] # 0 => firstReview'[i] \in 1..firstReview[i]
    BY <1>1 DEF FactInv
<1> QED BY <1>1, <1>2, <1>3, <1>4 DEF FactsKeep

(* upsert_pull_request: what comes in happened, and LEAST keeps the first. *)
LEMMA UpsertPullsFacts ==
    ASSUME HubInv, FactInv, UNCHANGED hub, NEW new,
           \A w \in new : w \in Row /\ w.ver > 0 /\ w.review \in {0} \cup reviews[w.id], UpsertPulls(new)
    PROVE  /\ FactInv' /\ FactsKeep
           /\ \A w \in new : stored'["pull_requests"][w.id] > 0 /\ (w.details => w.id \in detailed')
<1>1. /\ stored' = [stored EXCEPT !["pull_requests"] = [i \in Ids |->
              IF \E w \in new : w.id = i THEN (CHOOSE w \in new : w.id = i).ver ELSE @[i]]]
      /\ firstReview' = [i \in Ids |-> IF \E w \in new : w.id = i
                THEN Least(firstReview[i], (CHOOSE w \in new : w.id = i).review) ELSE firstReview[i]]
      /\ detailed' = detailed \cup {w.id : w \in {v \in new : v.details}}
      /\ UNCHANGED reviews
    BY DEF UpsertPulls, hub
<1>2. /\ stored' \in [Resources -> [Ids -> Nat]]
      /\ \A w \in new : stored'["pull_requests"][w.id] > 0
      /\ \A x \in Resources, i \in Ids : stored[x][i] > 0 => stored'[x][i] > 0
    BY <1>1, ResourceNames, StoredGrows
<1>3. ASSUME NEW i \in Ids
      PROVE  /\ firstReview'[i] \in Nat
             /\ firstReview'[i] = 0 \/ firstReview'[i] \in reviews[i]
             /\ firstReview[i] # 0 => firstReview'[i] \in 1..firstReview[i]
  <2>0. firstReview[i] \in Nat /\ (firstReview[i] = 0 \/ firstReview[i] \in reviews[i])
    BY DEF FactInv, FirstReviewIsReal
  <2>1. CASE \E w \in new : w.id = i
    <3>1. PICK v : v = (CHOOSE w \in new : w.id = i) /\ v \in new /\ v.id = i
      BY <2>1
    <3>2. v.review \in Nat /\ v.review \in {0} \cup reviews[i]
      BY <3>1 DEF Row
    <3>3. firstReview'[i] = Least(firstReview[i], v.review)
      BY <1>1, <2>1, <3>1
    <3>4. PICK a \in Nat, b \in Nat : a = firstReview[i] /\ b = v.review
      BY <2>0, <3>2
    <3>5. /\ Least(a, b) \in Nat /\ Least(a, b) \in {a, b} /\ (a # 0 => Least(a, b) \in 1..a)
      BY LeastFacts
    <3> QED BY <2>0, <3>2, <3>3, <3>4, <3>5
  <2>2. CASE ~\E w \in new : w.id = i
    BY <1>1, <2>0, <2>2
  <2> QED BY <2>1, <2>2
<1>4. firstReview' \in [Ids -> Nat]
    BY <1>1, <1>3
<1>5. detailed' \subseteq Ids /\ detailed \subseteq detailed' /\ \A w \in new : w.details => w.id \in detailed'
    BY <1>1 DEF FactInv, Row
<1>6. FactInv'
    BY <1>1, <1>2, <1>3, <1>4, <1>5 DEF FactInv, FirstReviewIsReal
<1> QED BY <1>2, <1>3, <1>5, <1>6 DEF FactsKeep

(* A webhook. *)
LEMMA WebhookFacts ==
    ASSUME HubInv, FactInv, WebhookStep
    PROVE  FactInv' /\ FactsKeep /\ UNCHANGED <<hub, tracked, sync, task, history, counts>>
<1>1. PICK m \in deliveries : ApplyPush(m) \/ ApplyDelete(m) \/ ApplyPullRequest(m) \/ ApplyReview(m)
    BY DEF WebhookStep
<1>2. UNCHANGED <<hub, tracked, sync, task, history, counts>>
    BY <1>1 DEF ApplyPush, ApplyDelete, ApplyPullRequest, ApplyReview
<1>3. Sent(m) /\ m \in Message /\ m.item \in Ids /\ m.ver \in Nat /\ m.ver > 0 /\ m.ref \in Nat
    BY DEF HubInv, Sent, Message
<1>4. /\ stored \in [Resources -> [Ids -> Nat]] /\ firstReview \in [Ids -> Nat]
      /\ "branches" \in Resources /\ "commits" \in Resources /\ "branches" # "commits"
    BY ResourceNames DEF FactInv
<1>5. ASSUME UNCHANGED <<firstReview, detailed, reviews>>, stored' \in [Resources -> [Ids -> Nat]],
             \A r \in Resources : \A i \in Ids \ movedUp[r] : stored[r][i] > 0 => stored'[r][i] > 0
      PROVE  FactInv' /\ FactsKeep
  <2>1. \A i \in Ids : firstReview[i] # 0 => firstReview'[i] \in 1..firstReview[i]
    BY <1>4, <1>5
  <2> QED BY <1>5, <2>1 DEF FactInv, FirstReviewIsReal, FactsKeep
<1>6. CASE ApplyPush(m)
  <2> DEFINE f == [i \in Ids |-> IF i = m.ref THEN 1 ELSE stored["commits"][i]]
  <2>1. stored' = [stored EXCEPT !["branches"][m.item] = m.ver, !["commits"] = f]
    BY <1>4, <1>6 DEF ApplyPush
  <2>2. f \in [Ids -> Nat] /\ \A i \in Ids : stored["commits"][i] > 0 => f[i] > 0
    BY <1>4
  <2> HIDE DEF f
  <2>3. /\ stored'["branches"] = [stored["branches"] EXCEPT ![m.item] = m.ver] /\ stored'["commits"] = f
        /\ \A x \in Resources \ {"branches", "commits"} : stored'[x] = stored[x]
    BY <1>4, <2>1
  <2>4. stored["branches"] \in [Ids -> Nat]
    BY <1>4
  <2>5. stored'["branches"] \in [Ids -> Nat] /\ \A i \in Ids : stored["branches"][i] > 0 => stored'["branches"][i] > 0
    BY <1>3, <2>3, <2>4
  <2>6. \A x \in Resources : stored'[x] \in [Ids -> Nat] /\ \A i \in Ids : stored[x][i] > 0 => stored'[x][i] > 0
    BY <1>4, <2>2, <2>3, <2>5
  <2>7. DOMAIN stored' = Resources /\ stored' = [x \in DOMAIN stored' |-> stored'[x]]
    BY <1>4, <2>1
  <2>8. stored' \in [Resources -> [Ids -> Nat]]
    BY <2>6, <2>7
  <2>9. UNCHANGED <<firstReview, detailed, reviews>>
    BY <1>6 DEF ApplyPush, hub
  <2> QED BY <1>2, <1>5, <2>6, <2>8, <2>9
<1>7. CASE ApplyDelete(m)
  <2>1. m.item \in movedUp["branches"]
    BY <1>3, <1>7 DEF ApplyDelete, Apply, Sent
  <2>2. stored' = [stored EXCEPT !["branches"][m.item] = 0]
    BY <1>7 DEF ApplyDelete
  <2>3. /\ stored'["branches"] = [stored["branches"] EXCEPT ![m.item] = 0]
        /\ \A x \in Resources \ {"branches"} : stored'[x] = stored[x]
    BY <1>4, <2>2
  <2>4. stored["branches"] \in [Ids -> Nat]
    BY <1>4
  <2>5. stored'["branches"] \in [Ids -> Nat] /\ \A i \in Ids \ {m.item} : stored'["branches"][i] = stored["branches"][i]
    BY <1>3, <2>3, <2>4
  <2>6. \A x \in Resources : stored'[x] \in [Ids -> Nat]
    BY <1>4, <2>3, <2>5
  <2>7. \A x \in Resources : \A i \in Ids \ movedUp[x] : stored[x][i] > 0 => stored'[x][i] > 0
    BY <2>1, <2>3, <2>5
  <2>8. DOMAIN stored' = Resources /\ stored' = [x \in DOMAIN stored' |-> stored'[x]]
    BY <1>4, <2>2
  <2>9. stored' \in [Resources -> [Ids -> Nat]]
    BY <2>6, <2>8
  <2>10. UNCHANGED <<firstReview, detailed, reviews>>
    BY <1>7 DEF ApplyDelete, hub
  <2> QED BY <1>2, <1>5, <2>7, <2>9, <2>10
<1>8. CASE ApplyPullRequest(m)
  <2> DEFINE w == [id |-> m.item, ver |-> m.ver, review |-> firstReview[m.item], details |-> TRUE]
  <2>1. w \in Row /\ w.ver > 0 /\ w.review \in {0} \cup reviews[w.id]
    BY <1>3, <1>4 DEF Row, FactInv, FirstReviewIsReal
  <2>2. UpsertPulls({w})
    BY <1>8 DEF ApplyPullRequest
  <2>3. PICK new : new = {w}
    OBVIOUS
  <2>4. UpsertPulls(new) /\ \A v \in new : v \in Row /\ v.ver > 0 /\ v.review \in {0} \cup reviews[v.id]
    BY <2>1, <2>2, <2>3
  <2> QED BY <1>2, <2>4, UpsertPullsFacts
<1>9. CASE ApplyReview(m)
  <2> DEFINE w == [id |-> m.item, ver |-> m.ver, details |-> FALSE, review |-> Least(firstReview[m.item], m.ref)]
  <2>1. m.ref \in reviews[m.item] /\ firstReview[m.item] \in Nat
        /\ firstReview[m.item] \in {0} \cup reviews[m.item]
    BY <1>3, <1>4, <1>9 DEF ApplyReview, Apply, Sent, FactInv, FirstReviewIsReal
  <2>2. PICK a \in Nat, b \in Nat : a = firstReview[m.item] /\ b = m.ref
    BY <1>3, <2>1
  <2>3. Least(a, b) \in Nat /\ Least(a, b) \in {a, b}
    BY LeastFacts
  <2>4. w \in Row /\ w.ver > 0 /\ w.review \in {0} \cup reviews[w.id]
    BY <1>3, <2>1, <2>2, <2>3 DEF Row
  <2>5. UpsertPulls({w})
    BY <1>9 DEF ApplyReview
  <2>6. PICK new : new = {w}
    OBVIOUS
  <2>7. UpsertPulls(new) /\ \A v \in new : v \in Row /\ v.ver > 0 /\ v.review \in {0} \cup reviews[v.id]
    BY <2>4, <2>5, <2>6
  <2> QED BY <1>2, <2>7, UpsertPullsFacts
<1> QED BY <1>1, <1>2, <1>6, <1>7, <1>8, <1>9

-----------------------------------------------------------------------------
(* Types, and the times of reviews. *)

BaseInv == HubInv /\ FactInv /\ TaskInv /\ CountType

Stores(s) ==
    SyncBranches(s) \/ SyncCommits(s) \/ SyncPullRequests(s) \/ SyncWorkflows(s) \/ SyncWorkflowRuns(s)

(* What can happen. *)
LEMMA StepCases ==
    ASSUME [Next]_vars
    PROVE  \/ HubStep \/ WebhookStep \/ DisableTracking \/ UNCHANGED vars
           \/ \E s \in Syncs : Rests(s) \/ BeginResource(s) \/ NotModified(s) \/ FetchPage(s) \/ PreparePulls(s)
                               \/ Stores(s) \/ FinishResource(s)
    BY DEF Next, SyncStep, Rests, Stores

(* An etag stays one of versions that were there. *)
LEMMA OlderStays ==
    ASSUME HubInv, Onward, NEW r \in Resources, NEW t \in SUBSET Seq(Ids \X Nat), Older(r, t)
    PROVE  Older(r, t)'
<1> SUFFICES ASSUME NEW p \in t, NEW k \in 1..Len(p) PROVE p[k][2] <= ver'[r][p[k][1]]
    BY DEF Older
<1>1. p[k] \in Ids \X Nat
    OBVIOUS
<1>2. PICK i \in Ids, v \in Nat : i = p[k][1] /\ v = p[k][2]
    BY <1>1
<1>3. v <= ver[r][i] /\ ver[r][i] <= ver'[r][i] /\ ver[r][i] \in Nat /\ ver'[r][i] \in Nat
    BY <1>2 DEF Older, Onward, HubInv, Moves
<1> QED BY <1>2, <1>3

(* A row stays one of an item that exists. *)
LEMMA RealStays ==
    ASSUME HubInv, Onward, NEW r \in Resources, NEW w \in Row, Real(r, w)
    PROVE  Real(r, w)'
<1>1. PICK i \in Ids : i = w.id
    BY DEF Row
<1>2. ver[r][i] > 0 /\ ver[r][i] <= ver'[r][i] /\ ver[r][i] \in Nat /\ ver'[r][i] \in Nat
    BY <1>1 DEF Real, Onward, HubInv, Moves
<1>3. reviews[i] \subseteq reviews'[i]
    BY DEF Onward
<1> QED BY <1>1, <1>2, <1>3 DEF Real

(* A task that is left alone. *)
LEMMA CarriesOn ==
    ASSUME HubInv, Onward, TaskInv, NEW s \in Syncs,
           pc'[s] = pc[s], at'[s] = at[s], tag'[s] = tag[s], rows'[s] = rows[s]
    PROVE  Carries(s)'
<1>1. PICK r \in Resources : r = At(s) /\ r = At(s)'
    BY AtResource, SamePlace DEF TaskInv
<1>2. PICK t \in SUBSET Seq(Ids \X Nat) : t = tag[s] /\ t = tag'[s]
    BY DEF TaskInv, TaskType
<1>3. PICK x \in Seq(Row) : x = rows[s] /\ x = rows'[s]
    BY DEF TaskInv, TaskType
<1>4. Carries(s)
    BY DEF TaskInv
<1>5. pc'[s] \in {"fetch", "prepare", "store"} => Older(r, t)'
    BY <1>1, <1>2, <1>4, OlderStays DEF Carries
<1>6. ASSUME pc'[s] \in {"prepare", "store"}, NEW k \in 1..Len(x) PROVE Real(r, x[k])'
  <2>1. x[k] \in Row /\ Real(r, x[k])
    BY <1>1, <1>3, <1>4, <1>6 DEF Carries
  <2>2. PICK w \in Row : w = x[k] /\ Real(r, w)
    BY <2>1
  <2> QED BY <2>2, RealStays
<1>7. /\ pc'[s] = "prepare" => r = "pull_requests"
      /\ pc'[s] = "store" /\ r = "pull_requests" => \A k \in 1..Len(x) : x[k].details
    BY <1>1, <1>3, <1>4 DEF Carries
<1>8. pc'[s] \in {"fetch", "prepare", "store"} => Older(At(s), tag[s])'
    BY <1>1, <1>2, <1>5 DEF Older
<1>9. pc'[s] \in {"prepare", "store"} => \A k \in 1..Len(rows'[s]) : Real(At(s), rows[s][k])'
    BY <1>1, <1>3, <1>6 DEF Real
<1> QED BY <1>1, <1>3, <1>7, <1>8, <1>9 DEF Carries

(* The etags of the resources. *)
LEMMA EtagsStay ==
    ASSUME HubInv, Onward, TaskInv, UNCHANGED etag
    PROVE  \A r \in Resources : Older(r, etag[r])'
<1> SUFFICES ASSUME NEW r \in Resources PROVE Older(r, etag[r])'
    OBVIOUS
<1>1. PICK t \in SUBSET Seq(Ids \X Nat) : t = etag[r] /\ t = etag'[r] /\ Older(r, t)
    BY DEF TaskInv, RecordType
<1>2. Older(r, t)'
    BY <1>1, OlderStays
<1> QED BY <1>1, <1>2 DEF Older

(* One task moves. *)
LEMMA TaskMoves ==
    ASSUME HubInv, Onward, TaskInv, NEW s \in Syncs, Elsewhere(s), TaskType', RecordType',
           \A r \in Resources : Older(r, etag[r])', Carries(s)'
    PROVE  TaskInv'
<1>1. \A q \in Syncs \ {s} : Carries(q)'
    BY CarriesOn DEF Elsewhere
<1> QED BY <1>1 DEF TaskInv

(* No task moves. *)
LEMMA TasksStay ==
    ASSUME HubInv, Onward, TaskInv, UNCHANGED <<task, etag>>, RecordType'
    PROVE  TaskInv'
<1>1. UNCHANGED <<pc, at, page, onFirst, tag, rows, next, chain>>
    BY DEF task
<1>2. \A q \in Syncs : Carries(q)'
    BY <1>1, CarriesOn
<1>3. TaskType'
    BY <1>1 DEF TaskInv, TaskType
<1> QED BY <1>2, <1>3, EtagsStay DEF TaskInv

(* The rows of a page are stored. *)
LEMMA PageStored ==
    ASSUME HubInv, FactInv, TaskInv, NEW s \in Syncs, Stores(s)
    PROVE  \E r \in Resources :
             /\ StorePage(s, r) /\ FactInv' /\ FactsKeep
             /\ \A k \in 1..Len(rows[s]) :
                  /\ stored'[r][rows[s][k].id] > 0
                  /\ r = "pull_requests" => rows[s][k].id \in detailed'
<1>1. PICK r \in Resources :
        /\ StorePage(s, r)
        /\ r = "pull_requests" => UpsertPulls(Held(s))
        /\ r # "pull_requests" => Upsert(r, Held(s))
    BY ResourceNames DEF Stores, SyncBranches, SyncCommits, SyncPullRequests, SyncWorkflows, SyncWorkflowRuns
<1>2. UNCHANGED hub /\ pc[s] = "store" /\ r = At(s) /\ rows[s] \in Seq(Row) /\ Carries(s)
    BY <1>1 DEF StorePage, TaskInv, TaskType
<1>3. PICK new : new = Held(s)
    OBVIOUS
<1>4. \A w \in new : \E k \in 1..Len(rows[s]) : w = rows[s][k]
    BY <1>3 DEF Held
<1>5. \A k \in 1..Len(rows[s]) : rows[s][k] \in new /\ rows[s][k] \in Row /\ Real(r, rows[s][k])
    BY <1>2, <1>3 DEF Held, Carries
<1>6. \A w \in new : w \in Row /\ w.ver > 0 /\ w.review \in {0} \cup reviews[w.id]
    BY <1>4, <1>5 DEF Real
<1>7. CASE r = "pull_requests"
  <2>1. /\ FactInv' /\ FactsKeep
        /\ \A w \in new : stored'["pull_requests"][w.id] > 0 /\ (w.details => w.id \in detailed')
    BY <1>1, <1>2, <1>3, <1>6, <1>7, UpsertPullsFacts
  <2>2. \A k \in 1..Len(rows[s]) : rows[s][k].details
    BY <1>2, <1>7 DEF Carries
  <2> QED BY <1>1, <1>5, <1>7, <2>1, <2>2
<1>8. CASE r # "pull_requests"
  <2>1. FactInv' /\ FactsKeep /\ \A w \in new : stored'[r][w.id] > 0
    BY <1>1, <1>2, <1>3, <1>6, <1>8, UpsertFacts
  <2> QED BY <1>1, <1>5, <1>8, <2>1
<1> QED BY <1>7, <1>8

(* Every step: lists go on, facts are kept. *)
LEMMA StepKeeps ==
    ASSUME HubInv, FactInv, TaskInv, [Next]_vars
    PROVE  Onward /\ FactInv' /\ FactsKeep
<1>1. CASE HubStep
  <2>1. Onward
    BY <1>1, HubOnward
  <2>2. UNCHANGED facts
    BY <1>1 DEF HubStep, Push, DeleteBranch, UpdatePull, Appear, Change
  <2> QED BY <2>1, <2>2, FactsStay DEF Onward
<1>2. CASE WebhookStep
  <2>1. FactInv' /\ FactsKeep /\ UNCHANGED hub /\ UNCHANGED movedUp
    BY <1>2, WebhookFacts DEF history
  <2> QED BY <2>1, HubStays
<1>3. ASSUME UNCHANGED hub, UNCHANGED movedUp, UNCHANGED facts PROVE Onward /\ FactInv' /\ FactsKeep
    BY <1>3, HubStays, FactsStay DEF Onward
<1>4. CASE DisableTracking \/ UNCHANGED vars
    BY <1>3, <1>4 DEF DisableTracking, vars, history
<1>5. ASSUME NEW s \in Syncs, Stores(s) PROVE Onward /\ FactInv' /\ FactsKeep
  <2>1. PICK r \in Resources : StorePage(s, r) /\ FactInv' /\ FactsKeep
    BY <1>5, PageStored
  <2>2. UNCHANGED hub /\ UNCHANGED movedUp
    BY <2>1 DEF StorePage
  <2> QED BY <2>1, <2>2, HubStays
<1>6. ASSUME NEW s \in Syncs, BeginResource(s) \/ NotModified(s) \/ FetchPage(s) \/ PreparePulls(s) \/ FinishResource(s)
      PROVE  Onward /\ FactInv' /\ FactsKeep
    BY <1>3, <1>6 DEF BeginResource, NotModified, FetchPage, PreparePulls, FinishResource, history
<1>7. ASSUME NEW s \in Syncs, Rests(s) PROVE Onward /\ FactInv' /\ FactsKeep
    BY <1>3, <1>7, RestFacts
<1> QED BY <1>1, <1>2, <1>4, <1>5, <1>6, <1>7, StepCases

(* A page that was fetched: its items exist in the versions it has. *)
LEMMA FetchCarries ==
    ASSUME HubInv, Onward, TaskInv, NEW s \in Syncs, FetchPage(s)
    PROVE  Carries(s)'
<1>1. PICK r \in Resources : r = At(s)
    BY AtResource DEF TaskInv
<1>2. /\ at'[s] = at[s] /\ pc'[s] = (IF r = "pull_requests" THEN "prepare" ELSE "store")
      /\ page[s] \in Nat \ {0} /\ PageOf(r, page[s]) \in Seq(Ids \X Nat)
      /\ tag'[s] = {PageOf(r, page[s])} /\ rows'[s] = PageRows(PageOf(r, page[s]))
      /\ UNCHANGED hub
    BY <1>1, FetchFacts
<1>3. PICK n \in Nat \ {0}, p \in Seq(Ids \X Nat) : n = page[s] /\ p = PageOf(r, n)
    BY <1>2
<1>4. Listing(r) /\ github[r] \in Seq(Ids) /\ ver[r] \in [Ids -> Nat] /\ ver' = ver /\ reviews' = reviews
    BY <1>2 DEF HubInv, hub
<1>5. ASSUME NEW k \in 1..Len(p)
      PROVE  \E j \in 1..Len(github[r]) : p[k] = <<github[r][j], ver[r][github[r][j]]>>
  <2>1. PICK m : m = (n - 1) * PerPage
    OBVIOUS
  <2>2. \A h \in 1..Len(p) : m + h \in 1..Len(github[r]) /\ p[h] = <<github[r][m + h], ver[r][github[r][m + h]]>>
    BY <1>3, <1>4, <2>1, PageFacts
  <2> QED BY <2>2
<1>6. ASSUME NEW k \in 1..Len(p) PROVE p[k][2] = ver[r][p[k][1]] /\ p[k][2] > 0
  <2>1. PICK j \in 1..Len(github[r]) : p[k] = <<github[r][j], ver[r][github[r][j]]>>
    BY <1>5
  <2>2. ver[r][github[r][j]] > 0
    BY <1>4 DEF Listing
  <2> QED BY <2>1, <2>2
<1>7. \A k \in 1..Len(p) : p[k][1] \in Ids /\ p[k][2] \in Nat
  <2>1. \A k \in 1..Len(p) : p[k] \in Ids \X Nat
    OBVIOUS
  <2> QED BY <2>1
<1>8. At(s)' = r
    BY <1>1, <1>2, SamePlace
<1>9. ASSUME NEW k \in 1..Len(p) PROVE p[k][2] <= ver'[r][p[k][1]]
  <2>1. PICK v \in Nat : v = p[k][2]
    BY <1>7
  <2>2. ver'[r][p[k][1]] = v
    BY <1>4, <1>6, <2>1
  <2> QED BY <2>1, <2>2
<1>10. \A q \in tag'[s] : q = p
    BY <1>2, <1>3
<1>11. Older(At(s), tag[s])'
    BY <1>8, <1>9, <1>10 DEF Older
<1>12. /\ Len(rows'[s]) = Len(p)
       /\ \A k \in 1..Len(p) : rows'[s][k].id = p[k][1] /\ rows'[s][k].ver = p[k][2] /\ rows'[s][k].review = 0
    BY <1>2, <1>3, PageRowsFacts
<1>13. ASSUME NEW k \in 1..Len(rows'[s]) PROVE Real(At(s), rows[s][k])'
  <2>1. rows'[s][k].ver > 0 /\ ver'[r][rows'[s][k].id] > 0 /\ rows'[s][k].review = 0
    BY <1>4, <1>6, <1>12
  <2> QED BY <1>8, <2>1 DEF Real
<1>14. (pc'[s] = "prepare" => r = "pull_requests") /\ ~(pc'[s] = "store" /\ r = "pull_requests")
    BY <1>2
<1> QED BY <1>8, <1>11, <1>13, <1>14 DEF Carries

(* A page that was stored: its etag is kept if it was the first. *)
LEMMA StoreCarries ==
    ASSUME HubInv, Onward, TaskInv, NEW s \in Syncs, NEW r \in Resources, StorePage(s, r)
    PROVE  Carries(s)' /\ \A x \in Resources : Older(x, etag[x])'
<1>1. /\ Apart(r) /\ r = At(s) /\ pc[s] = "store" /\ pc'[s] \in {"finish", "fetch"} /\ tag'[s] = {}
      /\ etag'[r] = (IF onFirst[s] THEN tag[s] ELSE etag[r])
    BY StoreFacts
<1>2. Carries(s)'
    BY <1>1 DEF Carries, Older
<1>3. ASSUME NEW x \in Resources PROVE Older(x, etag[x])'
  <2>1. PICK t \in SUBSET Seq(Ids \X Nat) : t = etag'[x] /\ Older(x, t)
    <3>1. CASE x = r
      <4>1. Older(r, tag[s]) /\ Older(r, etag[r]) /\ tag[s] \subseteq Seq(Ids \X Nat) /\ etag[r] \subseteq Seq(Ids \X Nat)
        BY <1>1 DEF TaskInv, TaskType, RecordType, Carries
      <4> QED BY <1>1, <3>1, <4>1
    <3>2. CASE x # r
      BY <1>1, <3>2 DEF Apart, TaskInv, RecordType
    <3> QED BY <3>1, <3>2
  <2>2. Older(x, t)'
    BY <2>1, OlderStays
  <2> QED BY <2>1, <2>2 DEF Older
<1> QED BY <1>2, <1>3

(* Every step of a task keeps what tasks hold true. *)
LEMMA StepTasks ==
    ASSUME HubInv, FactInv, TaskInv, [Next]_vars
    PROVE  TaskInv'
<1>0. Onward /\ TaskType /\ RecordType
    BY StepKeeps DEF TaskInv
<1>1. ASSUME UNCHANGED task, UNCHANGED etag, RecordType' PROVE TaskInv'
    BY <1>0, <1>1, TasksStay
<1>2. CASE HubStep
  <2>1. UNCHANGED <<tracked, sync, task, walk, promised, overlapped, stranded>>
    BY <1>2 DEF HubStep, Push, DeleteBranch, UpdatePull, Appear, Change
  <2>2. RecordType'
    BY <1>0, <2>1 DEF RecordType, sync
  <2> QED BY <1>1, <2>1, <2>2 DEF sync
<1>3. CASE WebhookStep
  <2>1. UNCHANGED <<tracked, sync, task, history>>
    BY <1>3, WebhookFacts
  <2>2. RecordType'
    BY <1>0, <2>1 DEF RecordType, sync, history
  <2> QED BY <1>1, <2>1, <2>2 DEF sync
<1>4. CASE DisableTracking \/ UNCHANGED vars
  <2>1. UNCHANGED <<sync, task, history>> /\ tracked' \in BOOLEAN
    BY <1>0, <1>4 DEF DisableTracking, vars, RecordType
  <2>2. RecordType'
    BY <1>0, <2>1 DEF RecordType, sync, history
  <2> QED BY <1>1, <2>1, <2>2 DEF sync
<1>5. ASSUME NEW s \in Syncs, Rests(s) PROVE TaskInv'
  <2>1. TaskType' /\ RecordType' /\ Elsewhere(s) /\ pc'[s] \in {"off", "read", "begin", "failing"} /\ UNCHANGED etag
    BY <1>5, RestFacts
  <2>2. Carries(s)'
    BY <2>1 DEF Carries
  <2> QED BY <1>0, <2>1, <2>2, EtagsStay, TaskMoves
<1>6. ASSUME NEW s \in Syncs, BeginResource(s) PROVE TaskInv'
  <2>1. PICK r \in Resources : r = At(s)
    BY <1>0, AtResource
  <2>2. /\ TaskType' /\ RecordType' /\ Elsewhere(s) /\ at'[s] = at[s] /\ pc'[s] = "fetch"
        /\ tag'[s] = (IF cursor[r] = 0 THEN etag[r] ELSE {}) /\ UNCHANGED <<hub, etag>>
    BY <1>6, <2>1, BeginFacts
  <2>3. Older(At(s), tag[s])'
    <3>1. At(s)' = r /\ ver' = ver
      BY <2>1, <2>2, SamePlace DEF hub
    <3>2. Older(r, etag[r])
      BY DEF TaskInv
    <3> QED BY <2>2, <3>1, <3>2 DEF Older
  <2>4. Carries(s)'
    BY <2>2, <2>3 DEF Carries
  <2> QED BY <1>0, <2>2, <2>4, EtagsStay, TaskMoves
<1>7. ASSUME NEW s \in Syncs, NotModified(s) PROVE TaskInv'
  <2>1. PICK r \in Resources : r = At(s)
    BY <1>0, AtResource
  <2>2. TaskType' /\ RecordType' /\ Elsewhere(s) /\ pc'[s] = "finish" /\ UNCHANGED etag
    BY <1>7, <2>1, NotModifiedFacts DEF sync
  <2>3. Carries(s)'
    BY <2>2 DEF Carries
  <2> QED BY <1>0, <2>2, <2>3, EtagsStay, TaskMoves
<1>8. ASSUME NEW s \in Syncs, FetchPage(s) PROVE TaskInv'
  <2>1. PICK r \in Resources : r = At(s)
    BY <1>0, AtResource
  <2>2. TaskType' /\ RecordType' /\ Elsewhere(s) /\ UNCHANGED etag
    BY <1>8, <2>1, FetchFacts DEF sync
  <2> QED BY <1>0, <1>8, <2>2, FetchCarries, EtagsStay, TaskMoves
<1>9. ASSUME NEW s \in Syncs, PreparePulls(s) PROVE TaskInv'
  <2>1. /\ TaskType' /\ RecordType' /\ Elsewhere(s) /\ at'[s] = at[s] /\ UNCHANGED <<hub, sync>>
        /\ pc[s] = "prepare" /\ pc'[s] = "store" /\ tag'[s] = tag[s] /\ Len(rows'[s]) = Len(rows[s])
        /\ \A k \in 1..Len(rows[s]) : rows'[s][k].details /\ Real(At(s), rows'[s][k])
    BY <1>9, PrepareFacts DEF FactInv
  <2>2. At(s)' = At(s) /\ ver' = ver /\ reviews' = reviews /\ UNCHANGED etag
    BY <2>1, SamePlace DEF hub, sync
  <2>3. Older(At(s), tag[s])'
    BY <2>1, <2>2 DEF TaskInv, Carries, Older
  <2>4. \A k \in 1..Len(rows'[s]) : Real(At(s), rows[s][k])' /\ rows'[s][k].details
    BY <2>1, <2>2 DEF Real
  <2>5. Carries(s)'
    BY <2>1, <2>3, <2>4 DEF Carries
  <2> QED BY <1>0, <2>1, <2>2, <2>5, EtagsStay, TaskMoves
<1>10. ASSUME NEW s \in Syncs, Stores(s) PROVE TaskInv'
  <2>1. PICK r \in Resources : StorePage(s, r)
    BY <1>10, PageStored
  <2>2. TaskType' /\ RecordType' /\ Elsewhere(s)
    BY <2>1, StoreFacts
  <2> QED BY <1>0, <2>1, <2>2, StoreCarries, TaskMoves
<1>11. ASSUME NEW s \in Syncs, FinishResource(s) PROVE TaskInv'
  <2>1. PICK r \in Resources : r = At(s)
    BY <1>0, AtResource
  <2>2. TaskType' /\ RecordType' /\ Elsewhere(s) /\ pc'[s] \in {"off", "begin"} /\ UNCHANGED etag
    BY <1>11, <2>1, FinishFacts
  <2>3. Carries(s)'
    BY <2>2 DEF Carries
  <2> QED BY <1>0, <2>2, <2>3, EtagsStay, TaskMoves
<1> QED BY <1>2, <1>3, <1>4, <1>5, <1>6, <1>7, <1>8, <1>9, <1>10, <1>11, StepCases

(* The bounds are only ever spent. *)
LEMMA StepCounts ==
    ASSUME HubInv, FactInv, TaskInv, CountType, [Next]_vars
    PROVE  CountType'
<1>1. CASE UNCHANGED counts
    BY <1>1 DEF counts, CountType
<1>2. CASE changes > 0 /\ changes' = changes - 1 /\ UNCHANGED <<slots, starts, faults>>
    BY <1>2 DEF CountType
<1>3. CASE starts > 0 /\ starts' = starts - 1 /\ UNCHANGED <<slots, changes, faults>>
    BY <1>3 DEF CountType
<1>4. CASE faults > 0 /\ faults' = faults - 1 /\ UNCHANGED <<slots, changes, starts>>
    BY <1>4 DEF CountType
<1>5. CASE HubStep
    BY <1>2, <1>5 DEF HubStep, Push, DeleteBranch, UpdatePull, Appear, Change
<1>6. CASE WebhookStep \/ UNCHANGED vars
    BY <1>1, <1>6, WebhookFacts DEF vars
<1>7. CASE DisableTracking
    BY <1>2, <1>7 DEF DisableTracking
<1>8. ASSUME NEW s \in Syncs, Rests(s) PROVE CountType'
    BY <1>1, <1>3, <1>4, <1>8 DEF Rests, EnableTracking, ReadRepository, SyncError, RecordError, RecordErrorFails,
                                  Crash, Fault
<1>9. ASSUME NEW s \in Syncs, BeginResource(s) \/ NotModified(s) \/ FetchPage(s) \/ PreparePulls(s) \/ FinishResource(s)
      PROVE  CountType'
    BY <1>1, <1>9 DEF BeginResource, NotModified, FetchPage, PreparePulls, FinishResource
<1>10. ASSUME NEW s \in Syncs, Stores(s) PROVE CountType'
  <2>1. PICK r \in Resources : StorePage(s, r)
    BY <1>10, PageStored
  <2> QED BY <1>1, <2>1 DEF StorePage
<1> QED BY <1>5, <1>6, <1>7, <1>8, <1>9, <1>10, StepCases

(* The initial state. *)
LEMMA InitBase == Init => BaseInv
<1> SUFFICES ASSUME Init PROVE BaseInv
    OBVIOUS
<1>0. MaxItems \in Nat /\ Length \in 0..MaxItems /\ Ids = 1..MaxItems
    BY SyncConstants DEF Ids
<1>1. ASSUME NEW r \in Resources PROVE Listing(r)
  <2>1. PICK n \in 0..MaxItems : n = (IF r \in Populated THEN Length ELSE 0)
    BY <1>0
  <2>2. github[r] = [k \in 1..n |-> k]
    BY <2>1 DEF Init
  <2>3. ver[r] = [i \in Ids |-> IF r \in Populated /\ i <= Length THEN 1 ELSE 0]
    BY DEF Init
  <2>4. n \in Nat /\ \A k \in 1..n : k \in Ids
    BY <1>0
  <2>5. github[r] \in Seq(Ids) /\ Len(github[r]) = n /\ \A k \in 1..n : github[r][k] = k
    BY <2>2, <2>4
  <2>6. \A k \in 1..n : ver[r][k] = 1
    BY <1>0, <2>1, <2>3, <2>4
  <2>7. ver[r] \in [Ids -> Nat]
    BY <2>3
  <2> QED BY <2>5, <2>6, <2>7 DEF Listing
<1>2. github \in [Resources -> Seq(Ids)] /\ ver \in [Resources -> [Ids -> Nat]]
  <2>1. \A r \in Resources : github[r] \in Seq(Ids) /\ ver[r] \in [Ids -> Nat]
    BY <1>1 DEF Listing
  <2>2. DOMAIN github = Resources /\ github = [r \in DOMAIN github |-> github[r]]
        /\ DOMAIN ver = Resources /\ ver = [r \in DOMAIN ver |-> ver[r]]
    BY DEF Init
  <2> QED BY <2>1, <2>2
<1>3. Submitted = {}
    BY DEF Submitted, Init
<1>4. HubInv
  <2>1. IsFiniteSet(Submitted)
    BY <1>3, FS_EmptySet
  <2>2. movedUp \in [Resources -> SUBSET Ids] /\ reviews \in [Ids -> SUBSET (Nat \ {0})] /\ deliveries = {}
    BY DEF Init
  <2> QED BY <1>1, <1>2, <2>1, <2>2 DEF HubInv
<1>5. FactInv
    BY DEF Init, FactInv, FirstReviewIsReal
<1>6. TaskType
  <2>1. <<>> \in Seq(Row)
    OBVIOUS
  <2>2. rows \in [Syncs -> Seq(Row)]
    BY <2>1 DEF Init
  <2> QED BY <2>2 DEF Init, TaskType
<1>7. RecordType
    BY DEF Init, RecordType
<1>8. TaskInv
    BY <1>6, <1>7 DEF Init, TaskInv, Carries, Older
<1>9. CountType
    BY SyncConstants DEF Init, CountType
<1> QED BY <1>4, <1>5, <1>8, <1>9 DEF BaseInv

(* Every step keeps it. *)
LEMMA StepBase == BaseInv /\ [Next]_vars => BaseInv'
    BY StepKeeps, StepTasks, StepCounts DEF BaseInv, Onward

-----------------------------------------------------------------------------
(* Every variable keeps its type: pages are numbered from one, positions   *)
(* are of the list of resources, and the rows held are rows.               *)
THEOREM SyncTypes == Spec => []TypeOK
<1>1. BaseInv => TypeOK
  <2> SUFFICES ASSUME BaseInv PROVE TypeOK
    OBVIOUS
  <2>1. deliveries \subseteq Message
    BY DEF BaseInv, HubInv, Sent
  <2>2. at \in [Syncs -> 1..Len(Order)]
    BY ResourceNames DEF BaseInv, TaskInv, TaskType
  <2> QED BY <2>1, <2>2 DEF TypeOK, BaseInv, HubInv, FactInv, TaskInv, TaskType, RecordType, CountType
<1> QED BY <1>1, InitBase, StepBase, PTL DEF Spec

(* first_review_at is the time of a review of that pull request, whichever *)
(* of the webhooks and the pages of any sync wrote it last.                *)
THEOREM FirstReviewsAreReal == Spec => []FirstReviewIsReal
<1>1. BaseInv => FirstReviewIsReal
    BY DEF BaseInv, FactInv
<1> QED BY <1>1, InitBase, StepBase, PTL DEF Spec

(* No write makes first_review_at later or forgets it. *)
THEOREM FirstReviewsOnlyEarlier == Spec => FirstReviewOnlyEarlier
<1>1. BaseInv /\ [Next]_vars => [\A i \in Ids : firstReview[i] # 0 => firstReview'[i] \in 1..firstReview[i]]_vars
    BY StepKeeps DEF BaseInv, FactsKeep
<1> QED BY <1>1, InitBase, StepBase, PTL DEF Spec, FirstReviewOnlyEarlier

-----------------------------------------------------------------------------
(* The status. *)

(* Two tasks at one resource are known to have met. *)
OneWalks ==
    \A s, q \in Syncs : Walking(s) /\ Walking(q) /\ At(s) = At(q) /\ At(s) \notin overlapped => s = q

StatusInv == OneWalks /\ StatusIsHonest

(* A step after which every task is at the resource it was at. *)
LEMMA StatusStays ==
    ASSUME StatusInv, UNCHANGED <<status, overlapped, stranded>>,
           \A q \in Syncs : /\ Walking(q)' <=> Walking(q)
                            /\ Walking(q) => At(q)' = At(q) /\ (pc'[q] = "failing" <=> pc[q] = "failing")
    PROVE  StatusInv'
<1>1. OneWalks'
    BY DEF StatusInv, OneWalks
<1>2. StatusIsHonest'
  <2> SUFFICES ASSUME NEW r \in Resources \ overlapped
               PROVE  /\ status'[r] = "syncing" => r \in stranded' \/ \E s \in Syncs : Walking(s)' /\ At(s)' = r
                      /\ \A s \in Syncs : At(s)' = r /\ Walking(s)' /\ pc'[s] # "failing" => status'[r] = "syncing"
    BY DEF StatusIsHonest
  <2> QED BY DEF StatusInv, StatusIsHonest
<1> QED BY <1>1, <1>2 DEF StatusInv

(* A task comes to a resource, or fails at it. *)
LEMMA StatusEnters ==
    ASSUME StatusInv, TaskType, NEW s \in Syncs, NEW r \in Resources, r = At(s), Elsewhere(s), at'[s] = at[s], Meet(s),
           pc'[s] \in {"fetch", "failing"}, pc'[s] = "fetch" => status'[r] = "syncing",
           \A x \in Resources \ {r} : status'[x] = status[x], stranded \ {r} \subseteq stranded'
    PROVE  StatusInv'
<1>1. Walking(s)' /\ At(s)' = r
    BY SamePlace DEF Walking
<1>2. \A q \in Syncs \ {s} : (Walking(q)' <=> Walking(q)) /\ At(q)' = At(q) /\ pc'[q] = pc[q]
    BY DEF Elsewhere, Walking, At
<1>3. overlapped \subseteq overlapped'
    BY DEF Meet
<1>4. \A q \in Syncs \ {s} : Walking(q) /\ At(q) = r => r \in overlapped'
    BY DEF Meet
<1>5. OneWalks'
    BY <1>1, <1>2, <1>3, <1>4 DEF StatusInv, OneWalks
<1>6. ASSUME NEW x \in Resources \ overlapped'
      PROVE  /\ status'[x] = "syncing" => x \in stranded' \/ \E q \in Syncs : Walking(q)' /\ At(q)' = x
             /\ \A q \in Syncs : At(q)' = x /\ Walking(q)' /\ pc'[q] # "failing" => status'[x] = "syncing"
  <2>1. CASE x = r
    BY <1>1, <1>2, <1>4, <2>1
  <2>2. CASE x # r
    <3>1. x \in Resources \ overlapped /\ status'[x] = status[x] /\ (x \in stranded => x \in stranded')
      BY <1>3, <2>2
    <3>2. \A q \in Syncs : At(q) = x => q # s
      BY <2>2
    <3>3. status'[x] = "syncing" => x \in stranded' \/ \E q \in Syncs : Walking(q)' /\ At(q)' = x
      BY <1>2, <3>1, <3>2 DEF StatusInv, StatusIsHonest
    <3>4. ASSUME NEW q \in Syncs, At(q)' = x, Walking(q)', pc'[q] # "failing" PROVE status'[x] = "syncing"
      BY <1>1, <1>2, <2>2, <3>1, <3>4 DEF StatusInv, StatusIsHonest
    <3> QED BY <3>3, <3>4
  <2> QED BY <2>1, <2>2
<1>7. StatusIsHonest'
    BY <1>6 DEF StatusIsHonest
<1> QED BY <1>5, <1>7 DEF StatusInv

(* A task leaves a resource, and says so unless it cannot. *)
LEMMA StatusLeaves ==
    ASSUME StatusInv, TaskType, NEW s \in Syncs, NEW r \in Resources, r = At(s), Elsewhere(s),
           pc'[s] \in {"off", "begin"}, UNCHANGED overlapped, stranded \subseteq stranded',
           \A x \in Resources \ {r} : status'[x] = status[x],
           IF Walking(s) THEN status'[r] # "syncing" \/ r \in stranded' ELSE status'[r] = status[r]
    PROVE  StatusInv'
<1>1. ~Walking(s)'
    BY DEF Walking
<1>2. \A q \in Syncs \ {s} : (Walking(q)' <=> Walking(q)) /\ At(q)' = At(q) /\ pc'[q] = pc[q]
    BY DEF Elsewhere, Walking, At
<1>3. OneWalks'
    BY <1>1, <1>2 DEF StatusInv, OneWalks
<1>4. ASSUME NEW x \in Resources \ overlapped'
      PROVE  /\ status'[x] = "syncing" => x \in stranded' \/ \E q \in Syncs : Walking(q)' /\ At(q)' = x
             /\ \A q \in Syncs : At(q)' = x /\ Walking(q)' /\ pc'[q] # "failing" => status'[x] = "syncing"
  <2>0. x \in Resources \ overlapped
    OBVIOUS
  <2>1. CASE x = r /\ Walking(s)
    <3>1. \A q \in Syncs \ {s} : ~(Walking(q) /\ At(q) = r)
      BY <2>0, <2>1 DEF StatusInv, OneWalks
    <3> QED BY <1>1, <1>2, <2>1, <3>1
  <2>2. CASE x # r \/ ~Walking(s)
    <3>1. status'[x] = status[x] /\ \A q \in Syncs : Walking(q) /\ At(q) = x => q # s
      BY <2>2
    <3>2. status'[x] = "syncing" => x \in stranded' \/ \E q \in Syncs : Walking(q)' /\ At(q)' = x
      BY <1>2, <2>0, <3>1 DEF StatusInv, StatusIsHonest
    <3>3. ASSUME NEW q \in Syncs, At(q)' = x, Walking(q)', pc'[q] # "failing" PROVE status'[x] = "syncing"
      BY <1>1, <1>2, <2>0, <3>1, <3>3 DEF StatusInv, StatusIsHonest
    <3> QED BY <3>2, <3>3
  <2> QED BY <2>1, <2>2
<1>5. StatusIsHonest'
    BY <1>4 DEF StatusIsHonest
<1> QED BY <1>3, <1>5 DEF StatusInv

(* Every step keeps it. *)
LEMMA StepStatus == BaseInv /\ StatusInv /\ [Next]_vars => StatusInv'
<1> SUFFICES ASSUME BaseInv, StatusInv, [Next]_vars PROVE StatusInv'
    OBVIOUS
<1>0. HubInv /\ FactInv /\ TaskInv /\ TaskType /\ RecordType
    BY DEF BaseInv, TaskInv
<1>1. ASSUME UNCHANGED <<task, status, overlapped, stranded>> PROVE StatusInv'
  <2>1. \A q \in Syncs : (Walking(q)' <=> Walking(q)) /\ At(q)' = At(q) /\ pc'[q] = pc[q]
    BY <1>1 DEF task, Walking, At
  <2> QED BY <1>1, <2>1, StatusStays
<1>2. CASE HubStep
    BY <1>1, <1>2 DEF HubStep, Push, DeleteBranch, UpdatePull, Appear, Change, sync
<1>3. CASE WebhookStep
    BY <1>0, <1>1, <1>3, WebhookFacts DEF sync, history
<1>4. CASE DisableTracking \/ UNCHANGED vars
    BY <1>1, <1>4 DEF DisableTracking, vars, sync, history
<1>5. ASSUME NEW s \in Syncs, Elsewhere(s), at'[s] = at[s], UNCHANGED <<status, overlapped, stranded>>,
             pc[s] \in {"fetch", "prepare", "store", "finish"}, pc'[s] \in {"fetch", "prepare", "store", "finish"}
      PROVE  StatusInv'
  <2>1. \A q \in Syncs \ {s} : (Walking(q)' <=> Walking(q)) /\ At(q)' = At(q) /\ pc'[q] = pc[q]
    BY <1>5 DEF Elsewhere, Walking, At
  <2>2. Walking(s) /\ Walking(s)' /\ At(s)' = At(s) /\ pc[s] # "failing" /\ pc'[s] # "failing"
    BY <1>5, SamePlace DEF Walking
  <2> QED BY <1>5, <2>1, <2>2, StatusStays
<1>6. ASSUME NEW s \in Syncs, NotModified(s) \/ FetchPage(s) \/ PreparePulls(s) PROVE StatusInv'
  <2>1. PICK r \in Resources : r = At(s)
    BY <1>0, AtResource
  <2>2. /\ Elsewhere(s) /\ at'[s] = at[s] /\ UNCHANGED <<sync, history>>
        /\ pc[s] \in {"fetch", "prepare", "store", "finish"} /\ pc'[s] \in {"fetch", "prepare", "store", "finish"}
    BY <1>0, <1>6, <2>1, NotModifiedFacts, FetchFacts, PrepareFacts DEF FactInv
  <2> QED BY <1>5, <2>2 DEF sync, history
<1>7. ASSUME NEW s \in Syncs, Stores(s) PROVE StatusInv'
  <2>1. PICK r \in Resources : StorePage(s, r)
    BY <1>0, <1>7, PageStored
  <2>2. /\ Elsewhere(s) /\ at'[s] = at[s] /\ pc[s] = "store" /\ pc'[s] \in {"finish", "fetch"}
        /\ UNCHANGED <<overlapped, stranded>>
    BY <1>0, <2>1, StoreFacts
  <2>3. UNCHANGED status
    BY <2>1 DEF StorePage, Checkpoint
  <2> QED BY <1>5, <2>2, <2>3
<1>8. ASSUME NEW s \in Syncs, BeginResource(s) PROVE StatusInv'
  <2>1. PICK r \in Resources : r = At(s)
    BY <1>0, AtResource
  <2>2. /\ Elsewhere(s) /\ Apart(r) /\ at'[s] = at[s] /\ pc'[s] = "fetch" /\ status'[r] = "syncing"
        /\ Meet(s) /\ stranded' = stranded \ {r}
    BY <1>0, <1>8, <2>1, BeginFacts
  <2> QED BY <1>0, <2>1, <2>2, StatusEnters DEF Apart
<1>9. ASSUME NEW s \in Syncs, FinishResource(s) PROVE StatusInv'
  <2>1. PICK r \in Resources : r = At(s)
    BY <1>0, AtResource
  <2>2. /\ Elsewhere(s) /\ Apart(r) /\ pc[s] = "finish" /\ pc'[s] \in {"off", "begin"} /\ status'[r] = "idle"
        /\ UNCHANGED <<overlapped, stranded>>
    BY <1>0, <1>9, <2>1, FinishFacts
  <2>3. Walking(s)
    BY <2>2 DEF Walking
  <2> QED BY <1>0, <2>1, <2>2, <2>3, StatusLeaves DEF Apart
<1>10. ASSUME NEW s \in Syncs, Rests(s) PROVE StatusInv'
  <2>0. PICK r \in Resources : r = At(s)
    BY <1>0, AtResource
  <2>1. Elsewhere(s)
    BY <1>0, <1>10, RestFacts
  <2>2. CASE EnableTracking(s) \/ ReadRepository(s)
    <3>1. /\ pc[s] \in {"off", "read"} /\ pc'[s] \in {"off", "read", "begin"}
          /\ UNCHANGED <<status, overlapped, stranded>>
      BY <1>0, <2>2 DEF EnableTracking, ReadRepository, Goto, TaskType, sync, history
    <3>2. ~Walking(s) /\ ~Walking(s)'
      BY <3>1 DEF Walking
    <3>3. \A q \in Syncs \ {s} : (Walking(q)' <=> Walking(q)) /\ At(q)' = At(q) /\ pc'[q] = pc[q]
      BY <2>1 DEF Elsewhere, Walking, At
    <3> QED BY <3>1, <3>2, <3>3, StatusStays
  <2>3. CASE SyncError(s)
    <3>1. pc'[s] = "failing" /\ at'[s] = at[s] /\ Meet(s) /\ UNCHANGED <<status, stranded>>
      BY <1>0, <2>3 DEF SyncError, Goto, TaskType, sync
    <3> QED BY <1>0, <2>0, <2>1, <3>1, StatusEnters
  <2>4. CASE RecordError(s)
    <3>1. /\ pc[s] = "failing" /\ NextResource(s) /\ UNCHANGED <<overlapped, stranded>>
          /\ status' = [status EXCEPT ![r] = IF status[r] = "none" THEN "none" ELSE "error"]
      BY <1>0, <2>0, <2>4 DEF RecordError, RecordType, history
    <3>2. pc'[s] \in {"off", "begin"}
      BY <1>0, <3>1, NextResourceFacts
    <3>3. status'[r] # "syncing" /\ \A x \in Resources \ {r} : status'[x] = status[x]
      BY <1>0, <3>1 DEF RecordType
    <3>4. Walking(s)
      BY <3>1 DEF Walking
    <3> QED BY <1>0, <2>0, <2>1, <3>1, <3>2, <3>3, <3>4, StatusLeaves
  <2>5. CASE RecordErrorFails(s) \/ Crash(s)
    <3>1. /\ pc'[s] = "off" /\ Strand(s) /\ UNCHANGED <<status, overlapped>>
      BY <1>0, <2>5 DEF RecordErrorFails, Crash, Goto, TaskType, sync
    <3>2. stranded \subseteq stranded' /\ (Walking(s) => r \in stranded')
      BY <2>0, <3>1 DEF Strand
    <3> QED BY <1>0, <2>0, <2>1, <3>1, <3>2, StatusLeaves
  <2> QED BY <1>10, <2>2, <2>3, <2>4, <2>5 DEF Rests
<1> QED BY <1>2, <1>3, <1>4, <1>6, <1>7, <1>8, <1>9, <1>10, StepCases

(* The initial state. *)
LEMMA InitStatus == Init => StatusInv
    BY DEF Init, StatusInv, OneWalks, StatusIsHonest, Walking

(* sync_status is syncing while a task is at the resource and not longer,  *)
(* unless the task died, its error could not be written, or two tasks met. *)
THEOREM StatusStaysHonest == Spec => []StatusIsHonest
<1>1. StatusInv => StatusIsHonest
    BY DEF StatusInv
<1> QED BY <1>1, InitBase, StepBase, InitStatus, StepStatus, PTL DEF Spec

-----------------------------------------------------------------------------
(* What a success vouches for. *)

(* An item is stored, with its counts, or has moved up. *)
Kept(r, i) == i \in movedUp[r] \/ (stored[r][i] > 0 /\ (r = "pull_requests" => i \in detailed))

(* A walk that goes on with page n still comes by the item. *)
Ahead(r, i, n) == \E k \in 1..Len(github[r]) : k > (n - 1) * PerPage /\ github[r][k] = i
Left(r, i, n) == Kept(r, i) \/ (n # 0 /\ Ahead(r, i, n))

(* The first page is what the etag says, and vouches for the whole list. *)
Matches(r, t) == r \in NewestFirst /\ t = {PageOf(r, 1)}

Holds(s, i) == \E k \in 1..Len(rows[s]) : rows[s][k].id = i

(* The etag of the first page, as the checkpoint will have it. *)
Seen(s, r) == IF onFirst[s] THEN tag[s] ELSE etag[r]

(* The row of a resource in repository_sync_state. *)
Resume(r) ==
    /\ \A i \in promised[r] : Kept(r, i)
    /\ cursor[r] # 0 => \A i \in walk[r] : Left(r, i, cursor[r])
    /\ Matches(r, etag[r]) => \A i \in Listed(r) : Left(r, i, cursor[r])

Fetching(s, r) ==
    /\ IF onFirst[s] THEN page[s] = 1 /\ cursor[r] = 0 /\ tag[s] = etag[r]
                     ELSE tag[s] = {} /\ cursor[r] = page[s]
    /\ \A i \in chain[s] : Left(r, i, page[s])

Holding(s, r) ==
    /\ \A i \in chain[s] : Holds(s, i) \/ Left(r, i, next[s])
    /\ Matches(r, Seen(s, r)) => \A i \in Listed(r) : Holds(s, i) \/ Left(r, i, next[s])

Finishing(s, r) ==
    /\ \A i \in chain[s] : Kept(r, i)
    /\ Matches(r, etag[r]) => \A i \in Listed(r) : Kept(r, i)

Walks(s, r) ==
    /\ pc[s] = "fetch" => Fetching(s, r)
    /\ pc[s] \in {"prepare", "store"} => Holding(s, r)
    /\ pc[s] = "finish" => Finishing(s, r)

WalkInv ==
    \A r \in Resources \ overlapped :
        Resume(r) /\ \A s \in Syncs : At(s) = r => Walks(s, r)

(* A step of which StepKeeps has said what it does to lists and facts. *)
Goes == HubInv /\ TaskInv /\ Onward /\ FactsKeep

(* What is kept stays so. *)
LEMMA KeptOn ==
    ASSUME Goes, NEW r \in Resources, NEW i \in Ids, Kept(r, i)
    PROVE  Kept(r, i)'
    BY DEF Goes, Kept, Onward, Moves, FactsKeep

(* What the walk still comes by, it still comes by. *)
LEMMA LeftOn ==
    ASSUME Goes, NEW r \in Resources, NEW i \in Ids, NEW n \in Nat, Left(r, i, n)
    PROVE  Left(r, i, n)'
<1>1. CASE Kept(r, i)
    BY <1>1, KeptOn DEF Left
<1>2. CASE n # 0 /\ Ahead(r, i, n)
  <2>1. PICK b : b = (n - 1) * PerPage
    OBVIOUS
  <2>2. PICK k \in 1..Len(github[r]) : k > b /\ github[r][k] = i
    BY <1>2, <2>1 DEF Ahead
  <2>3. b \in Nat
    BY <1>2, <2>1, PageBounds
  <2>4. CASE i \in movedUp'[r]
    BY <2>4 DEF Left, Kept
  <2>5. CASE i \notin movedUp'[r]
    <3>1. PICK j \in 1..Len(github'[r]) : j >= k /\ github'[r][j] = i
      BY <2>2, <2>5 DEF Goes, Onward, Moves
    <3>2. j > b
      BY <2>2, <2>3, <3>1
    <3> QED BY <1>2, <2>1, <3>1, <3>2 DEF Left, Ahead
  <2> QED BY <2>4, <2>5
<1> QED BY <1>1, <1>2 DEF Left

(* The first entry of the first page. *)
FirstEntry(r) ==
    github[r] \in Seq(Ids) /\ ver[r] \in [Ids -> Nat] /\ Len(github[r]) > 0 =>
        1 \in 1..Len(PageOf(r, 1)) /\ PageOf(r, 1)[1] = <<github[r][1], ver[r][github[r][1]]>>

(* It is the first item of the list. *)
LEMMA FirstEntries == \A r \in Resources : FirstEntry(r)
<1> SUFFICES ASSUME NEW r \in Resources, github[r] \in Seq(Ids), ver[r] \in [Ids -> Nat], Len(github[r]) > 0
             PROVE  1 \in 1..Len(PageOf(r, 1)) /\ PageOf(r, 1)[1] = <<github[r][1], ver[r][github[r][1]]>>
    BY DEF FirstEntry
<1>1. PICK n \in Nat \ {0} : n = 1
    OBVIOUS
<1>2. PICK b : b = (n - 1) * PerPage
    OBVIOUS
<1>3. PICK c : c = n * PerPage
    OBVIOUS
<1>4. /\ \A k \in 1..Len(PageOf(r, n)) : PageOf(r, n)[k] = <<github[r][b + k], ver[r][github[r][b + k]]>>
      /\ \A j \in 1..Len(github[r]) : b < j /\ j <= c => j - b \in 1..Len(PageOf(r, n))
    BY <1>2, <1>3, PageFacts
<1>5. b = 0 /\ c \in Nat \ {0}
    BY <1>1, <1>2, <1>3, SyncConstants
<1>6. 1 \in 1..Len(github[r])
    OBVIOUS
<1>7. 1 - b \in 1..Len(PageOf(r, n)) /\ 1 - b = 1 /\ b + 1 = 1
    BY <1>4, <1>5, <1>6
<1>8. 1 \in 1..Len(PageOf(r, n)) /\ PageOf(r, n)[1] = <<github[r][1], ver[r][github[r][1]]>>
    BY <1>4, <1>7
<1> QED BY <1>1, <1>8

(* After any step as before it. *)
LEMMA FirstEntriesNext == (\A r \in Resources : FirstEntry(r))'
    BY FirstEntries, PTL

(* A first page that is as it was means a list that is as it was. *)
LEMMA MatchBack ==
    ASSUME Goes, NEW r \in Resources, NEW t \in SUBSET Seq(Ids \X Nat), Older(r, t), Matches(r, t)'
    PROVE  Matches(r, t) /\ github'[r] = github[r] /\ Listed(r)' = Listed(r)
<1>1. r \in NewestFirst /\ t = {PageOf(r, 1)'}
    BY DEF Matches
<1>2. CASE github'[r] = github[r] /\ ver'[r] = ver[r]
  <2>1. PageOf(r, 1)' = PageOf(r, 1)
    BY <1>2 DEF PageOf
  <2> QED BY <1>1, <1>2, <2>1 DEF Matches, Listed
<1>3. CASE Len(github'[r]) > 0 /\ ver'[r][github'[r][1]] > ver[r][github'[r][1]]
  <2>1. github'[r] \in Seq(Ids) /\ ver'[r] \in [Ids -> Nat] /\ ver[r] \in [Ids -> Nat]
    BY DEF Goes, Onward, HubInv
  <2>2. PICK p \in t : p = PageOf(r, 1)'
    BY <1>1
  <2>3. 1 \in 1..Len(p) /\ p[1] = <<github'[r][1], ver'[r][github'[r][1]]>>
    BY <1>3, <2>1, <2>2, FirstEntriesNext DEF FirstEntry
  <2>4. PICK i \in Ids : i = github'[r][1]
    BY <1>3, <2>1
  <2>5. p[1][1] = i /\ p[1][2] = ver'[r][i]
    BY <2>3, <2>4
  <2>6. ver'[r][i] <= ver[r][i]
    BY <2>3, <2>5 DEF Older
  <2>7. ver'[r][i] \in Nat /\ ver[r][i] \in Nat
    BY <2>1
  <2> QED BY <1>3, <2>4, <2>6, <2>7
<1> QED BY <1>1, <1>2, <1>3 DEF Goes, Onward, Moves

(* A resource whose row is left alone. *)
LEMMA ResumeOn ==
    ASSUME Goes, NEW r \in Resources, Resume(r), cursor'[r] = cursor[r], etag'[r] = etag[r],
           walk'[r] = walk[r], promised'[r] = promised[r]
    PROVE  Resume(r)'
<1>1. PICK c \in Nat : c = cursor[r] /\ c = cursor'[r]
    BY DEF Goes, TaskInv, RecordType
<1>2. PICK t \in SUBSET Seq(Ids \X Nat) : t = etag[r] /\ t = etag'[r] /\ Older(r, t)
    BY DEF Goes, TaskInv, RecordType
<1>3. promised[r] \subseteq Ids /\ walk[r] \subseteq Ids /\ Listed(r) \subseteq Ids
    BY DEF Goes, TaskInv, RecordType, HubInv, Listed, Listing
<1>4. \A i \in promised'[r] : Kept(r, i)'
    BY <1>3, KeptOn DEF Resume
<1>5. c # 0 => \A i \in walk'[r] : Left(r, i, c)'
    BY <1>1, <1>3, LeftOn DEF Resume
<1>6. ASSUME Matches(r, t)' PROVE \A i \in Listed(r)' : Left(r, i, c)'
  <2>1. Matches(r, t) /\ Listed(r)' = Listed(r)
    BY <1>2, <1>6, MatchBack
  <2>2. \A i \in Listed(r) : Left(r, i, c)
    BY <1>1, <1>2, <2>1 DEF Resume
  <2> QED BY <1>3, <2>1, <2>2, LeftOn
<1>7. cursor'[r] # 0 => \A i \in walk'[r] : Left(r, i, cursor[r])'
    BY <1>1, <1>5 DEF Left, Kept, Ahead
<1>8. Matches(r, etag[r])' => \A i \in Listed(r)' : Left(r, i, cursor[r])'
    BY <1>1, <1>2, <1>6 DEF Left, Kept, Ahead, Matches
<1> QED BY <1>4, <1>7, <1>8 DEF Resume

(* A task that is left alone at a resource whose row is. *)
LEMMA WalksOn ==
    ASSUME Goes, NEW s \in Syncs, NEW r \in Resources, r = At(s), Walks(s, r),
           cursor'[r] = cursor[r], etag'[r] = etag[r],
           pc'[s] = pc[s], page'[s] = page[s], onFirst'[s] = onFirst[s], tag'[s] = tag[s],
           rows'[s] = rows[s], next'[s] = next[s], chain'[s] = chain[s]
    PROVE  Walks(s, r)'
<1>0. chain[s] \subseteq Ids /\ Listed(r) \subseteq Ids
    BY DEF Goes, TaskInv, TaskType, HubInv, Listed, Listing
<1>1. ASSUME pc'[s] = "fetch" PROVE Fetching(s, r)'
  <2>1. PICK n \in Nat : n = page[s] /\ n = page'[s]
    BY DEF Goes, TaskInv, TaskType
  <2>2. Fetching(s, r)
    BY <1>1 DEF Walks
  <2>3. \A i \in chain'[s] : Left(r, i, n)'
    BY <1>0, <2>1, <2>2, LeftOn DEF Fetching
  <2>4. \A i \in chain'[s] : Left(r, i, page[s])'
    BY <2>1, <2>3 DEF Left, Kept, Ahead
  <2> QED BY <2>2, <2>4 DEF Fetching
<1>2. ASSUME pc'[s] \in {"prepare", "store"} PROVE Holding(s, r)'
  <2>1. PICK n \in Nat : n = next[s] /\ n = next'[s]
    BY DEF Goes, TaskInv, TaskType
  <2>2. Holding(s, r)
    BY <1>2 DEF Walks
  <2>3. \A i : Holds(s, i)' <=> Holds(s, i)
    BY DEF Holds
  <2>4. \A i \in chain'[s] : Holds(s, i)' \/ Left(r, i, n)'
    BY <1>0, <2>1, <2>2, <2>3, LeftOn DEF Holding
  <2>5. PICK t \in SUBSET Seq(Ids \X Nat) : t = Seen(s, r) /\ t = Seen(s, r)' /\ Older(r, t)
    <3>1. Older(r, tag[s]) /\ Older(r, etag[r]) /\ tag[s] \subseteq Seq(Ids \X Nat) /\ etag[r] \subseteq Seq(Ids \X Nat)
      BY <1>2 DEF Goes, TaskInv, TaskType, RecordType, Carries
    <3> QED BY <3>1 DEF Seen
  <2>6. ASSUME Matches(r, t)' PROVE \A i \in Listed(r)' : Holds(s, i)' \/ Left(r, i, n)'
    <3>1. Matches(r, t) /\ Listed(r)' = Listed(r)
      BY <2>5, <2>6, MatchBack
    <3>2. \A i \in Listed(r) : Holds(s, i) \/ Left(r, i, n)
      BY <2>1, <2>2, <2>5, <3>1 DEF Holding
    <3> QED BY <1>0, <2>3, <3>1, <3>2, LeftOn
  <2>7. \A i : Left(r, i, n)' => Left(r, i, next[s])'
    BY <2>1 DEF Left, Kept, Ahead
  <2>8. Matches(r, Seen(s, r))' => Matches(r, t)'
    BY <2>5 DEF Matches
  <2> QED BY <2>4, <2>6, <2>7, <2>8 DEF Holding
<1>3. ASSUME pc'[s] = "finish" PROVE Finishing(s, r)'
  <2>1. Finishing(s, r)
    BY <1>3 DEF Walks
  <2>2. \A i \in chain'[s] : Kept(r, i)'
    BY <1>0, <2>1, KeptOn DEF Finishing
  <2>3. PICK t \in SUBSET Seq(Ids \X Nat) : t = etag[r] /\ t = etag'[r] /\ Older(r, t)
    BY DEF Goes, TaskInv, RecordType
  <2>4. ASSUME Matches(r, t)' PROVE \A i \in Listed(r)' : Kept(r, i)'
    <3>1. Matches(r, t) /\ Listed(r)' = Listed(r)
      BY <2>3, <2>4, MatchBack
    <3> QED BY <1>0, <2>1, <2>3, <3>1, KeptOn DEF Finishing
  <2>5. Matches(r, etag[r])' => Matches(r, t)'
    BY <2>3 DEF Matches
  <2> QED BY <2>2, <2>4, <2>5 DEF Finishing
<1> QED BY <1>1, <1>2, <1>3 DEF Walks

(* No task and no row of a resource changes. *)
LEMMA WalksStay ==
    ASSUME Goes, WalkInv, UNCHANGED <<task, cursor, etag, walk, promised, overlapped>>
    PROVE  WalkInv'
<1>1. UNCHANGED <<pc, at, page, onFirst, tag, rows, next, chain>>
    BY DEF task
<1> SUFFICES ASSUME NEW r \in Resources \ overlapped
             PROVE  Resume(r)' /\ \A s \in Syncs : At(s)' = r => Walks(s, r)'
    BY DEF WalkInv
<1>2. Resume(r)'
    BY ResumeOn DEF WalkInv
<1>3. ASSUME NEW s \in Syncs, At(s)' = r PROVE Walks(s, r)'
  <2>1. At(s) = r /\ Walks(s, r)
    BY <1>1, <1>3, SamePlace DEF WalkInv
  <2> QED BY <1>1, <2>1, WalksOn
<1> QED BY <1>2, <1>3

(* One task moves, and no row of a resource changes. *)
LEMMA WalkerMoves ==
    ASSUME Goes, WalkInv, NEW s \in Syncs, Elsewhere(s), UNCHANGED <<cursor, etag, walk, promised>>,
           overlapped \subseteq overlapped', At(s)' \notin overlapped' => Walks(s, At(s))'
    PROVE  WalkInv'
<1> SUFFICES ASSUME NEW r \in Resources \ overlapped'
             PROVE  Resume(r)' /\ \A q \in Syncs : At(q)' = r => Walks(q, r)'
    BY DEF WalkInv
<1>1. r \in Resources \ overlapped
    OBVIOUS
<1>2. Resume(r)'
    BY <1>1, ResumeOn DEF WalkInv
<1>3. ASSUME NEW q \in Syncs \ {s}, At(q)' = r PROVE Walks(q, r)'
  <2>1. At(q) = r
    BY <1>3, SamePlace DEF Elsewhere
  <2>2. Walks(q, r)
    BY <1>1, <2>1 DEF WalkInv
  <2> QED BY <2>1, <2>2, WalksOn DEF Elsewhere
<1>4. At(s)' = r => Walks(s, r)'
    BY DEF Walks, Fetching, Holding, Finishing, Seen
<1> QED BY <1>2, <1>3, <1>4

(* One task writes the row of its resource, alone. *)
LEMMA WalkerWrites ==
    ASSUME Goes, StatusInv, WalkInv, NEW s \in Syncs, NEW r \in Resources, r = At(s), Elsewhere(s), Apart(r), Walking(s),
           UNCHANGED overlapped,
           r \notin overlapped => Resume(r)',
           At(s)' \notin overlapped => Walks(s, At(s))'
    PROVE  WalkInv'
<1> SUFFICES ASSUME NEW x \in Resources \ overlapped
             PROVE  Resume(x)' /\ \A q \in Syncs : At(q)' = x => Walks(q, x)'
    BY DEF WalkInv
<1>1. Resume(x)'
  <2>1. CASE x = r
    BY <2>1
  <2>2. CASE x # r
    BY <2>2, ResumeOn DEF WalkInv, Apart
  <2> QED BY <2>1, <2>2
<1>2. ASSUME NEW q \in Syncs \ {s}, At(q)' = x PROVE Walks(q, x)'
  <2>1. At(q) = x /\ pc'[q] = pc[q]
    BY <1>2, SamePlace DEF Elsewhere
  <2>2. Walks(q, x)
    BY <2>1 DEF WalkInv
  <2>3. CASE x = r
    <3>1. ~Walking(q)
      BY <2>1, <2>3 DEF StatusInv, OneWalks
    <3> QED BY <2>1, <3>1 DEF Walking, Walks
  <2>4. CASE x # r
    BY <2>1, <2>2, <2>4, WalksOn DEF Elsewhere, Apart
  <2> QED BY <2>3, <2>4
<1>3. At(s)' = x => Walks(s, x)'
    BY DEF Walks, Fetching, Holding, Finishing, Seen
<1> QED BY <1>1, <1>2, <1>3

(* A walk that starts at the first page comes by every item. *)
LEMMA AheadAtFirst ==
    ASSUME NEW r \in Resources, HubInv, NEW n \in Nat \ {0}, n = 1, NEW i \in Listed(r)
    PROVE  Left(r, i, n)
<1>1. PICK k \in 1..Len(github[r]) : github[r][k] = i
    BY DEF Listed
<1>2. PICK b : b = (n - 1) * PerPage
    OBVIOUS
<1>3. b = 0
    BY <1>2, SyncConstants
<1>4. k > b
    BY <1>3
<1> QED BY <1>1, <1>2, <1>4 DEF Left, Ahead

(* What the walk comes by from page n on is on that page or after it. *)
LEMMA OnThePage ==
    ASSUME HubInv, NEW r \in Resources, NEW n \in Nat \ {0}, NEW i \in Ids, Left(r, i, n)
    PROVE  (\E k \in 1..Len(PageOf(r, n)) : PageOf(r, n)[k][1] = i) \/ Left(r, i, NextPage(r, n))
<1>1. CASE Kept(r, i)
    BY <1>1 DEF Left
<1>2. CASE Ahead(r, i, n)
  <2>1. PICK a : a = (n - 1) * PerPage
    OBVIOUS
  <2>2. PICK b : b = n * PerPage
    OBVIOUS
  <2>3. a \in Nat /\ b \in Nat /\ ((n + 1) - 1) * PerPage = b
    BY <2>1, <2>2, PageBounds
  <2>4. PICK j \in 1..Len(github[r]) : j > a /\ github[r][j] = i
    BY <1>2, <2>1 DEF Ahead
  <2>5. github[r] \in Seq(Ids) /\ ver[r] \in [Ids -> Nat]
    BY DEF HubInv
  <2>6. CASE j <= b
    <3>1. /\ \A k \in 1..Len(PageOf(r, n)) : PageOf(r, n)[k] = <<github[r][a + k], ver[r][github[r][a + k]]>>
          /\ \A m \in 1..Len(github[r]) : a < m /\ m <= b => m - a \in 1..Len(PageOf(r, n))
      BY <2>1, <2>2, <2>5, PageFacts
    <3>2. PICK k \in 1..Len(PageOf(r, n)) : k = j - a
      BY <2>3, <2>4, <2>6, <3>1
    <3>3. a + k = j
      BY <2>3, <3>2
    <3>4. PageOf(r, n)[k] = <<i, ver[r][i]>>
      BY <2>4, <3>1, <3>3
    <3> QED BY <3>4
  <2>7. CASE j > b
    <3>1. b < Len(github[r])
      BY <2>3, <2>4, <2>5, <2>7
    <3>2. NextPage(r, n) = n + 1
      BY <2>2, <3>1 DEF NextPage
    <3>3. Ahead(r, i, n + 1)
      BY <2>3, <2>4, <2>7 DEF Ahead
    <3>4. n + 1 # 0
      OBVIOUS
    <3> QED BY <3>2, <3>3, <3>4 DEF Left
  <2> QED BY <2>3, <2>4, <2>6, <2>7
<1> QED BY <1>1, <1>2 DEF Left

(* A walk begins at the first page with everything ahead, or where the     *)
(* walk that left the cursor stopped.                                      *)
LEMMA BeginWalks ==
    ASSUME Goes, WalkInv, NEW s \in Syncs, BeginResource(s)
    PROVE  WalkInv'
<1>0. HubInv /\ TaskInv /\ TaskType /\ RecordType
    BY DEF Goes, TaskInv
<1>1. PICK r \in Resources : r = At(s)
    BY <1>0, AtResource
<1>2. /\ Elsewhere(s) /\ at'[s] = at[s] /\ pc'[s] = "fetch"
      /\ onFirst'[s] = (cursor[r] = 0)
      /\ page'[s] = (IF cursor[r] = 0 THEN 1 ELSE cursor[r])
      /\ tag'[s] = (IF cursor[r] = 0 THEN etag[r] ELSE {})
      /\ chain'[s] = (IF cursor[r] = 0 THEN Listed(r) ELSE walk[r])
      /\ Meet(s) /\ UNCHANGED <<cursor, etag, walk, promised>>
    BY <1>0, <1>1, BeginFacts
<1>3. overlapped \subseteq overlapped' /\ At(s)' = r
    BY <1>1, <1>2, SamePlace DEF Meet
<1>4. ASSUME r \notin overlapped PROVE Walks(s, At(s))'
  <2>1. Resume(r)
    BY <1>4 DEF WalkInv
  <2>2. Listed(r) \subseteq Ids /\ walk[r] \subseteq Ids /\ cursor[r] \in Nat
    BY <1>0 DEF HubInv, Listed, Listing, RecordType
  <2>3. PICK n \in Nat \ {0} : n = page'[s] /\ n = (IF cursor[r] = 0 THEN 1 ELSE cursor[r])
    BY <1>2, <2>2
  <2>4. \A i \in chain'[s] : i \in Ids /\ Left(r, i, n)
    <3>1. CASE cursor[r] = 0
      BY <1>0, <1>2, <2>2, <2>3, <3>1, AheadAtFirst
    <3>2. CASE cursor[r] # 0
      BY <1>2, <2>1, <2>2, <2>3, <3>2 DEF Resume
    <3> QED BY <3>1, <3>2
  <2>5. \A i \in chain'[s] : Left(r, i, n)'
    BY <2>4, LeftOn
  <2>6. \A i \in chain'[s] : Left(At(s), i, page[s])'
    BY <1>3, <2>3, <2>5 DEF Left, Kept, Ahead
  <2>7. Fetching(s, At(s))'
    BY <1>2, <1>3, <2>2, <2>6 DEF Fetching
  <2> QED BY <1>2, <2>7 DEF Walks
<1> QED BY <1>2, <1>3, <1>4, WalkerMoves

(* A 304 comes only for the first page, and its etag vouches for the list. *)
LEMMA NotModifiedWalks ==
    ASSUME Goes, WalkInv, NEW s \in Syncs, NotModified(s)
    PROVE  WalkInv'
<1>0. HubInv /\ TaskInv /\ TaskType /\ RecordType
    BY DEF Goes, TaskInv
<1>1. PICK r \in Resources : r = At(s)
    BY <1>0, AtResource
<1>2. /\ Elsewhere(s) /\ at'[s] = at[s] /\ pc[s] = "fetch" /\ pc'[s] = "finish"
      /\ tag[s] = {PageOf(r, page[s])}
      /\ chain'[s] = (IF r \in NewestFirst THEN Listed(r) ELSE {})
      /\ UNCHANGED <<hub, sync, history>>
    BY <1>0, <1>1, NotModifiedFacts
<1>3. UNCHANGED <<github, cursor, etag, walk, promised, overlapped>> /\ At(s)' = r
    BY <1>1, <1>2, SamePlace DEF hub, sync, history
<1>4. ASSUME r \notin overlapped PROVE Walks(s, At(s))'
  <2>1. Resume(r) /\ Fetching(s, r)
    BY <1>1, <1>2, <1>4 DEF WalkInv, Walks
  <2>2. page[s] = 1 /\ cursor[r] = 0 /\ etag[r] = {PageOf(r, 1)}
    BY <1>2, <2>1 DEF Fetching
  <2>3. Listed(r) \subseteq Ids /\ Listed(r)' = Listed(r)
    BY <1>0, <1>3 DEF HubInv, Listed, Listing
  <2>4. ASSUME r \in NewestFirst PROVE \A i \in Listed(r) : Kept(r, i)'
    <3>1. Matches(r, etag[r])
      BY <2>2, <2>4 DEF Matches
    <3>2. \A i \in Listed(r) : Kept(r, i)
      BY <2>1, <2>2, <3>1 DEF Resume, Left
    <3> QED BY <2>3, <3>2, KeptOn
  <2>5. Finishing(s, r)'
    BY <1>2, <2>3, <2>4 DEF Finishing, Matches
  <2>6. Finishing(s, At(s))'
    BY <1>3, <2>5 DEF Finishing, Kept, Matches
  <2> QED BY <1>2, <2>6 DEF Walks
<1> QED BY <1>2, <1>3, <1>4, WalkerMoves

(* What a page does not hold, the next pages do. *)
LEMMA FetchWalks ==
    ASSUME Goes, WalkInv, NEW s \in Syncs, FetchPage(s)
    PROVE  WalkInv'
<1>0. HubInv /\ TaskInv /\ TaskType /\ RecordType
    BY DEF Goes, TaskInv
<1>1. PICK r \in Resources : r = At(s)
    BY <1>0, AtResource
<1>2. PICK n \in Nat \ {0} : n = page[s]
    BY <1>0 DEF TaskType
<1>3. PICK p \in Seq(Ids \X Nat) : p = PageOf(r, n)
    BY <1>0, PageFacts DEF HubInv
<1>4. /\ Elsewhere(s) /\ at'[s] = at[s] /\ pc[s] = "fetch" /\ pc'[s] \in {"prepare", "store"}
      /\ tag'[s] = {p} /\ rows'[s] = PageRows(p) /\ next'[s] = NextPage(r, n)
      /\ onFirst'[s] = onFirst[s] /\ chain'[s] = chain[s]
      /\ UNCHANGED <<hub, sync, history>>
    BY <1>0, <1>1, <1>2, <1>3, FetchFacts
<1>5. UNCHANGED <<github, ver, cursor, etag, walk, promised, overlapped>> /\ At(s)' = r
    BY <1>1, <1>4, SamePlace DEF hub, sync, history
<1>6. ASSUME r \notin overlapped PROVE Walks(s, At(s))'
  <2>1. Resume(r) /\ Fetching(s, r)
    BY <1>1, <1>4, <1>6 DEF WalkInv, Walks
  <2>2. /\ Listed(r) \subseteq Ids /\ Listed(r)' = Listed(r) /\ chain[s] \subseteq Ids
        /\ PageOf(r, 1)' = PageOf(r, 1)
    BY <1>0, <1>5 DEF HubInv, Listed, Listing, TaskType, PageOf
  <2>3. PICK m \in Nat : m = NextPage(r, n) /\ m = next'[s]
    BY <1>4 DEF NextPage
  <2>4. ASSUME NEW i \in Ids, Left(r, i, n) PROVE Holds(s, i)' \/ Left(r, i, next[s])'
    <3>1. CASE \E k \in 1..Len(p) : p[k][1] = i
      <4>1. Len(rows'[s]) = Len(p) /\ \A k \in 1..Len(p) : rows'[s][k].id = p[k][1]
        BY <1>4, PageRowsFacts
      <4> QED BY <3>1, <4>1 DEF Holds
    <3>2. CASE Left(r, i, m)
      <4>1. Left(r, i, m)'
        BY <3>2, LeftOn
      <4> QED BY <2>3, <4>1 DEF Left, Kept, Ahead
    <3> QED BY <1>0, <1>3, <2>3, <2>4, <3>1, <3>2, OnThePage
  <2>5. \A i \in chain'[s] : Holds(s, i)' \/ Left(r, i, next[s])'
    BY <1>2, <1>4, <2>1, <2>2, <2>4 DEF Fetching
  <2>6. ASSUME Matches(r, Seen(s, r))' PROVE \A i \in Listed(r) : Left(r, i, n)
    <3>1. CASE onFirst[s]
      BY <1>0, <1>2, <2>1, <3>1, AheadAtFirst DEF Fetching
    <3>2. CASE ~onFirst[s]
      <4>1. cursor[r] = n
        BY <1>2, <2>1, <3>2 DEF Fetching
      <4>2. Matches(r, etag[r])
        BY <1>4, <1>5, <2>2, <2>6, <3>2 DEF Matches, Seen
      <4> QED BY <2>1, <4>1, <4>2 DEF Resume
    <3> QED BY <3>1, <3>2
  <2>7. Matches(r, Seen(s, r))' => \A i \in Listed(r)' : Holds(s, i)' \/ Left(r, i, next[s])'
    BY <2>2, <2>4, <2>6
  <2>8. Holding(s, r)'
    BY <2>5, <2>7 DEF Holding
  <2>9. Holding(s, At(s))'
    BY <1>5, <2>8 DEF Holding, Left, Kept, Ahead, Matches, Seen
  <2> QED BY <1>4, <2>9 DEF Walks
<1> QED BY <1>4, <1>5, <1>6, WalkerMoves

(* Preparing pull requests leaves the page what it is. *)
LEMMA PrepareWalks ==
    ASSUME Goes, FactInv, WalkInv, NEW s \in Syncs, PreparePulls(s)
    PROVE  WalkInv'
<1>0. HubInv /\ TaskInv /\ TaskType /\ RecordType
    BY DEF Goes, TaskInv
<1>1. PICK r \in Resources : r = At(s)
    BY <1>0, AtResource
<1>2. /\ Elsewhere(s) /\ at'[s] = at[s] /\ pc[s] = "prepare" /\ pc'[s] = "store"
      /\ Len(rows'[s]) = Len(rows[s]) /\ \A k \in 1..Len(rows[s]) : rows'[s][k].id = rows[s][k].id
      /\ onFirst'[s] = onFirst[s] /\ chain'[s] = chain[s] /\ tag'[s] = tag[s] /\ next'[s] = next[s]
      /\ UNCHANGED <<hub, sync, history>>
    BY <1>0, PrepareFacts DEF FactInv
<1>3. UNCHANGED <<github, ver, cursor, etag, walk, promised, overlapped>> /\ At(s)' = r
    BY <1>1, <1>2, SamePlace DEF hub, sync, history
<1>4. ASSUME r \notin overlapped PROVE Walks(s, At(s))'
  <2>1. Holding(s, r)
    BY <1>1, <1>2, <1>4 DEF WalkInv, Walks
  <2>2. /\ Listed(r) \subseteq Ids /\ Listed(r)' = Listed(r) /\ chain[s] \subseteq Ids
        /\ PageOf(r, 1)' = PageOf(r, 1) /\ Seen(s, r)' = Seen(s, r)
    BY <1>0, <1>2, <1>3 DEF HubInv, Listed, Listing, TaskType, PageOf, Seen
  <2>3. PICK m \in Nat : m = next[s] /\ m = next'[s]
    BY <1>0, <1>2 DEF TaskType
  <2>4. ASSUME NEW i \in Ids, Holds(s, i) \/ Left(r, i, next[s]) PROVE Holds(s, i)' \/ Left(r, i, next[s])'
    <3>1. CASE Holds(s, i)
      BY <1>2, <3>1 DEF Holds
    <3>2. CASE Left(r, i, m)
      <4>1. Left(r, i, m)'
        BY <3>2, LeftOn
      <4> QED BY <2>3, <4>1 DEF Left, Kept, Ahead
    <3> QED BY <2>3, <2>4, <3>1, <3>2
  <2>5. Matches(r, Seen(s, r))' => Matches(r, Seen(s, r))
    BY <2>2 DEF Matches
  <2>6. Holding(s, r)'
    BY <1>2, <2>1, <2>2, <2>4, <2>5 DEF Holding
  <2>7. Holding(s, At(s))'
    BY <1>3, <2>6 DEF Holding, Left, Kept, Ahead, Matches, Seen
  <2> QED BY <1>2, <2>7 DEF Walks
<1> QED BY <1>2, <1>3, <1>4, WalkerMoves

(* What the page held is stored, and the cursor has the rest.  A crash     *)
(* right after the commit finds the same.                                  *)
LEMMA StoreWalks ==
    ASSUME Goes, FactInv, StatusInv, WalkInv, NEW s \in Syncs, Stores(s)
    PROVE  WalkInv'
<1>0. HubInv /\ TaskInv /\ TaskType /\ RecordType
    BY DEF Goes, TaskInv
<1>1. PICK r \in Resources :
        /\ StorePage(s, r)
        /\ \A k \in 1..Len(rows[s]) :
             /\ stored'[r][rows[s][k].id] > 0
             /\ r = "pull_requests" => rows[s][k].id \in detailed'
    BY <1>0, PageStored
<1>2. /\ Elsewhere(s) /\ Apart(r) /\ at'[s] = at[s] /\ r = At(s)
      /\ pc[s] = "store" /\ pc'[s] = (IF next[s] = 0 THEN "finish" ELSE "fetch")
      /\ (next[s] # 0 => page'[s] = next[s])
      /\ cursor'[r] = next[s] /\ etag'[r] = Seen(s, r)
      /\ walk'[r] = chain[s] /\ promised'[r] = promised[r] /\ chain'[s] = chain[s]
      /\ onFirst'[s] = FALSE /\ tag'[s] = {}
      /\ UNCHANGED <<hub, movedUp, overlapped>>
    BY <1>0, <1>1, StoreFacts DEF Seen
<1>3. Walking(s) /\ At(s)' = r
    BY <1>2, SamePlace DEF Walking
<1>4. ASSUME r \notin overlapped
      PROVE  Resume(r)' /\ Walks(s, At(s))'
  <2>1. Resume(r) /\ Holding(s, r)
    BY <1>2, <1>4 DEF WalkInv, Walks
  <2>2. /\ Listed(r) \subseteq Ids /\ Listed(r)' = Listed(r) /\ chain[s] \subseteq Ids
        /\ promised[r] \subseteq Ids /\ PageOf(r, 1)' = PageOf(r, 1)
    BY <1>0, <1>2 DEF HubInv, Listed, Listing, TaskType, RecordType, PageOf, hub
  <2>3. PICK m \in Nat : m = next[s] /\ m = cursor'[r]
    BY <1>0, <1>2 DEF TaskType
  <2>4. ASSUME NEW i \in Ids, Holds(s, i) \/ Left(r, i, next[s]) PROVE Left(r, i, m)'
    <3>1. CASE Holds(s, i)
      BY <1>1, <3>1 DEF Holds, Left, Kept
    <3>2. CASE Left(r, i, m)
      BY <3>2, LeftOn
    <3> QED BY <2>3, <2>4, <3>1, <3>2
  <2>5. \A i \in chain[s] : Left(r, i, m)'
    BY <2>1, <2>2, <2>4 DEF Holding
  <2>6. ASSUME Matches(r, etag[r])' PROVE \A i \in Listed(r)' : Left(r, i, m)'
    <3>1. Matches(r, Seen(s, r))
      BY <1>2, <2>2, <2>6 DEF Matches
    <3> QED BY <2>1, <2>2, <2>4, <3>1 DEF Holding
  <2>7. \A i \in promised'[r] : Kept(r, i)'
    BY <1>2, <2>1, <2>2, KeptOn DEF Resume
  <2>8. \A i : Left(r, i, m)' <=> Left(r, i, cursor[r])'
    BY <2>3 DEF Left, Kept, Ahead
  <2>9. Resume(r)'
    BY <1>2, <2>5, <2>6, <2>7, <2>8 DEF Resume
  <2>10. CASE m = 0
    <3>1. \A i : Left(r, i, m)' => Kept(r, i)'
      BY <2>10 DEF Left
    <3>2. Finishing(s, r)'
      BY <1>2, <2>5, <2>6, <3>1 DEF Finishing
    <3>3. Finishing(s, At(s))'
      BY <1>3, <3>2 DEF Finishing, Kept, Matches
    <3>4. pc'[s] = "finish"
      BY <1>2, <2>3, <2>10
    <3> QED BY <2>9, <3>3, <3>4 DEF Walks
  <2>11. CASE m # 0
    <3>1. page'[s] = m /\ pc'[s] = "fetch"
      BY <1>2, <2>3, <2>11
    <3>2. \A i \in chain'[s] : Left(At(s), i, page[s])'
      BY <1>2, <1>3, <2>5, <3>1 DEF Left, Kept, Ahead
    <3>3. Fetching(s, At(s))'
      BY <1>2, <1>3, <2>3, <3>1, <3>2 DEF Fetching
    <3> QED BY <2>9, <3>1, <3>3 DEF Walks
  <2> QED BY <2>10, <2>11
<1> QED BY <1>2, <1>3, <1>4, WalkerWrites

(* A walk that ends has stored all it set out for. *)
LEMMA FinishWalks ==
    ASSUME Goes, StatusInv, WalkInv, NEW s \in Syncs, FinishResource(s)
    PROVE  WalkInv'
<1>0. HubInv /\ TaskInv /\ TaskType /\ RecordType
    BY DEF Goes, TaskInv
<1>1. PICK r \in Resources : r = At(s)
    BY <1>0, AtResource
<1>2. /\ Elsewhere(s) /\ Apart(r) /\ pc[s] = "finish" /\ pc'[s] \in {"off", "begin"}
      /\ cursor'[r] = 0 /\ promised'[r] = promised[r] \cup chain[s]
      /\ UNCHANGED <<hub, etag, walk, overlapped>>
    BY <1>0, <1>1, FinishFacts
<1>3. Walking(s)
    BY <1>2 DEF Walking
<1>4. Walks(s, At(s))'
    BY <1>2 DEF Walks
<1>5. ASSUME r \notin overlapped PROVE Resume(r)'
  <2>1. Resume(r) /\ Finishing(s, r)
    BY <1>1, <1>2, <1>5 DEF WalkInv, Walks
  <2>2. /\ Listed(r) \subseteq Ids /\ Listed(r)' = Listed(r) /\ chain[s] \subseteq Ids
        /\ promised[r] \subseteq Ids /\ PageOf(r, 1)' = PageOf(r, 1)
    BY <1>0, <1>2 DEF HubInv, Listed, Listing, TaskType, RecordType, PageOf, hub
  <2>3. \A i \in promised'[r] : Kept(r, i)'
    BY <1>2, <2>1, <2>2, KeptOn DEF Resume, Finishing
  <2>4. ASSUME Matches(r, etag[r])' PROVE \A i \in Listed(r)' : Left(r, i, cursor[r])'
    <3>1. Matches(r, etag[r])
      BY <1>2, <2>2, <2>4 DEF Matches
    <3>2. \A i \in Listed(r) : Kept(r, i)'
      BY <2>1, <2>2, <3>1, KeptOn DEF Finishing
    <3> QED BY <2>2, <3>2 DEF Left
  <2> QED BY <1>2, <2>3, <2>4 DEF Resume
<1> QED BY <1>1, <1>2, <1>3, <1>4, <1>5, WalkerWrites

(* Every step. *)
LEMMA StepWalks == BaseInv /\ StatusInv /\ WalkInv /\ [Next]_vars => WalkInv'
<1> SUFFICES ASSUME BaseInv, StatusInv, WalkInv, [Next]_vars PROVE WalkInv'
    OBVIOUS
<1>0. HubInv /\ FactInv /\ TaskInv /\ Goes
    BY StepKeeps DEF BaseInv, Goes
<1>1. CASE HubStep
    BY <1>0, <1>1, WalksStay DEF HubStep, Push, DeleteBranch, UpdatePull, Appear, Change, sync
<1>2. CASE WebhookStep
    BY <1>0, <1>2, WebhookFacts, WalksStay DEF sync, history
<1>3. CASE DisableTracking \/ UNCHANGED vars
    BY <1>0, <1>3, WalksStay DEF DisableTracking, vars, sync, history
<1>4. ASSUME NEW s \in Syncs, Rests(s) PROVE WalkInv'
  <2>1. /\ Elsewhere(s) /\ pc'[s] \in {"off", "read", "begin", "failing"}
        /\ overlapped \subseteq overlapped' /\ UNCHANGED <<cursor, etag, walk, promised>>
    BY <1>0, <1>4, RestFacts
  <2>2. Walks(s, At(s))'
    BY <2>1 DEF Walks
  <2> QED BY <1>0, <2>1, <2>2, WalkerMoves
<1> QED BY <1>0, <1>1, <1>2, <1>3, <1>4, StepCases, BeginWalks, NotModifiedWalks, FetchWalks, PrepareWalks,
           StoreWalks, FinishWalks

(* The initial state. *)
LEMMA InitWalks == Init => WalkInv
<1> SUFFICES ASSUME Init PROVE WalkInv
    OBVIOUS
<1>1. ASSUME NEW r \in Resources PROVE Resume(r)
    BY DEF Init, Resume, Matches
<1>2. \A s \in Syncs, r \in Resources : Walks(s, r)
    BY DEF Init, Walks
<1> QED BY <1>1, <1>2 DEF WalkInv

(* A resource that was marked as synced has every item the walk set out    *)
(* for, with the counts of its pull requests, through every interruption,  *)
(* resumption and 304, except for items that moved up and resources two    *)
(* tasks walked at once.                                                   *)
THEOREM SuccessesAreComplete == Spec => []SuccessIsComplete
<1>1. WalkInv => SuccessIsComplete
    BY DEF WalkInv, Resume, Kept, SuccessIsComplete
<1> QED BY <1>1, InitBase, StepBase, InitStatus, StepStatus, InitWalks, StepWalks, PTL DEF Spec
=============================================================================
