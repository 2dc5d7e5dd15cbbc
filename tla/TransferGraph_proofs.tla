-------------------------- MODULE TransferGraph_proofs --------------------------
(***************************************************************************)
(* What is proved of TransferGraph: the edges are transfers that were made *)
(* on chain, a page that was written has all of its wallet's, and what the *)
(* queries show of the graph is what happened on chain.                    *)
(*                                                                         *)
(* The folds and the list of lists of ChainTx come first, then what a      *)
(* transaction that resolves has to do with what happened on chain, then   *)
(* the steps, then the queries.                                            *)
(***************************************************************************)
EXTENDS TransferGraph, InductionLemmas

-----------------------------------------------------------------------------
(* The folds.                                                              *)

\* UpsertEdges' fold merges one edge after the other into the graph.
LEMMA FoldEdges ==
    ASSUME NEW stored \in SUBSET EdgeType, NEW s \in Seq(EdgeType)
    PROVE  \E f : /\ f[0] = stored
                  /\ \A k \in 1..Len(s) : f[k] = MergeEdge(f[k - 1], s[k])
                  /\ FoldLeft(MergeEdge, stored, s) = f[Len(s)]
<1> DEFINE D == 1..Len(s)
           V == SUBSET EdgeType
           step == [p \in D \X V |-> MergeEdge(p[2], s[p[1]])]
           Body(g, x) == IF x = {} THEN stored ELSE MergeEdge(g[x \ {Max(x)}], s[Max(x)])
           it == CHOOSE g : g = [x \in SUBSET D |-> Body(g, x)]
           f == [k \in 0..Len(s) |-> it[1..k]]
<1>1. DOMAIN s = D /\ Len(s) \in Nat
  OBVIOUS
<1>2. FoldLeft(MergeEdge, stored, s) = it[D]
  BY <1>1 DEF FoldLeft, MapThenFoldSet
<1>3. step \in [D \X V -> V]
  <2>1. \A k \in D, v \in V : MergeEdge(v, s[k]) \in V
    BY <1>1 DEF MergeEdge
  <2> QED
    BY <2>1
<1>4. PICK g \in [SUBSET D -> V] : FoldsUp(g, Len(s), V, stored, step)
  <2> HIDE DEF step
  <2> QED
    BY <1>1, <1>3, FoldRecursion
<1>5. g = [x \in SUBSET D |-> Body(g, x)]
  BY <1>4 DEF FoldsUp
<1>6. it = [x \in SUBSET D |-> Body(it, x)]
  BY <1>5
<1>7. \A x \in SUBSET D : it[x] = Body(it, x)
  <2> HIDE DEF it
  <2> QED
    BY <1>6
<1> HIDE DEF it
<1>8. f[0] = stored /\ f[Len(s)] = it[D]
  <2>1. f[0] = it[{}] /\ {} \in SUBSET D
    BY <1>1
  <2>2. it[{}] = stored
    BY <1>7, <2>1
  <2> QED
    BY <1>1, <2>1, <2>2
<1>9. ASSUME NEW k \in 1..Len(s) PROVE f[k] = MergeEdge(f[k - 1], s[k])
  <2>1. /\ 1..k \in SUBSET D /\ 1..k # {} /\ Max(1..k) = k
        /\ (1..k) \ {k} = 1..(k - 1) /\ k - 1 \in 0..Len(s)
    BY <1>1, MaxOfRange
  <2>2. it[1..k] = MergeEdge(it[1..(k - 1)], s[k])
    BY <1>7, <2>1
  <2>3. f[k] = it[1..k] /\ f[k - 1] = it[1..(k - 1)]
    BY <2>1
  <2> QED
    BY <2>2, <2>3
<1> HIDE DEF f
<1> QED
  BY <1>2, <1>8, <1>9

SameKey(e, d) == e.sig = d.sig /\ e.from = d.from /\ e.to = d.to

KeysUnique(stored) == \A e, d \in stored : SameKey(e, d) => e = d

\* s[i] is the first of s with its key.
FirstOfKey(s, i) == \A j \in 1..(i - 1) : ~SameKey(s[j], s[i])

\* What it has done to the graph: nothing is lost, only the given edges are added,
\* of those with the same key the first, each of them or another one with its
\* key is there, and a key stays unique.
LEMMA MergedEdges ==
    ASSUME NEW stored \in SUBSET EdgeType, NEW s \in Seq(EdgeType)
    PROVE  LET merged == FoldLeft(MergeEdge, stored, s)
           IN  /\ stored \subseteq merged
               /\ \A e \in merged : \/ e \in stored
                                    \/ \E i \in DOMAIN s : e = s[i] /\ FirstOfKey(s, i)
               /\ \A i \in DOMAIN s : \E e \in merged : SameKey(e, s[i])
               /\ KeysUnique(stored) => KeysUnique(merged)
<1>1. PICK f : /\ f[0] = stored
               /\ \A k \in 1..Len(s) : f[k] = MergeEdge(f[k - 1], s[k])
               /\ FoldLeft(MergeEdge, stored, s) = f[Len(s)]
  BY FoldEdges
<1> DEFINE Good(k) == /\ stored \subseteq f[k]
                      /\ \A e \in f[k] : e \in stored \/ \E i \in 1..k : e = s[i] /\ FirstOfKey(s, i)
                      /\ \A i \in 1..k : \E e \in f[k] : SameKey(e, s[i])
                      /\ KeysUnique(stored) => KeysUnique(f[k])
           T == {k \in 0..Len(s) : Good(k)}
<1>2. Len(s) \in Nat /\ DOMAIN s = 1..Len(s)
  OBVIOUS
<1>3. 0 \in T
  BY <1>1, <1>2
<1>4. ASSUME NEW k \in 0..(Len(s) - 1), k \in T PROVE k + 1 \in T
  <2> DEFINE new == s[k + 1]
  <2>1. k + 1 \in 1..Len(s) /\ (k + 1) - 1 = k
    BY <1>2
  <2>2. f[k + 1] = MergeEdge(f[k], new)
    BY <1>1, <2>1
  <2>3. Good(k)
    BY <1>4
  <2>4. /\ 1..k \subseteq 1..(k + 1) /\ k + 1 \in 1..(k + 1)
        /\ \A i \in 1..(k + 1) : i \in 1..k \/ i = k + 1
    BY <2>1
  <2>5. CASE \E x \in f[k] : SameKey(x, new)
    <3>1. f[k + 1] = f[k]
      BY <2>2, <2>5 DEF MergeEdge, SameKey
    <3> QED
      BY <1>2, <2>1, <2>3, <2>4, <2>5, <3>1
  <2>6. CASE ~\E x \in f[k] : SameKey(x, new)
    <3>1. f[k + 1] = f[k] \cup {new}
      BY <2>2, <2>6 DEF MergeEdge, SameKey
    <3>2. FirstOfKey(s, k + 1)
      <4> SUFFICES ASSUME NEW j \in 1..k, SameKey(s[j], new) PROVE FALSE
        BY <2>1 DEF FirstOfKey
      <4>1. PICK x \in f[k] : SameKey(x, s[j])
        BY <2>3
      <4>2. SameKey(x, new)
        BY <4>1 DEF SameKey
      <4> QED
        BY <2>6, <4>2
    <3>3. \A e \in f[k + 1] : e \in stored \/ \E i \in 1..(k + 1) : e = s[i] /\ FirstOfKey(s, i)
      BY <2>3, <2>4, <3>1, <3>2
    <3>4. \A i \in 1..(k + 1) : \E e \in f[k + 1] : SameKey(e, s[i])
      <4>1. SameKey(new, new)
        BY DEF SameKey
      <4> QED
        BY <2>3, <2>4, <3>1, <4>1
    <3>5. KeysUnique(stored) => KeysUnique(f[k + 1])
      <4>1. \A x \in f[k] : ~SameKey(x, new) /\ ~SameKey(new, x)
        BY <2>6 DEF SameKey
      <4> QED
        BY <2>3, <3>1, <4>1 DEF KeysUnique
    <3>6. stored \subseteq f[k + 1]
      BY <2>3, <3>1
    <3>7. Good(k + 1) /\ k + 1 \in 0..Len(s)
      BY <1>2, <2>1, <3>3, <3>4, <3>5, <3>6
    <3> QED
      BY <3>7
  <2> QED
    BY <2>5, <2>6
<1> HIDE DEF T
<1>5. \A k \in 0..Len(s) : k \in T
  BY <1>2, <1>3, <1>4, UpTo
<1>6. Good(Len(s))
  BY <1>2, <1>5 DEF T
<1> QED
  BY <1>1, <1>2, <1>6

SourceMaps == [Addresses -> {"none", "pump_seed", "discovered"}]

\* Its fold over the nodes.
LEMMA FoldNodes ==
    ASSUME NEW sources \in SourceMaps, NEW s \in Seq(EdgeType)
    PROVE  \E f : /\ f[0] = sources
                  /\ \A k \in 1..Len(s) : f[k] = MergeNodes(f[k - 1], s[k])
                  /\ FoldLeft(MergeNodes, sources, s) = f[Len(s)]
<1> DEFINE D == 1..Len(s)
           V == SourceMaps
           step == [p \in D \X V |-> MergeNodes(p[2], s[p[1]])]
           Body(g, x) == IF x = {} THEN sources ELSE MergeNodes(g[x \ {Max(x)}], s[Max(x)])
           it == CHOOSE g : g = [x \in SUBSET D |-> Body(g, x)]
           f == [k \in 0..Len(s) |-> it[1..k]]
<1>1. DOMAIN s = D /\ Len(s) \in Nat
  OBVIOUS
<1>2. FoldLeft(MergeNodes, sources, s) = it[D]
  BY <1>1 DEF FoldLeft, MapThenFoldSet
<1>3. step \in [D \X V -> V]
  <2>1. \A k \in D, v \in V : MergeNodes(v, s[k]) \in V
    BY <1>1 DEF MergeNodes, SourceMaps
  <2> QED
    BY <2>1
<1>4. PICK g \in [SUBSET D -> V] : FoldsUp(g, Len(s), V, sources, step)
  <2> HIDE DEF step
  <2> QED
    BY <1>1, <1>3, FoldRecursion
<1>5. g = [x \in SUBSET D |-> Body(g, x)]
  BY <1>4 DEF FoldsUp
<1>6. it = [x \in SUBSET D |-> Body(it, x)]
  BY <1>5
<1>7. \A x \in SUBSET D : it[x] = Body(it, x)
  <2> HIDE DEF it
  <2> QED
    BY <1>6
<1> HIDE DEF it
<1>8. f[0] = sources /\ f[Len(s)] = it[D]
  <2>1. f[0] = it[{}] /\ {} \in SUBSET D
    BY <1>1
  <2>2. it[{}] = sources
    BY <1>7, <2>1
  <2> QED
    BY <1>1, <2>1, <2>2
<1>9. ASSUME NEW k \in 1..Len(s) PROVE f[k] = MergeNodes(f[k - 1], s[k])
  <2>1. /\ 1..k \in SUBSET D /\ 1..k # {} /\ Max(1..k) = k
        /\ (1..k) \ {k} = 1..(k - 1) /\ k - 1 \in 0..Len(s)
    BY <1>1, MaxOfRange
  <2>2. it[1..k] = MergeNodes(it[1..(k - 1)], s[k])
    BY <1>7, <2>1
  <2>3. f[k] = it[1..k] /\ f[k - 1] = it[1..(k - 1)]
    BY <2>1
  <2> QED
    BY <2>2, <2>3
<1> HIDE DEF f
<1> QED
  BY <1>2, <1>8, <1>9

\* Every node keeps a source, and those at the ends of the edges get one.
LEMMA MergedNodes ==
    ASSUME NEW sources \in SourceMaps, NEW s \in Seq(EdgeType)
    PROVE  LET merged == FoldLeft(MergeNodes, sources, s)
           IN  /\ merged \in SourceMaps
               /\ \A a \in Addresses :
                     merged[a] # "none" <=>
                        \/ sources[a] # "none"
                        \/ \E i \in DOMAIN s : a \in {s[i].from, s[i].to}
<1>1. PICK f : /\ f[0] = sources
               /\ \A k \in 1..Len(s) : f[k] = MergeNodes(f[k - 1], s[k])
               /\ FoldLeft(MergeNodes, sources, s) = f[Len(s)]
  BY FoldNodes
<1> DEFINE Named(a, k) == sources[a] # "none" \/ \E i \in 1..k : a \in {s[i].from, s[i].to}
           Good(k) == /\ f[k] \in SourceMaps
                      /\ \A a \in Addresses : f[k][a] # "none" <=> Named(a, k)
           T == {k \in 0..Len(s) : Good(k)}
<1>2. Len(s) \in Nat /\ DOMAIN s = 1..Len(s)
  OBVIOUS
<1>3. 0 \in T
  <2>1. 1..0 = {} /\ 0 \in 0..Len(s)
    BY <1>2
  <2> QED
    BY <1>1, <2>1
<1>4. ASSUME NEW k \in 0..(Len(s) - 1), k \in T PROVE k + 1 \in T
  <2>1. k + 1 \in 1..Len(s) /\ (k + 1) - 1 = k /\ k + 1 \in 0..Len(s)
    BY <1>2
  <2>2. f[k + 1] = MergeNodes(f[k], s[k + 1])
    BY <1>1, <2>1
  <2>3. Good(k)
    BY <1>4
  <2>4. f[k + 1] \in SourceMaps
    BY <2>2, <2>3 DEF MergeNodes, SourceMaps
  <2>5. /\ 1..k \subseteq 1..(k + 1) /\ k + 1 \in 1..(k + 1)
        /\ \A i \in 1..(k + 1) : i \in 1..k \/ i = k + 1
    BY <2>1
  <2>6. ASSUME NEW a \in Addresses PROVE f[k + 1][a] # "none" <=> Named(a, k + 1)
    <3>1. f[k + 1][a] # "none" <=> f[k][a] # "none" \/ a \in {s[k + 1].from, s[k + 1].to}
      BY <2>2 DEF MergeNodes
    <3>2. Named(a, k + 1) <=> Named(a, k) \/ a \in {s[k + 1].from, s[k + 1].to}
      BY <2>5
    <3> QED
      BY <2>3, <3>1, <3>2
  <2> QED
    BY <2>1, <2>4, <2>6
<1> HIDE DEF T
<1>5. \A k \in 0..Len(s) : k \in T
  BY <1>2, <1>3, <1>4, UpTo
<1>6. Good(Len(s))
  BY <1>2, <1>5 DEF T
<1> QED
  BY <1>1, <1>2, <1>6

\* The edge of an instruction.
EdgeOf(ix, sig) ==
    [sig |-> sig, from |-> ix.accounts[1], to |-> ix.accounts[2], lamports |-> ix.data.lamports]

\* extractSOLEdges' fold over the instructions of a transaction.
LEMMA FoldTransfers ==
    ASSUME NEW n, NEW sig \in Sigs, NEW w, NEW S, n.ixs \in Seq(S),
           \A i \in DOMAIN n.ixs : Consider(n.ixs[i], w) => EdgeOf(n.ixs[i], sig) \in EdgeType
    PROVE  \E f : /\ f[0] = << >>
                  /\ \A k \in 1..Len(n.ixs) : f[k] = WithTransfer(f[k - 1], n.ixs[k], sig, w)
                  /\ ExtractSOLEdges(n, sig, w) = f[Len(n.ixs)]
<1> DEFINE s == n.ixs
           D == 1..Len(s)
           V == Seq(EdgeType)
           step == [p \in D \X V |-> WithTransfer(p[2], s[p[1]], sig, w)]
           Body(g, x) == IF x = {} THEN << >>
                         ELSE WithTransfer(g[x \ {Max(x)}], s[Max(x)], sig, w)
           it == CHOOSE g : g = [x \in SUBSET D |-> Body(g, x)]
           f == [k \in 0..Len(s) |-> it[1..k]]
<1>1. DOMAIN s = D /\ Len(s) \in Nat
  OBVIOUS
<1>2. ExtractSOLEdges(n, sig, w) = it[D]
  BY <1>1 DEF ExtractSOLEdges, FoldLeft, MapThenFoldSet
<1>3. step \in [D \X V -> V] /\ << >> \in V
  <2>1. \A k \in D, v \in V : WithTransfer(v, s[k], sig, w) \in V
    BY <1>1 DEF WithTransfer, EdgeOf
  <2>2. << >> \in V
    OBVIOUS
  <2> HIDE DEF V, s
  <2>3. step \in [D \X V -> V]
    BY <2>1
  <2> QED
    BY <2>2, <2>3
<1>4. PICK g \in [SUBSET D -> V] : FoldsUp(g, Len(s), V, << >>, step)
  <2> HIDE DEF step, s
  <2> QED
    BY <1>1, <1>3, FoldRecursion
<1>5. g = [x \in SUBSET D |-> Body(g, x)]
  BY <1>4 DEF FoldsUp
<1>6. it = [x \in SUBSET D |-> Body(it, x)]
  BY <1>5
<1>7. \A x \in SUBSET D : it[x] = Body(it, x)
  <2> HIDE DEF it
  <2> QED
    BY <1>6
<1> HIDE DEF it
<1>8. f[0] = << >> /\ f[Len(s)] = it[D]
  <2>1. f[0] = it[{}] /\ {} \in SUBSET D
    BY <1>1
  <2>2. it[{}] = << >>
    BY <1>7, <2>1
  <2> QED
    BY <1>1, <2>1, <2>2
<1>9. ASSUME NEW k \in 1..Len(s) PROVE f[k] = WithTransfer(f[k - 1], s[k], sig, w)
  <2>1. /\ 1..k \in SUBSET D /\ 1..k # {} /\ Max(1..k) = k
        /\ (1..k) \ {k} = 1..(k - 1) /\ k - 1 \in 0..Len(s)
    BY <1>1, MaxOfRange
  <2>2. it[1..k] = WithTransfer(it[1..(k - 1)], s[k], sig, w)
    BY <1>7, <2>1
  <2>3. f[k] = it[1..k] /\ f[k - 1] = it[1..(k - 1)]
    BY <2>1
  <2> QED
    BY <2>2, <2>3
<1> HIDE DEF f
<1> QED
  BY <1>2, <1>8, <1>9

\* The edges of the instructions before i come before the edge j.
ComeBefore(es, j, ixs, i, sig, w) ==
    \A h \in 1..(i - 1) : Consider(ixs[h], w) =>
       \E k \in DOMAIN es : k < j /\ es[k] = EdgeOf(ixs[h], sig)

\* The edges are those of the instructions that consider lets through, all of them
\* and in their order.
EdgesOfIxs(es, ixs, sig, w) ==
    /\ es \in Seq(EdgeType)
    /\ \A j \in DOMAIN es : \E i \in DOMAIN ixs :
          /\ Consider(ixs[i], w) /\ es[j] = EdgeOf(ixs[i], sig)
          /\ ComeBefore(es, j, ixs, i, sig, w)
    /\ \A i \in DOMAIN ixs : Consider(ixs[i], w) =>
          \E j \in DOMAIN es : es[j] = EdgeOf(ixs[i], sig)

\* So are the ones that the fold makes.
LEMMA Extracted ==
    ASSUME NEW n, NEW sig \in Sigs, NEW w, NEW S, n.ixs \in Seq(S),
           \A i \in DOMAIN n.ixs : Consider(n.ixs[i], w) => EdgeOf(n.ixs[i], sig) \in EdgeType
    PROVE  EdgesOfIxs(ExtractSOLEdges(n, sig, w), n.ixs, sig, w)
<1> DEFINE s == n.ixs
<1>1. PICK f : /\ f[0] = << >>
               /\ \A k \in 1..Len(s) : f[k] = WithTransfer(f[k - 1], s[k], sig, w)
               /\ ExtractSOLEdges(n, sig, w) = f[Len(s)]
  BY FoldTransfers
<1> DEFINE Good(k) == /\ f[k] \in Seq(EdgeType)
                      /\ \A j \in DOMAIN f[k] : \E i \in 1..k :
                            /\ Consider(s[i], w) /\ f[k][j] = EdgeOf(s[i], sig)
                            /\ ComeBefore(f[k], j, s, i, sig, w)
                      /\ \A i \in 1..k : Consider(s[i], w) =>
                            \E j \in DOMAIN f[k] : f[k][j] = EdgeOf(s[i], sig)
           T == {k \in 0..Len(s) : Good(k)}
<1>2. Len(s) \in Nat /\ DOMAIN s = 1..Len(s)
  OBVIOUS
<1>3. 0 \in T
  <2>1. DOMAIN f[0] = {} /\ f[0] \in Seq(EdgeType) /\ 1..0 = {} /\ 0 \in 0..Len(s)
    BY <1>1, <1>2
  <2> QED
    BY <2>1
<1>4. ASSUME NEW k \in 0..(Len(s) - 1), k \in T PROVE k + 1 \in T
  <2>1. k + 1 \in 1..Len(s) /\ (k + 1) - 1 = k
    BY <1>2
  <2>2. f[k + 1] = WithTransfer(f[k], s[k + 1], sig, w)
    BY <1>1, <2>1
  <2>3. Good(k)
    BY <1>4
  <2>4. \A i \in 1..(k + 1) : i \in 1..k \/ i = k + 1
    BY <2>1
  <2>5. 1..k \subseteq 1..(k + 1) /\ k + 1 \in 1..(k + 1) /\ k + 1 \in 0..Len(s)
    BY <1>2
  <2>6. CASE ~Consider(s[k + 1], w)
    <3>1. f[k + 1] = f[k]
      BY <2>2, <2>6 DEF WithTransfer
    <3> QED
      BY <2>3, <2>4, <2>5, <2>6, <3>1
  <2>7. CASE Consider(s[k + 1], w)
    <3> DEFINE e == EdgeOf(s[k + 1], sig)
    <3>1. f[k + 1] = Append(f[k], e)
      BY <2>2, <2>7 DEF WithTransfer, EdgeOf
    <3>2. e \in EdgeType
      BY <1>2, <2>1, <2>7
    <3> HIDE DEF e
    <3>3. /\ f[k + 1] \in Seq(EdgeType)
          /\ DOMAIN f[k + 1] = 1..(Len(f[k]) + 1)
          /\ DOMAIN f[k] = 1..Len(f[k]) /\ Len(f[k]) \in Nat
          /\ f[k + 1][Len(f[k]) + 1] = e
          /\ \A j \in DOMAIN f[k] : j \in DOMAIN f[k + 1] /\ f[k + 1][j] = f[k][j]
      <4>1. f[k] \in Seq(EdgeType)
        BY <2>3
      <4> QED
        BY <3>1, <3>2, <4>1
    <3>4. \A j \in DOMAIN f[k + 1] : j \in DOMAIN f[k] \/ j = Len(f[k]) + 1
      BY <3>3
    <3>5. \A j \in DOMAIN f[k + 1] : \E i \in 1..(k + 1) :
             /\ Consider(s[i], w) /\ f[k + 1][j] = EdgeOf(s[i], sig)
             /\ ComeBefore(f[k + 1], j, s, i, sig, w)
      <4> TAKE j \in DOMAIN f[k + 1]
      <4>1. CASE j \in DOMAIN f[k]
        <5>1. PICK i \in 1..k : /\ Consider(s[i], w) /\ f[k][j] = EdgeOf(s[i], sig)
                                /\ ComeBefore(f[k], j, s, i, sig, w)
          BY <2>3, <4>1
        <5>2. ComeBefore(f[k + 1], j, s, i, sig, w)
          BY <3>3, <5>1 DEF ComeBefore
        <5> QED
          BY <2>5, <3>3, <4>1, <5>1, <5>2
      <4>2. CASE j = Len(f[k]) + 1
        <5>1. ComeBefore(f[k + 1], j, s, k + 1, sig, w)
          <6> SUFFICES ASSUME NEW h \in 1..k, Consider(s[h], w)
                       PROVE  \E l \in DOMAIN f[k + 1] : l < j /\ f[k + 1][l] = EdgeOf(s[h], sig)
            BY <2>1 DEF ComeBefore
          <6>1. PICK l \in DOMAIN f[k] : f[k][l] = EdgeOf(s[h], sig)
            BY <2>3
          <6>2. l \in DOMAIN f[k + 1] /\ f[k + 1][l] = f[k][l] /\ l < j
            BY <3>3, <4>2
          <6> QED
            BY <6>1, <6>2
        <5>2. Consider(s[k + 1], w) /\ f[k + 1][j] = EdgeOf(s[k + 1], sig)
          BY <2>7, <3>3, <4>2 DEF e
        <5> QED
          BY <2>5, <5>1, <5>2
      <4> QED
        BY <3>4, <4>1, <4>2
    <3>6. \A i \in 1..(k + 1) : Consider(s[i], w) =>
             \E j \in DOMAIN f[k + 1] : f[k + 1][j] = EdgeOf(s[i], sig)
      <4> TAKE i \in 1..(k + 1)
      <4>1. CASE i \in 1..k
        BY <2>3, <3>3, <4>1
      <4>2. CASE i = k + 1
        <5>1. Len(f[k]) + 1 \in DOMAIN f[k + 1]
          BY <3>3
        <5> QED
          BY <3>3, <4>2, <5>1 DEF e
      <4> QED
        BY <2>4, <4>1, <4>2
    <3> QED
      BY <2>5, <3>3, <3>5, <3>6
  <2> QED
    BY <2>6, <2>7
<1> HIDE DEF T
<1>5. \A k \in 0..Len(s) : k \in T
  BY <1>2, <1>3, <1>4, UpTo
<1>6. Good(Len(s))
  <2>1. Len(s) \in T
    BY <1>2, <1>5
  <2> QED
    BY <2>1 DEF T
<1> QED
  BY <1>1, <1>2, <1>6 DEF EdgesOfIxs

\* The elements of a list of lists, one after the other.
LEMMA Flattened ==
    ASSUME NEW S, NEW ss \in Seq(Seq(S))
    PROVE  LET flat == FlattenSeq(ss)
           IN  /\ flat \in Seq(S)
               /\ \A k \in DOMAIN flat :
                     \E i \in DOMAIN ss : \E j \in DOMAIN ss[i] : flat[k] = ss[i][j]
               /\ \A i \in DOMAIN ss : \A j \in DOMAIN ss[i] :
                     \E k \in DOMAIN flat : flat[k] = ss[i][j]
<1> DEFINE last == Len(ss)
           Body(g, i) == IF i = 1 THEN ss[i] ELSE g[i - 1] \o ss[i]
           it == CHOOSE g : g = [i \in 1..last |-> Body(g, i)]
           V == Seq(S)
<1>1. last \in Nat /\ DOMAIN ss = 1..last /\ \A i \in 1..last : ss[i] \in Seq(S)
  OBVIOUS
<1>2. CASE last = 0
  <2>1. FlattenSeq(ss) = ss /\ ss = << >>
    BY <1>2 DEF FlattenSeq
  <2> QED
    BY <2>1
<1>3. CASE last # 0
  <2>1. FlattenSeq(ss) = it[last]
    BY <1>3 DEF FlattenSeq
  <2> DEFINE step == [p \in (1..last) \X V |-> p[2] \o ss[p[1]]]
  <2>2. step \in [(1..last) \X V -> V] /\ << >> \in V
    BY <1>1
  <2> DEFINE base == << >>
  <2>3. PICK f \in [0..last -> V] : StepsUp(f, last, base, step)
    <3> HIDE DEF last, step, base, V
    <3>1. base \in V
      BY <2>2 DEF base
    <3> QED
      BY <1>1, <2>2, <3>1, IntervalRecursion
  <2>4. \A k \in 1..last : f[k] = f[k - 1] \o ss[k] /\ f[k - 1] \in Seq(S)
    <3> TAKE k \in 1..last
    <3>1. k - 1 \in 0..last
      BY <1>1
    <3> QED
      BY <2>3, <3>1 DEF StepsUp
  <2> DEFINE h == [k \in 1..last |-> f[k]]
  <2>5. \A k \in 1..last : h[k] = Body(h, k)
    <3> TAKE k \in 1..last
    <3>1. CASE k = 1
      <4>1. f[1] = << >> \o ss[1] /\ ss[1] \in Seq(S)
        <5>1. 1 \in 1..last /\ 1 - 1 = 0 /\ f[0] = << >>
          BY <1>1, <2>3, <3>1 DEF StepsUp
        <5> QED
          BY <1>1, <2>4, <5>1
      <4> QED
        BY <3>1, <4>1
    <3>2. CASE k # 1
      <4>1. k - 1 \in 1..last
        BY <1>1, <3>2
      <4> QED
        BY <2>4, <3>2, <4>1
    <3> QED
      BY <3>1, <3>2
  <2>6. h = [i \in 1..last |-> Body(h, i)]
    <3> HIDE DEF h
    <3>1. h \in [1..last -> Seq(S)]
      BY <1>1, <2>3 DEF h
    <3> QED
      BY <2>5, <3>1
  <2>7. it = [i \in 1..last |-> Body(it, i)]
    <3> HIDE DEF h
    <3> QED
      BY <2>6
  <2>8. \A i \in 1..last : it[i] = Body(it, i)
    <3> HIDE DEF it
    <3> QED
      BY <2>7
  <2> HIDE DEF it
  <2> DEFINE Good(k) ==
               k # 0 =>
               /\ it[k] \in Seq(S)
               /\ \A m \in DOMAIN it[k] : \E i \in 1..k : \E j \in DOMAIN ss[i] : it[k][m] = ss[i][j]
               /\ \A i \in 1..k : \A j \in DOMAIN ss[i] : \E m \in DOMAIN it[k] : it[k][m] = ss[i][j]
             T == {k \in 0..last : Good(k)}
  <2>9. 0 \in T
    BY <1>1
  <2>10. ASSUME NEW k \in 0..(last - 1), k \in T PROVE k + 1 \in T
    <3>1. k + 1 \in 1..last /\ (k + 1) - 1 = k /\ k + 1 \in 0..last /\ k + 1 # 0
      BY <1>1
    <3>2. CASE k = 0
      <4>1. it[k + 1] = ss[1] /\ k + 1 = 1
        BY <2>8, <3>1, <3>2
      <4>2. \A i \in 1..1 : i = 1
        OBVIOUS
      <4> QED
        BY <1>1, <3>1, <4>1, <4>2
    <3>3. CASE k # 0
      <4>1. it[k + 1] = it[k] \o ss[k + 1]
        <5>1. k + 1 # 1
          BY <3>3
        <5> QED
          BY <2>8, <3>1, <5>1
      <4> DEFINE u == it[k]
                 v == ss[k + 1]
                 c == it[k + 1]
      <4>2. u \in Seq(S) /\ v \in Seq(S)
        BY <1>1, <2>10, <3>1, <3>3
      <4>3. /\ \A m \in DOMAIN u : \E i \in 1..k : \E j \in DOMAIN ss[i] : u[m] = ss[i][j]
            /\ \A i \in 1..k : \A j \in DOMAIN ss[i] : \E m \in DOMAIN u : u[m] = ss[i][j]
        BY <2>10, <3>3
      <4> HIDE DEF u, v, c
      <4>4. /\ c \in Seq(S)
            /\ DOMAIN u = 1..Len(u) /\ DOMAIN v = 1..Len(v) /\ Len(u) \in Nat /\ Len(v) \in Nat
            /\ DOMAIN c = 1..(Len(u) + Len(v))
            /\ \A m \in 1..Len(u) : c[m] = u[m]
            /\ \A m \in 1..Len(v) : c[Len(u) + m] = v[m]
        <5>1. c = u \o v
          BY <4>1 DEF u, v, c
        <5> QED
          BY <4>2, <5>1
      <4>5. \A m \in DOMAIN c : m \in DOMAIN u \/ (m - Len(u) \in DOMAIN v /\ m = Len(u) + (m - Len(u)))
        BY <4>4
      <4>6. /\ \A m \in DOMAIN u : m \in DOMAIN c /\ c[m] = u[m]
            /\ \A m \in DOMAIN v : Len(u) + m \in DOMAIN c
        BY <4>4
      <4>7. /\ 1..k \subseteq 1..(k + 1) /\ k + 1 \in 1..(k + 1)
            /\ \A i \in 1..(k + 1) : i \in 1..k \/ i = k + 1
        BY <3>1
      <4>8. \A m \in DOMAIN c : \E i \in 1..(k + 1) : \E j \in DOMAIN ss[i] : c[m] = ss[i][j]
        <5> TAKE m \in DOMAIN c
        <5>1. CASE m \in DOMAIN u
          <6>1. PICK i \in 1..k : \E j \in DOMAIN ss[i] : u[m] = ss[i][j]
            BY <4>3, <5>1
          <6>2. i \in 1..(k + 1) /\ c[m] = u[m]
            BY <4>6, <4>7, <5>1
          <6> QED
            BY <6>1, <6>2
        <5>2. CASE m - Len(u) \in DOMAIN v /\ m = Len(u) + (m - Len(u))
          <6>1. c[m] = v[m - Len(u)]
            BY <4>4, <5>2
          <6> QED
            BY <4>7, <5>2, <6>1 DEF v
        <5> QED
          BY <4>5, <5>1, <5>2
      <4>9. \A i \in 1..(k + 1) : \A j \in DOMAIN ss[i] : \E m \in DOMAIN c : c[m] = ss[i][j]
        <5> TAKE i \in 1..(k + 1)
        <5> TAKE j \in DOMAIN ss[i]
        <5>1. CASE i \in 1..k
          BY <4>3, <4>6, <5>1
        <5>2. CASE i = k + 1
          <6>1. j \in DOMAIN v /\ v[j] = ss[i][j]
            BY <5>2 DEF v
          <6>2. Len(u) + j \in DOMAIN c /\ c[Len(u) + j] = v[j]
            BY <4>4, <4>6, <6>1
          <6> QED
            BY <6>1, <6>2
        <5> QED
          BY <4>7, <5>1, <5>2
      <4> QED
        BY <3>1, <4>4, <4>8, <4>9 DEF c
    <3> QED
      BY <3>2, <3>3
  <2> HIDE DEF T
  <2>11. \A k \in 0..last : k \in T
    <3> HIDE DEF last
    <3> QED
      BY <1>1, <2>9, <2>10, UpTo
  <2>12. Good(last)
    <3>1. last \in T
      BY <1>1, <2>11
    <3> QED
      BY <3>1 DEF T
  <2> DEFINE flat == FlattenSeq(ss)
  <2>13. /\ flat \in Seq(S)
         /\ \A m \in DOMAIN flat : \E i \in 1..last : \E j \in DOMAIN ss[i] : flat[m] = ss[i][j]
         /\ \A i \in 1..last : \A j \in DOMAIN ss[i] : \E m \in DOMAIN flat : flat[m] = ss[i][j]
    <3> HIDE DEF last
    <3> QED
      BY <1>3, <2>1, <2>12
  <2> QED
    BY <1>1, <2>13
<1> QED
  BY <1>2, <1>3

-----------------------------------------------------------------------------
(* What a transaction that resolves has to do with what happened on chain. *)

\* An index in range names the key that Normalize takes for it, another one none.
LEMMA KeysAreNames ==
    ASSUME NEW raw \in RawTx
    PROVE  LET keys == Keys(raw)
           IN  /\ keys \in Seq(AccountKeys)
               /\ ToSet(keys) = ToSet(raw.static) \cup ToSet(raw.writable) \cup ToSet(raw.readonly)
               /\ \A index \in Int : \A key :
                     Names(raw, index, key) <=> InRange(index, keys) /\ key = keys[index + 1]
<1> DEFINE u == raw.static
           v == raw.writable
           x == raw.readonly
           keys == Keys(raw)
<1>1. u \in Seq(AccountKeys) /\ v \in Seq(AccountKeys) /\ x \in Seq(AccountKeys)
  BY DEF RawTx
<1>2. keys = (u \o v) \o x
  BY DEF Keys
<1>3. /\ keys \in Seq(AccountKeys)
      /\ DOMAIN u = 1..Len(u) /\ DOMAIN v = 1..Len(v) /\ DOMAIN x = 1..Len(x)
      /\ Len(u) \in Nat /\ Len(v) \in Nat /\ Len(x) \in Nat
      /\ Len(keys) = Len(u) + Len(v) + Len(x) /\ DOMAIN keys = 1..Len(keys)
      /\ \A k \in 1..Len(u) : keys[k] = u[k]
      /\ \A k \in 1..Len(v) : keys[Len(u) + k] = v[k]
      /\ \A k \in 1..Len(x) : keys[Len(u) + Len(v) + k] = x[k]
  <2> HIDE DEF u, v, x, keys
  <2> DEFINE y == u \o v
  <2>1. /\ y \in Seq(AccountKeys) /\ Len(y) = Len(u) + Len(v)
        /\ Len(u) \in Nat /\ Len(v) \in Nat
        /\ \A k \in 1..Len(u) : y[k] = u[k]
        /\ \A k \in 1..Len(v) : y[Len(u) + k] = v[k]
    BY <1>1
  <2> HIDE DEF y
  <2>2. /\ keys \in Seq(AccountKeys) /\ Len(keys) = Len(y) + Len(x)
        /\ Len(x) \in Nat
        /\ \A k \in 1..Len(y) : keys[k] = y[k]
        /\ \A k \in 1..Len(x) : keys[Len(y) + k] = x[k]
    BY <1>1, <1>2, <2>1 DEF y
  <2>3. /\ DOMAIN u = 1..Len(u) /\ DOMAIN v = 1..Len(v) /\ DOMAIN x = 1..Len(x)
        /\ DOMAIN keys = 1..Len(keys)
    BY <1>1, <2>2
  <2>4. \A k \in 1..Len(u) : keys[k] = u[k]
    BY <2>1, <2>2
  <2>5. \A k \in 1..Len(v) : keys[Len(u) + k] = v[k]
    <3> TAKE k \in 1..Len(v)
    <3>1. Len(u) + k \in 1..Len(y)
      BY <2>1
    <3> QED
      BY <2>1, <2>2, <3>1
  <2> QED
    BY <2>1, <2>2, <2>3, <2>4, <2>5
<1>4. \A k \in DOMAIN keys : \/ k \in 1..Len(u)
                             \/ k - Len(u) \in 1..Len(v)
                             \/ k - Len(u) - Len(v) \in 1..Len(x)
  <2> HIDE DEF u, v, x, keys
  <2> QED
    BY <1>3
<1>5. ToSet(keys) = ToSet(u) \cup ToSet(v) \cup ToSet(x)
  <2> HIDE DEF u, v, x, keys
  <2>1. ASSUME NEW k \in DOMAIN keys PROVE keys[k] \in ToSet(u) \cup ToSet(v) \cup ToSet(x)
    <3>1. CASE k \in 1..Len(u)
      BY <1>3, <3>1 DEF ToSet
    <3>2. CASE k - Len(u) \in 1..Len(v)
      <4>1. keys[k] = v[k - Len(u)]
        BY <1>3, <3>2
      <4> QED
        BY <1>3, <3>2, <4>1 DEF ToSet
    <3>3. CASE k - Len(u) - Len(v) \in 1..Len(x)
      <4>1. keys[k] = x[k - Len(u) - Len(v)]
        BY <1>3, <3>3
      <4> QED
        BY <1>3, <3>3, <4>1 DEF ToSet
    <3> QED
      BY <1>4, <3>1, <3>2, <3>3
  <2>2. ASSUME NEW k \in DOMAIN u PROVE u[k] \in ToSet(keys)
    <3>1. k \in DOMAIN keys /\ keys[k] = u[k]
      BY <1>3
    <3> QED
      BY <3>1 DEF ToSet
  <2>3. ASSUME NEW k \in DOMAIN v PROVE v[k] \in ToSet(keys)
    <3>1. Len(u) + k \in DOMAIN keys /\ keys[Len(u) + k] = v[k]
      BY <1>3
    <3> QED
      BY <3>1 DEF ToSet
  <2>4. ASSUME NEW k \in DOMAIN x PROVE x[k] \in ToSet(keys)
    <3>1. Len(u) + Len(v) + k \in DOMAIN keys /\ keys[Len(u) + Len(v) + k] = x[k]
      BY <1>3
    <3> QED
      BY <3>1 DEF ToSet
  <2> QED
    BY <2>1, <2>2, <2>3, <2>4 DEF ToSet
<1>6. ASSUME NEW index \in Int, NEW key
      PROVE  Names(raw, index, key) <=> InRange(index, keys) /\ key = keys[index + 1]
  <2>1. ASSUME Names(raw, index, key) PROVE InRange(index, keys) /\ key = keys[index + 1]
    <3>1. \/ \E k \in DOMAIN u : index = k - 1 /\ key = u[k]
          \/ \E k \in DOMAIN v : index = Len(u) + k - 1 /\ key = v[k]
          \/ \E k \in DOMAIN x : index = Len(u) + Len(v) + k - 1 /\ key = x[k]
      BY <2>1 DEF Names
    <3> HIDE DEF u, v, x, keys
    <3>2. CASE \E k \in DOMAIN u : index = k - 1 /\ key = u[k]
      BY <1>3, <3>2 DEF InRange
    <3>3. CASE \E k \in DOMAIN v : index = Len(u) + k - 1 /\ key = v[k]
      <4>1. PICK k \in DOMAIN v : index = Len(u) + k - 1 /\ key = v[k]
        BY <3>3
      <4>2. index + 1 = Len(u) + k /\ keys[Len(u) + k] = v[k]
        BY <1>3, <4>1
      <4> QED
        BY <1>3, <4>1, <4>2 DEF InRange
    <3>4. CASE \E k \in DOMAIN x : index = Len(u) + Len(v) + k - 1 /\ key = x[k]
      <4>1. PICK k \in DOMAIN x : index = Len(u) + Len(v) + k - 1 /\ key = x[k]
        BY <3>4
      <4>2. index + 1 = Len(u) + Len(v) + k /\ keys[Len(u) + Len(v) + k] = x[k]
        BY <1>3, <4>1
      <4> QED
        BY <1>3, <4>1, <4>2 DEF InRange
    <3> QED
      BY <3>1, <3>2, <3>3, <3>4
  <2>2. ASSUME InRange(index, keys), key = keys[index + 1] PROVE Names(raw, index, key)
    <3>1. \/ \E k \in DOMAIN u : index = k - 1 /\ key = u[k]
          \/ \E k \in DOMAIN v : index = Len(u) + k - 1 /\ key = v[k]
          \/ \E k \in DOMAIN x : index = Len(u) + Len(v) + k - 1 /\ key = x[k]
      <4> HIDE DEF u, v, x, keys
      <4>1. index + 1 \in DOMAIN keys
        BY <1>3, <2>2 DEF InRange
      <4>2. CASE index + 1 \in 1..Len(u)
        <5>1. index = (index + 1) - 1 /\ key = u[index + 1]
          BY <1>3, <2>2, <4>2
        <5> QED
          BY <1>3, <4>2, <5>1
      <4>3. CASE (index + 1) - Len(u) \in 1..Len(v)
        <5> DEFINE k == (index + 1) - Len(u)
        <5>1. k \in DOMAIN v /\ index = Len(u) + k - 1 /\ key = v[k]
          BY <1>3, <2>2, <4>3
        <5> QED
          BY <5>1
      <4>4. CASE (index + 1) - Len(u) - Len(v) \in 1..Len(x)
        <5> DEFINE k == (index + 1) - Len(u) - Len(v)
        <5>1. k \in DOMAIN x /\ index = Len(u) + Len(v) + k - 1 /\ key = x[k]
          BY <1>3, <2>2, <4>4
        <5> QED
          BY <5>1
      <4> QED
        BY <1>4, <4>1, <4>2, <4>3, <4>4
    <3> QED
      BY <3>1 DEF Names
  <2> QED
    BY <2>1, <2>2
<1> QED
  BY <1>3, <1>5, <1>6

\* What Normalize walks through is what the transaction executed.
LEMMA RawIxsExecuted ==
    ASSUME NEW raw \in RawTx
    PROVE  /\ RawIxs(raw) \in Seq(Ix)
           /\ Executed(raw) \subseteq Ix
           /\ \A i \in DOMAIN RawIxs(raw) : RawIxs(raw)[i] \in Executed(raw)
           /\ \A ix \in Executed(raw) : \E i \in DOMAIN RawIxs(raw) : ix = RawIxs(raw)[i]
<1> DEFINE u == raw.instructions
           flat == FlattenSeq(raw.inner)
           c == RawIxs(raw)
<1>1. u \in Seq(Ix) /\ raw.inner \in Seq(Seq(Ix))
  BY DEF RawTx
<1>2. /\ flat \in Seq(Ix)
      /\ \A k \in DOMAIN flat :
            \E i \in DOMAIN raw.inner : \E j \in DOMAIN raw.inner[i] : flat[k] = raw.inner[i][j]
      /\ \A i \in DOMAIN raw.inner : \A j \in DOMAIN raw.inner[i] :
            \E k \in DOMAIN flat : flat[k] = raw.inner[i][j]
  BY <1>1, Flattened
<1>3. c = u \o flat
  BY DEF RawIxs
<1> HIDE DEF flat, c
<1>4. /\ c \in Seq(Ix)
      /\ DOMAIN u = 1..Len(u) /\ DOMAIN flat = 1..Len(flat) /\ Len(u) \in Nat /\ Len(flat) \in Nat
      /\ DOMAIN c = 1..(Len(u) + Len(flat))
      /\ \A m \in 1..Len(u) : c[m] = u[m]
      /\ \A m \in 1..Len(flat) : c[Len(u) + m] = flat[m]
  <2> HIDE DEF u
  <2> QED
    BY <1>1, <1>2, <1>3
<1>5. ASSUME NEW i \in DOMAIN c PROVE c[i] \in Executed(raw)
  <2>1. CASE i \in 1..Len(u)
    BY <1>4, <2>1 DEF Executed
  <2>2. CASE i - Len(u) \in 1..Len(flat)
    <3>1. c[i] = flat[i - Len(u)] /\ i - Len(u) \in DOMAIN flat
      <4> HIDE DEF u
      <4> QED
        BY <1>4, <2>2
    <3>2. PICK k \in DOMAIN raw.inner : \E j \in DOMAIN raw.inner[k] : c[i] = raw.inner[k][j]
      BY <1>2, <3>1
    <3> QED
      BY <3>2 DEF Executed
  <2>3. i \in 1..Len(u) \/ i - Len(u) \in 1..Len(flat)
    <3> HIDE DEF u
    <3> QED
      BY <1>4
  <2> QED
    BY <2>1, <2>2, <2>3
<1>6. ASSUME NEW ix \in Executed(raw) PROVE \E i \in DOMAIN c : ix = c[i]
  <2>1. CASE \E i \in DOMAIN u : ix = u[i]
    <3>1. PICK i \in DOMAIN u : ix = u[i]
      BY <2>1
    <3>2. i \in DOMAIN c /\ c[i] = u[i]
      <4> HIDE DEF u
      <4> QED
        BY <1>4
    <3> QED
      BY <3>1, <3>2
  <2>2. CASE \E i \in DOMAIN raw.inner : \E j \in DOMAIN raw.inner[i] : ix = raw.inner[i][j]
    <3>1. PICK k \in DOMAIN flat : ix = flat[k]
      BY <1>2, <2>2
    <3>2. Len(u) + k \in DOMAIN c /\ c[Len(u) + k] = flat[k]
      <4> HIDE DEF u
      <4> QED
        BY <1>4
    <3> QED
      BY <3>1, <3>2
  <2> QED
    BY <2>1, <2>2 DEF Executed
<1>7. Executed(raw) \subseteq Ix
  BY <1>4, <1>6
<1> QED
  BY <1>4, <1>5, <1>6, <1>7 DEF c

\* A program and accounts that resolve are those the chain calls and passes, and
\* where the chain finds a key for every index everything resolves.
LEMMA ResolvesRight ==
    ASSUME NEW raw \in RawTx, NEW ix \in Ix,
           ix.accounts \in IF ix.form = "indices" THEN Seq(Int) ELSE Seq(AccountKeys)
    PROVE  LET keys == Keys(raw)
               r == ResolveIx(ix, keys)
           IN  /\ Resolvable(ix, keys) =>
                     /\ r.program \in AccountKeys
                     /\ r.accounts \in Seq(AccountKeys)
                     /\ DOMAIN r.accounts = DOMAIN ix.accounts
                     /\ r.data = ix.data
                     /\ \A program : Calls(raw, ix, program) <=> r.program = program
                     /\ \A k \in DOMAIN ix.accounts : \A account :
                           Passes(raw, ix, k, account) <=> r.accounts[k] = account
               /\ (/\ \E program \in AccountKeys : Calls(raw, ix, program)
                   /\ \A k \in DOMAIN ix.accounts :
                         \E account \in AccountKeys : Passes(raw, ix, k, account))
                     => Resolvable(ix, keys)
<1> DEFINE keys == Keys(raw)
           r == ResolveIx(ix, keys)
<1>1. /\ keys \in Seq(AccountKeys)
      /\ \A index \in Int : \A key :
            Names(raw, index, key) <=> InRange(index, keys) /\ key = keys[index + 1]
  BY KeysAreNames
<1>2. /\ ix.program \in AccountKeys \cup {Inline} /\ ix.programIndex \in Int
      /\ ix.form \in {"indices", "addresses"}
  BY DEF Ix
<1> HIDE DEF keys
<1>3. \A index \in Int : InRange(index, keys) => keys[index + 1] \in AccountKeys
  BY <1>1 DEF InRange
<1>4. ASSUME Resolvable(ix, keys) PROVE
        /\ r.program \in AccountKeys
        /\ \A program : Calls(raw, ix, program) <=> r.program = program
  <2>1. CASE ix.program = Inline
    <3>1. InRange(ix.programIndex, keys) /\ r.program = keys[ix.programIndex + 1]
      BY <1>4, <2>1 DEF Resolvable, ResolveIx
    <3> HIDE DEF r
    <3> QED
      BY <1>1, <1>2, <1>3, <2>1, <3>1 DEF Calls
  <2>2. CASE ix.program # Inline
    BY <1>2, <2>2 DEF ResolveIx, Calls
  <2> QED
    BY <2>1, <2>2
<1>5. ASSUME Resolvable(ix, keys) PROVE
        /\ r.accounts \in Seq(AccountKeys)
        /\ DOMAIN r.accounts = DOMAIN ix.accounts
        /\ \A k \in DOMAIN ix.accounts : \A account :
              Passes(raw, ix, k, account) <=> r.accounts[k] = account
  <2>1. CASE ix.form = "indices"
    <3>1. /\ ix.accounts \in Seq(Int)
          /\ \A k \in DOMAIN ix.accounts : InRange(ix.accounts[k], keys)
          /\ r.accounts = [k \in DOMAIN ix.accounts |-> keys[ix.accounts[k] + 1]]
      BY <1>5, <2>1 DEF Resolvable, ResolveIx
    <3> HIDE DEF r
    <3>2. \A k \in DOMAIN ix.accounts : ix.accounts[k] \in Int
      BY <3>1
    <3>3. \A k \in DOMAIN ix.accounts : r.accounts[k] = keys[ix.accounts[k] + 1]
      BY <3>1
    <3>4. r.accounts \in Seq(AccountKeys) /\ DOMAIN r.accounts = DOMAIN ix.accounts
      <4>1. DOMAIN ix.accounts = 1..Len(ix.accounts) /\ Len(ix.accounts) \in Nat
        BY <3>1
      <4>2. r.accounts \in [1..Len(ix.accounts) -> AccountKeys]
        BY <1>3, <3>1, <3>2, <4>1
      <4> QED
        BY <4>1, <4>2
    <3> QED
      BY <1>1, <2>1, <3>1, <3>2, <3>3, <3>4 DEF Passes
  <2>2. CASE ix.form # "indices"
    BY <2>2 DEF ResolveIx, Passes
  <2> QED
    BY <2>1, <2>2
<1>6. r.data = ix.data
  BY DEF ResolveIx
<1>7. ASSUME \E program \in AccountKeys : Calls(raw, ix, program),
             \A k \in DOMAIN ix.accounts :
                \E account \in AccountKeys : Passes(raw, ix, k, account)
      PROVE  Resolvable(ix, keys)
  <2>1. ASSUME ix.program = Inline PROVE InRange(ix.programIndex, keys)
    BY <1>1, <1>2, <1>7, <2>1 DEF Calls
  <2>2. ASSUME ix.form = "indices", NEW k \in DOMAIN ix.accounts
        PROVE  InRange(ix.accounts[k], keys)
    <3>1. ix.accounts[k] \in Int
      BY <2>2
    <3> QED
      BY <1>1, <1>7, <2>2, <3>1 DEF Passes
  <2> QED
    BY <2>1, <2>2 DEF Resolvable
<1> HIDE DEF r
<1>8. Resolvable(ix, keys) =>
        /\ r.program \in AccountKeys
        /\ r.accounts \in Seq(AccountKeys)
        /\ DOMAIN r.accounts = DOMAIN ix.accounts
        /\ r.data = ix.data
        /\ \A program : Calls(raw, ix, program) <=> r.program = program
        /\ \A k \in DOMAIN ix.accounts : \A account :
              Passes(raw, ix, k, account) <=> r.accounts[k] = account
  BY <1>4, <1>5, <1>6
<1> QED
  BY <1>7, <1>8 DEF r, keys

\* What Normalize returns: every instruction executed, with what it resolves to.
LEMMA Normalized ==
    ASSUME NEW tx \in ChainTxs, Normalizes(tx.raw)
    PROVE  LET raw == tx.raw
               n == Normalize(raw)
           IN  /\ \E S : n.ixs \in Seq(S)
               /\ DOMAIN n.ixs = DOMAIN RawIxs(raw)
               /\ \A i \in DOMAIN n.ixs : n.ixs[i] = ResolveIx(RawIxs(raw)[i], Keys(raw))
               /\ \A i \in DOMAIN n.ixs : \E ix \in Executed(raw) :
                     Resolvable(ix, Keys(raw)) /\ n.ixs[i] = ResolveIx(ix, Keys(raw))
               /\ \A ix \in Executed(raw) :
                     /\ Resolvable(ix, Keys(raw))
                     /\ \E i \in DOMAIN n.ixs : n.ixs[i] = ResolveIx(ix, Keys(raw))
               /\ n.keys = ToSet(Keys(raw))
               /\ n.programIDs = {n.ixs[i].program : i \in DOMAIN n.ixs}
<1> DEFINE raw == tx.raw
           n == Normalize(raw)
           S == {n.ixs[i] : i \in DOMAIN n.ixs}
<1>1. raw \in RawTx
  BY ChainAssumption
<1>2. /\ RawIxs(raw) \in Seq(Ix)
      /\ \A i \in DOMAIN RawIxs(raw) : RawIxs(raw)[i] \in Executed(raw)
      /\ \A ix \in Executed(raw) : \E i \in DOMAIN RawIxs(raw) : ix = RawIxs(raw)[i]
  <2> HIDE DEF raw
  <2> QED
    BY <1>1, RawIxsExecuted
<1>3. /\ n.ixs = [i \in DOMAIN RawIxs(raw) |-> ResolveIx(RawIxs(raw)[i], Keys(raw))]
      /\ n.keys = ToSet(Keys(raw))
      /\ n.programIDs = {n.ixs[i].program : i \in DOMAIN n.ixs}
  BY DEF Normalize
<1>4. \A i \in DOMAIN RawIxs(raw) : Resolvable(RawIxs(raw)[i], Keys(raw))
  BY DEF Normalizes
<1> HIDE DEF n, raw
<1>5. DOMAIN n.ixs = DOMAIN RawIxs(raw) /\ n.ixs \in Seq(S)
  <2>1. DOMAIN RawIxs(raw) = 1..Len(RawIxs(raw)) /\ Len(RawIxs(raw)) \in Nat
    BY <1>2
  <2>2. DOMAIN n.ixs = 1..Len(RawIxs(raw)) /\ n.ixs \in [1..Len(RawIxs(raw)) -> S]
    BY <1>3, <2>1
  <2> HIDE DEF S
  <2> QED
    BY <2>1, <2>2
<1>6. \A i \in DOMAIN n.ixs : n.ixs[i] = ResolveIx(RawIxs(raw)[i], Keys(raw))
  BY <1>3, <1>5
<1>7. \A i \in DOMAIN n.ixs : \E ix \in Executed(raw) :
         Resolvable(ix, Keys(raw)) /\ n.ixs[i] = ResolveIx(ix, Keys(raw))
  BY <1>2, <1>4, <1>5, <1>6
<1>8. \A ix \in Executed(raw) :
         /\ Resolvable(ix, Keys(raw))
         /\ \E i \in DOMAIN n.ixs : n.ixs[i] = ResolveIx(ix, Keys(raw))
  BY <1>2, <1>4, <1>5, <1>6
<1>9. \E T : n.ixs \in Seq(T)
  BY <1>5
<1> QED
  BY <1>3, <1>5, <1>6, <1>7, <1>8, <1>9 DEF n, raw

\* Classify sees the pump program in every transaction that touched one.
LEMMA PumpSeen ==
    ASSUME NEW tx \in ChainTxs, Normalizes(tx.raw)
    PROVE  TouchesPump(Normalize(tx.raw)) <=> tx.pump
<1> DEFINE raw == tx.raw
           n == Normalize(raw)
           keys == Keys(raw)
           OnKeys(program) == \E list \in {raw.static, raw.writable, raw.readonly} :
                                 program \in ToSet(list)
           Called(program) == \E ix \in Executed(raw) : Calls(raw, ix, program)
<1>1. raw \in RawTx /\ tx.pump \in BOOLEAN
      /\ (tx.pump <=> \E program \in PumpPrograms : OnKeys(program) \/ Called(program))
      /\ \A ix \in Executed(raw) :
            ix.accounts \in IF ix.form = "indices" THEN Seq(Int) ELSE Seq(AccountKeys)
  BY ChainAssumption
<1>2. /\ \A i \in DOMAIN n.ixs : \E ix \in Executed(raw) :
            Resolvable(ix, keys) /\ n.ixs[i] = ResolveIx(ix, keys)
      /\ \A ix \in Executed(raw) :
            /\ Resolvable(ix, keys)
            /\ \E i \in DOMAIN n.ixs : n.ixs[i] = ResolveIx(ix, keys)
      /\ n.keys = ToSet(keys)
      /\ n.programIDs = {n.ixs[i].program : i \in DOMAIN n.ixs}
  BY Normalized
<1> HIDE DEF raw, n
<1>3. ToSet(keys) = ToSet(raw.static) \cup ToSet(raw.writable) \cup ToSet(raw.readonly)
  BY <1>1, KeysAreNames
<1>4. \A program : OnKeys(program) <=> program \in n.keys
  BY <1>2, <1>3
<1>5. \A ix \in Executed(raw) : \A program :
         Calls(raw, ix, program) <=> ResolveIx(ix, keys).program = program
  <2> TAKE ix \in Executed(raw)
  <2>1. ix \in Ix /\ Resolvable(ix, keys)
    BY <1>1, <1>2, RawIxsExecuted
  <2> QED
    BY <1>1, <2>1, ResolvesRight
<1>6. \A program : Called(program) <=> program \in n.programIDs
  <2> TAKE program
  <2>1. ASSUME Called(program) PROVE program \in n.programIDs
    <3>1. PICK ix \in Executed(raw) : Calls(raw, ix, program)
      BY <2>1
    <3>2. PICK i \in DOMAIN n.ixs : n.ixs[i] = ResolveIx(ix, keys)
      BY <1>2
    <3>3. n.ixs[i].program = program
      BY <1>5, <3>1, <3>2
    <3> QED
      BY <1>2, <3>3
  <2>2. ASSUME program \in n.programIDs PROVE Called(program)
    <3>1. PICK i \in DOMAIN n.ixs : program = n.ixs[i].program
      BY <1>2, <2>2
    <3>2. PICK ix \in Executed(raw) : n.ixs[i] = ResolveIx(ix, keys)
      BY <1>2
    <3> QED
      BY <1>5, <3>1, <3>2
  <2> QED
    BY <2>1, <2>2
<1> HIDE DEF OnKeys, Called
<1>7. TouchesPump(n) <=> \E program \in PumpPrograms : program \in n.programIDs \/ program \in n.keys
  BY DEF TouchesPump
<1>8. TouchesPump(n) <=> \E program \in PumpPrograms : OnKeys(program) \/ Called(program)
  BY <1>4, <1>6, <1>7
<1> QED
  BY <1>1, <1>8 DEF raw, n

\* What the chain made of an instruction and what DecodeSystemTransfer makes of it.
LEMMA DecodesRight ==
    ASSUME NEW raw \in RawTx, NEW ix \in Executed(raw),
           ix.accounts \in IF ix.form = "indices" THEN Seq(Int) ELSE Seq(AccountKeys),
           Resolvable(ix, Keys(raw))
    PROVE  LET r == ResolveIx(ix, Keys(raw))
           IN  /\ IsSystemTransfer(r) =>
                     /\ r.accounts[1] \in AccountKeys /\ r.accounts[2] \in AccountKeys
                     /\ Makes(raw, ix, [from |-> r.accounts[1], to |-> r.accounts[2],
                                        lamports |-> ix.data.lamports])
               /\ \A move \in Transfer : Makes(raw, ix, move) =>
                     /\ IsSystemTransfer(r)
                     /\ move.from = r.accounts[1] /\ move.to = r.accounts[2]
                     /\ move.lamports = r.data.lamports
<1> DEFINE r == ResolveIx(ix, Keys(raw))
<1>1. ix \in Ix
  BY RawIxsExecuted
<1>2. /\ r.program \in AccountKeys
      /\ r.accounts \in Seq(AccountKeys)
      /\ DOMAIN r.accounts = DOMAIN ix.accounts
      /\ r.data = ix.data
      /\ \A program : Calls(raw, ix, program) <=> r.program = program
      /\ \A k \in DOMAIN ix.accounts : \A account :
            Passes(raw, ix, k, account) <=> r.accounts[k] = account
  BY <1>1, ResolvesRight
<1> HIDE DEF r
<1>3. ({1, 2} \subseteq DOMAIN ix.accounts) <=> Len(r.accounts) >= 2
  BY <1>2
<1>4. ASSUME IsSystemTransfer(r)
      PROVE  /\ r.accounts[1] \in AccountKeys /\ r.accounts[2] \in AccountKeys
             /\ Makes(raw, ix, [from |-> r.accounts[1], to |-> r.accounts[2],
                                lamports |-> ix.data.lamports])
  <2> DEFINE move == [from |-> r.accounts[1], to |-> r.accounts[2], lamports |-> ix.data.lamports]
  <2>1. /\ r.program = SystemProgram /\ Len(r.accounts) >= 2
        /\ ix.data.len >= 12 /\ ix.data.discriminator = 2
    BY <1>2, <1>4 DEF IsSystemTransfer
  <2>2. {1, 2} \subseteq DOMAIN ix.accounts
    BY <1>3, <2>1
  <2>3. r.accounts[1] \in AccountKeys /\ r.accounts[2] \in AccountKeys
    BY <1>2, <2>2
  <2>4. /\ Calls(raw, ix, SystemProgram)
        /\ Passes(raw, ix, 1, r.accounts[1]) /\ Passes(raw, ix, 2, r.accounts[2])
    BY <1>2, <2>1, <2>2
  <2>5. move.from = r.accounts[1] /\ move.to = r.accounts[2] /\ move.lamports = ix.data.lamports
    OBVIOUS
  <2> HIDE DEF move
  <2>6. Makes(raw, ix, move)
    BY <2>1, <2>2, <2>4, <2>5 DEF Makes
  <2> QED
    BY <2>3, <2>6 DEF move
<1>5. ASSUME NEW move \in Transfer, Makes(raw, ix, move)
      PROVE  /\ IsSystemTransfer(r)
             /\ move.from = r.accounts[1] /\ move.to = r.accounts[2]
             /\ move.lamports = r.data.lamports
  <2>1. /\ Calls(raw, ix, SystemProgram)
        /\ ix.data.len >= 12 /\ ix.data.discriminator = 2 /\ ix.data.lamports = move.lamports
        /\ {1, 2} \subseteq DOMAIN ix.accounts
        /\ Passes(raw, ix, 1, move.from) /\ Passes(raw, ix, 2, move.to)
    BY <1>5 DEF Makes
  <2> QED
    BY <1>2, <1>3, <2>1 DEF IsSystemTransfer
<1> QED
  BY <1>4, <1>5 DEF r

\* e was made by the transaction, which succeeded and touched no pump program.
IsTransfer(e, tx) ==
    /\ ~tx.raw.failed
    /\ ~tx.pump
    /\ \E i \in DOMAIN tx.moves :
          /\ Counts(tx.moves[i])
          /\ [from |-> e.from, to |-> e.to, lamports |-> e.lamports] = tx.moves[i]

\* A move of the transaction that has the wallet at an end.
Touches(move, w) == Counts(move) /\ w \in {move.from, move.to}

\* e is the edge of the move, but for the amount.
Matches(e, s, move) == e.sig = s /\ e.from = move.from /\ e.to = move.to

\* The same of one that is known to make a move.
LEMMA MoveDecodes ==
    ASSUME NEW raw \in RawTx, NEW ix \in Executed(raw),
           ix.accounts \in IF ix.form = "indices" THEN Seq(Int) ELSE Seq(AccountKeys),
           Resolvable(ix, Keys(raw)), NEW r, r = ResolveIx(ix, Keys(raw)),
           NEW move \in Transfer, Makes(raw, ix, move)
    PROVE  /\ IsSystemTransfer(r)
           /\ move.from = r.accounts[1] /\ move.to = r.accounts[2]
           /\ move.lamports = r.data.lamports
BY DecodesRight

\* An instruction that decodes as a transfer made one of the moves.
LEMMA DecodedIsMove ==
    ASSUME NEW tx \in ChainTxs, Normalizes(tx.raw), ~tx.raw.failed,
           NEW ix \in Executed(tx.raw), NEW r, r = ResolveIx(ix, Keys(tx.raw)),
           IsSystemTransfer(r),
           NEW move, move = [from |-> r.accounts[1], to |-> r.accounts[2],
                             lamports |-> ix.data.lamports]
    PROVE  move \in ToSet(tx.moves) /\ Makes(tx.raw, ix, move) /\ r.data = ix.data
<1>1. /\ tx.raw \in RawTx
      /\ ix.accounts \in IF ix.form = "indices" THEN Seq(Int) ELSE Seq(AccountKeys)
      /\ \A from, to \in AccountKeys :
            LET m == [from |-> from, to |-> to, lamports |-> ix.data.lamports]
            IN  Makes(tx.raw, ix, m) => m \in ToSet(tx.moves)
  BY ChainAssumption
<1>2. Resolvable(ix, Keys(tx.raw))
  BY Normalized
<1>3. r.accounts[1] \in AccountKeys /\ r.accounts[2] \in AccountKeys /\ Makes(tx.raw, ix, move)
  BY <1>1, <1>2, DecodesRight
<1>4. move \in ToSet(tx.moves)
  BY <1>1, <1>3
<1> QED
  BY <1>3, <1>4 DEF ResolveIx

\* Every move of an intact transaction was made by an instruction.
LEMMA MoveIsMade ==
    ASSUME NEW tx \in ChainTxs, tx.intact, ~tx.raw.failed, NEW move \in ToSet(tx.moves)
    PROVE  \E ix \in Executed(tx.raw) : Makes(tx.raw, ix, move)
<1>1. tx.raw \in RawTx /\ IsListed(tx.raw, tx.moves)
  BY ChainAssumption
<1>2. PICK at \in [DOMAIN tx.moves -> DOMAIN Listed(tx.raw)] :
         \A k \in DOMAIN tx.moves : Makes(tx.raw, Listed(tx.raw)[at[k]], tx.moves[k])
  BY <1>1 DEF IsListed
<1>3. PICK k \in DOMAIN tx.moves : move = tx.moves[k]
  BY DEF ToSet
<1>4. at[k] \in DOMAIN RawIxs(tx.raw) /\ Listed(tx.raw) = RawIxs(tx.raw)
  BY <1>2 DEF Listed, RawIxs
<1>5. Listed(tx.raw)[at[k]] \in Executed(tx.raw)
  BY <1>1, <1>4, RawIxsExecuted
<1> QED
  BY <1>2, <1>3, <1>5

\* What consider lets through of an intact transaction has the amount of the first
\* move between its ends, or such a one comes before it.
LEMMA FirstMoveFirst ==
    ASSUME NEW s \in Sigs, NEW w, chain[s] \in ChainTxs,
           chain[s].intact, Normalizes(chain[s].raw), ~chain[s].raw.failed,
           NEW ixs, ixs = Normalize(chain[s].raw).ixs,
           NEW i \in DOMAIN ixs, Consider(ixs[i], w)
    PROVE  \/ ixs[i].data.lamports = First(chain[s].moves, ixs[i].accounts[1], ixs[i].accounts[2])
           \/ \E h \in 1..(i - 1) : /\ h \in DOMAIN ixs /\ Consider(ixs[h], w)
                                    /\ ixs[h].accounts[1] = ixs[i].accounts[1]
                                    /\ ixs[h].accounts[2] = ixs[i].accounts[2]
<1> DEFINE tx == chain[s]
           raw == tx.raw
           moves == tx.moves
           list == RawIxs(raw)
           keys == Keys(raw)
           a == ixs[i].accounts[1]
           b == ixs[i].accounts[2]
           Between == {k \in DOMAIN moves : /\ Counts(moves[k])
                                            /\ moves[k].from = a /\ moves[k].to = b}
           first == Min(Between)
           move == [from |-> a, to |-> b, lamports |-> list[i].data.lamports]
<1>1. /\ tx \in ChainTxs /\ raw \in RawTx /\ moves \in Seq(Transfer)
      /\ IsListed(raw, moves)
      /\ \A ix \in Executed(raw) :
            ix.accounts \in IF ix.form = "indices" THEN Seq(Int) ELSE Seq(AccountKeys)
  BY ChainAssumption
<1>2. /\ list \in Seq(Ix)
      /\ \A h \in DOMAIN list : list[h] \in Executed(raw)
      /\ Listed(raw) = list
  BY <1>1, RawIxsExecuted DEF Listed, RawIxs
<1>3. PICK at \in [DOMAIN moves -> DOMAIN list] :
         /\ \A k \in DOMAIN moves : Makes(raw, list[at[k]], moves[k])
         /\ \A k, l \in DOMAIN moves : k < l => at[k] < at[l]
         /\ \A h \in DOMAIN list :
               (\E m \in ToSet(moves) : Makes(raw, list[h], m)) => \E k \in DOMAIN moves : at[k] = h
  BY <1>1, <1>2 DEF IsListed
<1>4. /\ DOMAIN ixs = DOMAIN list
      /\ \A h \in DOMAIN list : ixs[h] = ResolveIx(list[h], keys)
      /\ \A ix \in Executed(raw) : Resolvable(ix, keys)
  BY Normalized
<1>5. /\ IsSystemTransfer(ixs[i]) /\ ixs[i].data.lamports >= MinTransferLamps
      /\ a # b /\ w \in {a, b}
  BY DEF Consider
<1> HIDE DEF list, keys
<1>6. /\ move \in ToSet(moves) /\ Makes(raw, list[i], move)
      /\ ixs[i].data.lamports = list[i].data.lamports
  <2>1. list[i] \in Executed(raw) /\ ixs[i] = ResolveIx(list[i], keys)
    BY <1>2, <1>4
  <2> HIDE DEF move
  <2>2. move \in ToSet(moves) /\ Makes(raw, list[i], move) /\ ixs[i].data = list[i].data
    BY <1>1, <1>5, <2>1, DecodedIsMove DEF move, keys
  <2> QED
    BY <2>2
<1>7. \A k \in DOMAIN moves :
         /\ at[k] \in DOMAIN list /\ IsSystemTransfer(ixs[at[k]])
         /\ moves[k].from = ixs[at[k]].accounts[1] /\ moves[k].to = ixs[at[k]].accounts[2]
         /\ moves[k].lamports = ixs[at[k]].data.lamports
  <2> TAKE k \in DOMAIN moves
  <2>1. /\ at[k] \in DOMAIN list /\ list[at[k]] \in Executed(raw)
        /\ ixs[at[k]] = ResolveIx(list[at[k]], keys)
    BY <1>2, <1>3, <1>4
  <2>2. moves[k] \in Transfer /\ Makes(raw, list[at[k]], moves[k])
    BY <1>1, <1>3
  <2>3. Resolvable(list[at[k]], keys)
    BY <1>4, <2>1
  <2> HIDE DEF moves, raw
  <2> QED
    BY <1>1, <2>1, <2>2, <2>3, MoveDecodes DEF keys
<1>8. PICK k \in DOMAIN moves : at[k] = i
  BY <1>3, <1>4, <1>6
<1>9. k \in Between
  BY <1>5, <1>7, <1>8 DEF Counts
<1>10. first \in Between /\ first <= k /\ first \in Nat /\ k \in Nat
  <2>1. Between \in SUBSET Nat
    BY <1>1
  <2> HIDE DEF Between
  <2> QED
    BY <1>9, <2>1, MinOfNats
<1>11. First(moves, a, b) = moves[first].lamports
  BY DEF First
<1>12. CASE first = k
  BY <1>7, <1>8, <1>11, <1>12
<1>13. CASE first # k
  <2>1. /\ at[first] < i /\ first \in DOMAIN moves /\ Counts(moves[first])
        /\ moves[first].from = a /\ moves[first].to = b
    <3>1. \A l \in Between : /\ l \in DOMAIN moves /\ Counts(moves[l])
                             /\ moves[l].from = a /\ moves[l].to = b
      OBVIOUS
    <3> HIDE DEF first, Between, moves, a, b
    <3>2. first < k
      BY <1>10, <1>13
    <3> QED
      BY <1>3, <1>8, <1>10, <3>1, <3>2
  <2> HIDE DEF first, Between, moves, a, b
  <2>2. Consider(ixs[at[first]], w)
    BY <1>5, <1>7, <2>1 DEF Consider, Counts
  <2>3. at[first] \in 1..(i - 1) /\ at[first] \in DOMAIN ixs
    <3>1. i \in DOMAIN list /\ DOMAIN list = 1..Len(list) /\ Len(list) \in Nat
      BY <1>2, <1>4
    <3> QED
      BY <1>4, <1>7, <2>1, <3>1
  <2> QED
    BY <1>7, <2>1, <2>2, <2>3 DEF a, b
<1> QED
  BY <1>12, <1>13

\* An edge with the amount of the first move between its ends.
IsFirst(e, tx) == tx.intact => e.lamports = First(tx.moves, e.from, e.to)

\* So are the edges of a list, but for those whose key has come before.
FirstOrRepeats(es, txs) ==
    \A j \in DOMAIN es :
       IsFirst(es[j], txs[es[j].sig]) \/ \E h \in 1..(j - 1) : SameKey(es[h], es[j])

\* The edges are transfers of signature s, all those of the wallet if the raw form
\* was intact.
TransfersOf(es, s, w) ==
    /\ es \in Seq(EdgeType)
    /\ \A j \in DOMAIN es : IsTransfer(es[j], chain[es[j].sig])
    /\ FirstOrRepeats(es, chain)
    /\ chain[s].intact =>
          \A i \in DOMAIN chain[s].moves :
             Touches(chain[s].moves[i], w) =>
                \E j \in DOMAIN es : Matches(es[j], s, chain[s].moves[i])

\* extractSOLEdges finds the wallet's transfers, and nothing else.
LEMMA EdgesOfTx ==
    ASSUME NEW s \in Sigs, NEW w, chain[s] \in ChainTxs,
           Normalizes(chain[s].raw), ~chain[s].raw.failed,
           ~TouchesPump(Normalize(chain[s].raw))
    PROVE  TransfersOf(ExtractSOLEdges(Normalize(chain[s].raw), s, w), s, w)
<1> DEFINE tx == chain[s]
           raw == tx.raw
           n == Normalize(raw)
           keys == Keys(raw)
           es == ExtractSOLEdges(n, s, w)
           Taken(ix) == [from |-> ResolveIx(ix, keys).accounts[1],
                         to |-> ResolveIx(ix, keys).accounts[2],
                         lamports |-> ix.data.lamports]
<1>1. /\ tx \in ChainTxs /\ raw \in RawTx /\ tx.moves \in Seq(Transfer)
      /\ tx.intact \in BOOLEAN /\ raw.failed \in BOOLEAN
  BY ChainAssumption DEF RawTx
<1>2. \A ix \in Executed(raw) :
         ix.accounts \in IF ix.form = "indices" THEN Seq(Int) ELSE Seq(AccountKeys)
  BY ChainAssumption
<1>3. tx.intact => \A move \in ToSet(tx.moves) : \E ix \in Executed(raw) : Makes(raw, ix, move)
  BY <1>1, MoveIsMade
<1>4. ~tx.pump
  BY PumpSeen
<1>5. /\ \E S : n.ixs \in Seq(S)
      /\ \A i \in DOMAIN n.ixs : \E ix \in Executed(raw) :
            Resolvable(ix, keys) /\ n.ixs[i] = ResolveIx(ix, keys)
      /\ \A ix \in Executed(raw) :
            /\ Resolvable(ix, keys)
            /\ \E i \in DOMAIN n.ixs : n.ixs[i] = ResolveIx(ix, keys)
  BY Normalized
<1>6. ~raw.failed
  OBVIOUS
<1> HIDE DEF tx, raw, n, es
<1>7. \A ix \in Executed(raw) : ResolveIx(ix, keys).data = ix.data
  BY DEF ResolveIx
<1>8. ASSUME NEW i \in DOMAIN n.ixs, Consider(n.ixs[i], w)
      PROVE  /\ EdgeOf(n.ixs[i], s) \in EdgeType
             /\ \E k \in DOMAIN tx.moves :
                   /\ Counts(tx.moves[k])
                   /\ tx.moves[k] = [from |-> n.ixs[i].accounts[1], to |-> n.ixs[i].accounts[2],
                                     lamports |-> n.ixs[i].data.lamports]
  <2>1. PICK ix \in Executed(raw) : Resolvable(ix, keys) /\ n.ixs[i] = ResolveIx(ix, keys)
    BY <1>5
  <2> DEFINE r == n.ixs[i]
             move == [from |-> r.accounts[1], to |-> r.accounts[2], lamports |-> ix.data.lamports]
  <2>2. IsSystemTransfer(r) /\ r.data.lamports >= MinTransferLamps /\ r.accounts[1] # r.accounts[2]
    BY <1>8 DEF Consider
  <2>3. Normalizes(raw)
    BY DEF raw, tx
  <2>4. move \in ToSet(tx.moves)
    BY <1>1, <1>6, <2>1, <2>2, <2>3, DecodedIsMove DEF raw, keys
  <2>5. PICK k \in DOMAIN tx.moves : tx.moves[k] = move
    BY <2>4 DEF ToSet
  <2>6. tx.moves[k] \in Transfer
    BY <1>1
  <2>7. ix.data.lamports = r.data.lamports
    BY <1>7, <2>1
  <2>8. Counts(tx.moves[k])
    BY <2>2, <2>5, <2>7 DEF Counts
  <2>9. EdgeOf(r, s) \in EdgeType
    <3>1. r.accounts[1] \in Addresses /\ r.accounts[2] \in Addresses /\ r.data.lamports \in Nat
      BY <2>5, <2>6, <2>7 DEF Transfer
    <3> HIDE DEF r
    <3> QED
      BY <3>1 DEF EdgeOf, EdgeType
  <2> QED
    BY <2>5, <2>7, <2>8, <2>9
<1>9. /\ es \in Seq(EdgeType)
      /\ \A j \in DOMAIN es : \E i \in DOMAIN n.ixs :
            /\ Consider(n.ixs[i], w) /\ es[j] = EdgeOf(n.ixs[i], s)
            /\ ComeBefore(es, j, n.ixs, i, s, w)
      /\ \A i \in DOMAIN n.ixs : Consider(n.ixs[i], w) =>
            \E j \in DOMAIN es : es[j] = EdgeOf(n.ixs[i], s)
  <2>1. PICK S : n.ixs \in Seq(S)
    BY <1>5
  <2>2. \A i \in DOMAIN n.ixs : Consider(n.ixs[i], w) => EdgeOf(n.ixs[i], s) \in EdgeType
    BY <1>8
  <2>3. EdgesOfIxs(es, n.ixs, s, w)
    BY <2>1, <2>2, Extracted DEF es
  <2> QED
    BY <2>3 DEF EdgesOfIxs
<1>10. ASSUME NEW j \in DOMAIN es PROVE IsTransfer(es[j], chain[es[j].sig])
  <2>1. PICK i \in DOMAIN n.ixs : Consider(n.ixs[i], w) /\ es[j] = EdgeOf(n.ixs[i], s)
    BY <1>9
  <2>2. PICK k \in DOMAIN tx.moves :
          /\ Counts(tx.moves[k])
          /\ tx.moves[k] = [from |-> n.ixs[i].accounts[1], to |-> n.ixs[i].accounts[2],
                            lamports |-> n.ixs[i].data.lamports]
    BY <1>8, <2>1
  <2>3. /\ es[j].sig = s /\ es[j].from = n.ixs[i].accounts[1] /\ es[j].to = n.ixs[i].accounts[2]
        /\ es[j].lamports = n.ixs[i].data.lamports
    BY <2>1 DEF EdgeOf
  <2>4. [from |-> es[j].from, to |-> es[j].to, lamports |-> es[j].lamports] = tx.moves[k]
    BY <2>2, <2>3
  <2>5. chain[es[j].sig] = tx
    BY <2>3 DEF tx
  <2> QED
    BY <1>4, <1>6, <2>2, <2>4, <2>5 DEF IsTransfer, raw
<1>11. ASSUME tx.intact, NEW k \in DOMAIN tx.moves, Touches(tx.moves[k], w)
       PROVE  \E j \in DOMAIN es : Matches(es[j], s, tx.moves[k])
  <2> DEFINE move == tx.moves[k]
  <2>1. move \in Transfer /\ move \in ToSet(tx.moves)
    BY <1>1 DEF ToSet
  <2>2. PICK ix \in Executed(raw) : Makes(raw, ix, move)
    BY <1>3, <1>11, <2>1
  <2>3. PICK i \in DOMAIN n.ixs : n.ixs[i] = ResolveIx(ix, keys)
    BY <1>5
  <2> HIDE DEF move
  <2>4. /\ IsSystemTransfer(n.ixs[i])
        /\ move.from = n.ixs[i].accounts[1] /\ move.to = n.ixs[i].accounts[2]
        /\ move.lamports = n.ixs[i].data.lamports
    BY <1>1, <1>2, <1>5, <2>1, <2>2, <2>3, MoveDecodes DEF keys
  <2>5. Consider(n.ixs[i], w)
    BY <1>11, <2>4 DEF Consider, Touches, Counts, move
  <2>6. PICK j \in DOMAIN es : es[j] = EdgeOf(n.ixs[i], s)
    BY <1>9, <2>5
  <2>7. es[j].sig = s /\ es[j].from = move.from /\ es[j].to = move.to
    BY <2>4, <2>6 DEF EdgeOf
  <2> QED
    BY <2>7 DEF move, Matches
<1>12. ASSUME NEW j \in DOMAIN es
       PROVE  IsFirst(es[j], chain[es[j].sig]) \/ \E h \in 1..(j - 1) : SameKey(es[h], es[j])
  <2>1. PICK i \in DOMAIN n.ixs : /\ Consider(n.ixs[i], w) /\ es[j] = EdgeOf(n.ixs[i], s)
                                  /\ ComeBefore(es, j, n.ixs, i, s, w)
    BY <1>9
  <2> DEFINE ixs == n.ixs
  <2>2. /\ es[j].sig = s /\ es[j].from = ixs[i].accounts[1] /\ es[j].to = ixs[i].accounts[2]
        /\ es[j].lamports = ixs[i].data.lamports
    BY <2>1 DEF EdgeOf
  <2>3. CASE ~tx.intact
    BY <2>2, <2>3 DEF IsFirst, tx
  <2>4. CASE tx.intact
    <3>1. \/ ixs[i].data.lamports = First(chain[s].moves, ixs[i].accounts[1], ixs[i].accounts[2])
          \/ \E h \in 1..(i - 1) : /\ h \in DOMAIN ixs /\ Consider(ixs[h], w)
                                   /\ ixs[h].accounts[1] = ixs[i].accounts[1]
                                   /\ ixs[h].accounts[2] = ixs[i].accounts[2]
      <4>1. ixs = Normalize(chain[s].raw).ixs
        BY DEF n, raw, tx
      <4>2. i \in DOMAIN ixs /\ Consider(ixs[i], w) /\ chain[s].intact
        BY <2>1, <2>4 DEF tx
      <4> HIDE DEF ixs
      <4> QED
        BY <4>1, <4>2, FirstMoveFirst
    <3> HIDE DEF ixs
    <3>2. CASE ixs[i].data.lamports = First(chain[s].moves, ixs[i].accounts[1], ixs[i].accounts[2])
      BY <2>2, <3>2 DEF IsFirst
    <3>3. CASE \E h \in 1..(i - 1) : /\ h \in DOMAIN ixs /\ Consider(ixs[h], w)
                                      /\ ixs[h].accounts[1] = ixs[i].accounts[1]
                                      /\ ixs[h].accounts[2] = ixs[i].accounts[2]
      <4>1. PICK h \in 1..(i - 1) : /\ Consider(ixs[h], w)
                                    /\ ixs[h].accounts[1] = ixs[i].accounts[1]
                                    /\ ixs[h].accounts[2] = ixs[i].accounts[2]
        BY <3>3
      <4>2. PICK k \in DOMAIN es : k < j /\ es[k] = EdgeOf(ixs[h], s)
        BY <2>1, <4>1 DEF ComeBefore, ixs
      <4>3. SameKey(es[k], es[j])
        BY <2>2, <4>1, <4>2 DEF SameKey, EdgeOf
      <4>4. k \in 1..(j - 1)
        BY <1>9, <4>2
      <4> QED
        BY <4>3, <4>4
    <3> QED
      BY <3>1, <3>2, <3>3
  <2> QED
    BY <2>3, <2>4
<1>13. FirstOrRepeats(es, chain)
  BY <1>12 DEF FirstOrRepeats
<1> QED
  BY <1>9, <1>10, <1>11, <1>13 DEF TransfersOf, tx, raw, n, es

\* Everything in a transaction whose raw form is intact resolves.
LEMMA IntactNormalizes ==
    ASSUME NEW tx \in ChainTxs, tx.intact
    PROVE  Normalizes(tx.raw)
<1> DEFINE raw == tx.raw
<1>1. /\ raw \in RawTx
      /\ \A ix \in Executed(raw) :
            /\ ix.accounts \in IF ix.form = "indices" THEN Seq(Int) ELSE Seq(AccountKeys)
            /\ \E program \in AccountKeys : Calls(raw, ix, program)
            /\ \A k \in DOMAIN ix.accounts :
                  \E account \in AccountKeys : Passes(raw, ix, k, account)
  BY ChainAssumption
<1> HIDE DEF raw
<1>2. ASSUME NEW i \in DOMAIN RawIxs(raw) PROVE Resolvable(RawIxs(raw)[i], Keys(raw))
  <2>1. RawIxs(raw)[i] \in Executed(raw) /\ RawIxs(raw)[i] \in Ix
    BY <1>1, RawIxsExecuted
  <2> QED
    BY <1>1, <2>1, ResolvesRight
<1> QED
  BY <1>2 DEF Normalizes, raw

-----------------------------------------------------------------------------
(* The inductive invariant: a page is what the graph will be.              *)

\* The transactions that the graph has to have.
Readable(tx) == ~tx.raw.failed /\ ~tx.pump /\ ~tx.trade /\ tx.intact

PagesAreTransfers ==
    \A w \in Wallets : \A j \in DOMAIN page[w].edges :
       LET e == page[w].edges[j] IN IsTransfer(e, chain[e.sig])

PagesAreComplete ==
    \A w \in Wallets : \A s \in page[w].sigs :
       Readable(chain[s]) =>
          \A i \in DOMAIN chain[s].moves :
             Touches(chain[s].moves[i], w) =>
                \E j \in DOMAIN page[w].edges : Matches(page[w].edges[j], s, chain[s].moves[i])

PagesAreSeen == \A w \in Wallets : \A s \in page[w].sigs : <<w, s>> \in seen

KnownAreTrades == \A s \in known : chain[s].trade

GraphIsTransfers == \A e \in edges : IsTransfer(e, chain[e.sig])

GraphIsComplete ==
    \A w \in Wallets, s \in Sigs :
       <<w, s>> \in written /\ Readable(chain[s]) =>
          \A i \in DOMAIN chain[s].moves :
             Touches(chain[s].moves[i], w) =>
                \E e \in edges : Matches(e, s, chain[s].moves[i])

PagesAreFirst == \A w \in Wallets : FirstOrRepeats(page[w].edges, chain)

GraphIsFirst == \A e \in edges : IsFirst(e, chain[e.sig])

NodesAreEnds ==
    \A a \in Addresses : nodes[a] # "none" <=> \E e \in edges : a \in {e.from, e.to}

GraphInv ==
    /\ TypeOK
    /\ PagesAreSeen /\ PagesAreTransfers /\ PagesAreComplete /\ PagesAreFirst
    /\ KnownAreTrades
    /\ GraphIsTransfers /\ GraphIsComplete /\ GraphIsFirst
    /\ KeysUnique(edges) /\ NodesAreEnds

LEMMA InitInv == Init => GraphInv
<1> SUFFICES ASSUME Init PROVE GraphInv
  OBVIOUS
<1>1. TypeOK
  BY DEF Init, TypeOK, NoPage
<1>2. \A w \in Wallets : page[w].sigs = {} /\ DOMAIN page[w].edges = {}
  BY DEF Init, NoPage
<1>3. PagesAreSeen /\ PagesAreTransfers /\ PagesAreComplete /\ PagesAreFirst
  BY <1>2 DEF PagesAreSeen, PagesAreTransfers, PagesAreComplete, PagesAreFirst, FirstOrRepeats
<1>4. KnownAreTrades /\ GraphIsTransfers /\ GraphIsComplete /\ GraphIsFirst /\ KeysUnique(edges)
  BY DEF Init, KnownAreTrades, GraphIsTransfers, GraphIsComplete, GraphIsFirst, KeysUnique
<1>5. NodesAreEnds
  BY DEF Init, NodesAreEnds
<1> QED
  BY <1>1, <1>3, <1>4, <1>5 DEF GraphInv

\* Three actions leave the graph and its nodes alone.
LEMMA GraphKept ==
    ASSUME GraphInv, UNCHANGED <<chain, nodes, edges, written>>
    PROVE  (GraphIsTransfers /\ GraphIsComplete /\ GraphIsFirst /\ KeysUnique(edges) /\ NodesAreEnds)'
<1>1. GraphIsTransfers'
  BY DEF GraphInv, GraphIsTransfers
<1>2. GraphIsComplete'
  BY DEF GraphInv, GraphIsComplete
<1>3. GraphIsFirst'
  BY DEF GraphInv, GraphIsFirst
<1>4. KeysUnique(edges)' /\ NodesAreEnds'
  BY DEF GraphInv, KeysUnique, NodesAreEnds
<1> QED
  BY <1>1, <1>2, <1>3, <1>4

\* A list that another one follows.
LEMMA FirstJoined ==
    ASSUME NEW u \in Seq(EdgeType), NEW v \in Seq(EdgeType),
           FirstOrRepeats(u, chain), FirstOrRepeats(v, chain)
    PROVE  FirstOrRepeats(u \o v, chain)
<1> DEFINE c == u \o v
<1>1. /\ Len(u) \in Nat /\ Len(v) \in Nat
      /\ DOMAIN u = 1..Len(u) /\ DOMAIN v = 1..Len(v) /\ DOMAIN c = 1..(Len(u) + Len(v))
      /\ \A j \in 1..Len(u) : c[j] = u[j]
      /\ \A j \in 1..Len(v) : c[Len(u) + j] = v[j]
  OBVIOUS
<1> HIDE DEF c
<1>2. SUFFICES ASSUME NEW j \in DOMAIN c
               PROVE  IsFirst(c[j], chain[c[j].sig]) \/ \E h \in 1..(j - 1) : SameKey(c[h], c[j])
  BY DEF FirstOrRepeats, c
<1>3. CASE j \in 1..Len(u)
  <2>1. c[j] = u[j] /\ \A h \in 1..(j - 1) : c[h] = u[h]
    BY <1>1, <1>3
  <2> QED
    BY <1>1, <1>3, <2>1 DEF FirstOrRepeats
<1>4. CASE j - Len(u) \in 1..Len(v)
  <2> DEFINE i == j - Len(u)
  <2>1. c[j] = v[i] /\ i \in DOMAIN v
    BY <1>1, <1>4
  <2>2. \A h \in 1..(i - 1) : Len(u) + h \in 1..(j - 1) /\ c[Len(u) + h] = v[h]
    BY <1>1, <1>4
  <2>3. IsFirst(v[i], chain[v[i].sig]) \/ \E h \in 1..(i - 1) : SameKey(v[h], v[i])
    BY <2>1 DEF FirstOrRepeats
  <2> HIDE DEF i
  <2> QED
    BY <2>1, <2>2, <2>3
<1> QED
  BY <1>1, <1>3, <1>4

LEMMA StoreTradeInv ==
    ASSUME GraphInv, NEW s \in Sigs, StoreTrade(s)
    PROVE  GraphInv'
<1>1. UNCHANGED <<chain, seen, page, nodes, edges, written>> /\ chain[s].trade
  BY DEF StoreTrade
<1>2. known' \subseteq known \cup {s}
  BY DEF StoreTrade
<1>3. TypeOK'
  BY <1>1, <1>2 DEF GraphInv, TypeOK
<1>4. KnownAreTrades'
  BY <1>1, <1>2 DEF GraphInv, KnownAreTrades
<1>5. PagesAreSeen'
  BY <1>1 DEF GraphInv, PagesAreSeen
<1>6. PagesAreTransfers'
  BY <1>1 DEF GraphInv, PagesAreTransfers
<1>7. PagesAreComplete'
  BY <1>1 DEF GraphInv, PagesAreComplete
<1>8. PagesAreFirst'
  BY <1>1 DEF GraphInv, PagesAreFirst, FirstOrRepeats
<1>9. (GraphIsTransfers /\ GraphIsComplete /\ GraphIsFirst /\ KeysUnique(edges) /\ NodesAreEnds)'
  BY <1>1, GraphKept
<1> QED
  BY <1>3, <1>4, <1>5, <1>6, <1>7, <1>8, <1>9 DEF GraphInv

\* A page gets the transfers of the transaction: all of them, unless it was one the
\* graph is not to have.
LEMMA ExtractInv ==
    ASSUME GraphInv, NEW w \in Wallets, NEW s \in Sigs, Extract(w, s)
    PROVE  GraphInv'
<1> DEFINE tx == chain[s]
           n == Normalize(tx.raw)
           new == Normalizes(tx.raw) /\ ~tx.raw.failed /\ ~Excluded(n, s \in known)
           found == IF new THEN ExtractSOLEdges(n, s, w) ELSE << >>
           es == page[w].edges
<1>1. /\ UNCHANGED <<chain, known, nodes, edges, written>>
      /\ seen' = seen \cup {<<w, s>>}
      /\ page' = [page EXCEPT ![w].sigs = @ \cup {s},
                              ![w].edges = IF new THEN @ \o ExtractSOLEdges(n, s, w) ELSE @]
  BY DEF Extract
<1>2. /\ chain \in [Sigs -> ChainTxs] /\ tx \in ChainTxs /\ s \in Sigs
      /\ page \in [Wallets -> [sigs : SUBSET Sigs, edges : Seq(EdgeType)]]
      /\ es \in Seq(EdgeType) /\ page[w].sigs \subseteq Sigs
  BY DEF GraphInv, TypeOK
<1>3. /\ found \in Seq(EdgeType)
      /\ \A j \in DOMAIN found : IsTransfer(found[j], chain[found[j].sig])
      /\ FirstOrRepeats(found, chain)
      /\ Readable(tx) => \A i \in DOMAIN tx.moves : Touches(tx.moves[i], w) =>
            \E j \in DOMAIN found : Matches(found[j], s, tx.moves[i])
  <2>1. CASE new
    <3>1. Normalizes(tx.raw) /\ ~tx.raw.failed /\ ~TouchesPump(n)
      BY <2>1 DEF Excluded
    <3>2. found = ExtractSOLEdges(n, s, w)
      BY <2>1
    <3>3. TransfersOf(found, s, w)
      BY <1>2, <3>1, <3>2, EdgesOfTx
    <3> HIDE DEF found
    <3> QED
      BY <3>3 DEF TransfersOf, Readable
  <2>2. CASE ~new
    <3>1. found = << >>
      BY <2>2
    <3>2. ~Readable(tx)
      <4>1. CASE ~Normalizes(tx.raw)
        BY <1>2, <4>1, IntactNormalizes DEF Readable
      <4>2. CASE Normalizes(tx.raw) /\ TouchesPump(n)
        BY <1>2, <4>2, PumpSeen DEF Readable
      <4>3. CASE s \in known
        BY <4>3 DEF GraphInv, KnownAreTrades, Readable
      <4> QED
        BY <2>2, <4>1, <4>2, <4>3 DEF Excluded, Readable
    <3> HIDE DEF found
    <3> QED
      BY <3>1, <3>2 DEF FirstOrRepeats
  <2> QED
    BY <2>1, <2>2
<1>4. /\ page'[w].sigs = page[w].sigs \cup {s}
      /\ page'[w].edges = es \o found
      /\ \A v \in Wallets \ {w} : page'[v] = page[v]
      /\ page' \in [Wallets -> [sigs : SUBSET Sigs, edges : Seq(EdgeType)]]
  <2>1. /\ page'[w].sigs = page[w].sigs \cup {s}
        /\ page'[w].edges = IF new THEN es \o ExtractSOLEdges(n, s, w) ELSE es
        /\ \A v \in Wallets \ {w} : page'[v] = page[v]
        /\ DOMAIN page' = Wallets
        /\ page'[w] = [sigs |-> page'[w].sigs, edges |-> page'[w].edges]
    <3> HIDE DEF new, n
    <3> QED
      BY <1>1, <1>2
  <2>2. page'[w].edges = es \o found
    <3>1. CASE new
      <4> HIDE DEF new, n
      <4> QED
        BY <2>1, <3>1
    <3>2. CASE ~new
      <4>1. found = << >>
        BY <3>2
      <4>2. page'[w].edges = es
        <5> HIDE DEF new, n
        <5> QED
          BY <2>1, <3>2
      <4> HIDE DEF found, es
      <4> QED
        BY <1>2, <4>1, <4>2
    <3> QED
      BY <3>1, <3>2
  <2> HIDE DEF found, es
  <2>3. es \o found \in Seq(EdgeType)
    BY <1>2, <1>3
  <2>4. page'[w] \in [sigs : SUBSET Sigs, edges : Seq(EdgeType)]
    BY <1>2, <2>1, <2>2, <2>3
  <2>5. page' = [v \in Wallets |-> page'[v]]
    <3> HIDE DEF new, n
    <3> QED
      BY <1>1, <1>2
  <2>6. \A v \in Wallets : page'[v] \in [sigs : SUBSET Sigs, edges : Seq(EdgeType)]
    BY <1>2, <2>1, <2>4
  <2> QED
    BY <2>1, <2>2, <2>5, <2>6
<1> HIDE DEF new, n, found, es
<1>5. /\ \A j \in DOMAIN es : j \in DOMAIN (es \o found) /\ (es \o found)[j] = es[j]
      /\ \A j \in DOMAIN found : Len(es) + j \in DOMAIN (es \o found)
                                 /\ (es \o found)[Len(es) + j] = found[j]
      /\ \A j \in DOMAIN (es \o found) :
            \/ j \in DOMAIN es /\ (es \o found)[j] = es[j]
            \/ j - Len(es) \in DOMAIN found /\ (es \o found)[j] = found[j - Len(es)]
  BY <1>2, <1>3
<1>6. TypeOK'
  BY <1>1, <1>4 DEF GraphInv, TypeOK
<1>7. PagesAreSeen'
  BY <1>1, <1>2, <1>4 DEF GraphInv, PagesAreSeen
<1>8. PagesAreTransfers'
  <2>1. ASSUME NEW v \in Wallets, NEW j \in DOMAIN page'[v].edges
        PROVE  IsTransfer(page'[v].edges[j], chain[page'[v].edges[j].sig])
    <3>1. CASE v # w
      BY <1>4, <2>1, <3>1 DEF GraphInv, PagesAreTransfers
    <3>2. CASE v = w
      <4>1. \A k \in DOMAIN es : IsTransfer(es[k], chain[es[k].sig])
        BY DEF GraphInv, PagesAreTransfers, es
      <4>2. PICK e \in EdgeType : e = page'[v].edges[j] /\ IsTransfer(e, chain[e.sig])
        <5>1. page'[v].edges = es \o found /\ j \in DOMAIN (es \o found)
          BY <1>4, <2>1, <3>2
        <5> DEFINE all == es \o found
        <5>2. CASE j \in DOMAIN es /\ all[j] = es[j]
          BY <1>2, <4>1, <5>1, <5>2
        <5>3. CASE j - Len(es) \in DOMAIN found /\ all[j] = found[j - Len(es)]
          BY <1>3, <5>1, <5>3
        <5> QED
          BY <1>5, <5>1, <5>2, <5>3
      <4> QED
        BY <4>2
    <3> QED
      BY <3>1, <3>2
  <2> QED
    BY <1>1, <2>1 DEF PagesAreTransfers
<1>9. PagesAreComplete'
  <2> SUFFICES ASSUME NEW v \in Wallets, NEW z \in page'[v].sigs, Readable(chain[z]),
                      NEW i \in DOMAIN chain[z].moves, Touches(chain[z].moves[i], v)
               PROVE  \E j \in DOMAIN page'[v].edges : Matches(page'[v].edges[j], z, chain[z].moves[i])
    BY <1>1 DEF PagesAreComplete
  <2>1. CASE v # w
    BY <1>4, <2>1 DEF GraphInv, PagesAreComplete
  <2>2. CASE v = w /\ z \in page[w].sigs
    <3>1. PICK j \in DOMAIN es : Matches(es[j], z, chain[z].moves[i])
      BY <2>2 DEF GraphInv, PagesAreComplete, es
    <3> QED
      BY <1>4, <1>5, <2>2, <3>1
  <2>3. CASE v = w /\ z = s
    <3>1. PICK j \in DOMAIN found : Matches(found[j], s, tx.moves[i])
      BY <1>3, <2>3
    <3> QED
      BY <1>4, <1>5, <2>3, <3>1
  <2> QED
    BY <1>4, <2>1, <2>2, <2>3
<1>10. KnownAreTrades'
  BY <1>1 DEF GraphInv, KnownAreTrades
<1>11. PagesAreFirst'
  <2>1. FirstOrRepeats(es, chain)
    BY DEF GraphInv, PagesAreFirst, es
  <2>2. FirstOrRepeats(es \o found, chain)
    BY <1>2, <1>3, <2>1, FirstJoined
  <2>3. ASSUME NEW v \in Wallets PROVE FirstOrRepeats(page[v].edges, chain)'
    <3>1. PICK x : x = page'[v].edges /\ FirstOrRepeats(x, chain)
      BY <1>4, <2>2 DEF GraphInv, PagesAreFirst
    <3> QED
      BY <1>1, <3>1 DEF FirstOrRepeats
  <2> QED
    BY <2>3 DEF PagesAreFirst
<1>12. (GraphIsTransfers /\ GraphIsComplete /\ GraphIsFirst /\ KeysUnique(edges) /\ NodesAreEnds)'
  BY <1>1, GraphKept
<1> QED
  BY <1>6, <1>7, <1>8, <1>9, <1>10, <1>11, <1>12 DEF GraphInv

\* A page that is gone leaves an empty one, of which everything is true.
LEMMA PageGone ==
    ASSUME GraphInv, NEW w \in Wallets, chain' = chain, seen' = seen,
           page' = [page EXCEPT ![w] = NoPage]
    PROVE  /\ page' \in [Wallets -> [sigs : SUBSET Sigs, edges : Seq(EdgeType)]]
           /\ PagesAreSeen' /\ PagesAreTransfers' /\ PagesAreComplete' /\ PagesAreFirst'
<1>1. page \in [Wallets -> [sigs : SUBSET Sigs, edges : Seq(EdgeType)]]
  BY DEF GraphInv, TypeOK
<1>2. NoPage \in [sigs : SUBSET Sigs, edges : Seq(EdgeType)]
  BY DEF NoPage
<1>3. /\ page' \in [Wallets -> [sigs : SUBSET Sigs, edges : Seq(EdgeType)]]
      /\ page'[w] = NoPage
      /\ \A v \in Wallets \ {w} : page'[v] = page[v]
  BY <1>1, <1>2
<1>4. page'[w].sigs = {} /\ DOMAIN page'[w].edges = {}
  BY <1>3 DEF NoPage
<1>5. PagesAreSeen'
  BY <1>3, <1>4 DEF GraphInv, PagesAreSeen
<1>6. PagesAreTransfers'
  BY <1>3, <1>4 DEF GraphInv, PagesAreTransfers
<1>7. PagesAreComplete'
  BY <1>3, <1>4 DEF GraphInv, PagesAreComplete
<1>8. PagesAreFirst'
  <2>1. ASSUME NEW v \in Wallets PROVE FirstOrRepeats(page[v].edges, chain)'
    <3>1. CASE v = w
      BY <1>4, <3>1 DEF FirstOrRepeats
    <3>2. CASE v # w
      BY <1>3, <3>2 DEF GraphInv, PagesAreFirst, FirstOrRepeats
    <3> QED
      BY <3>1, <3>2
  <2> QED
    BY <2>1 DEF PagesAreFirst
<1> QED
  BY <1>3, <1>5, <1>6, <1>7, <1>8

\* The graph keeps what it had and takes over what is true of the page.
LEMMA UpsertEdgesInv ==
    ASSUME GraphInv, NEW w \in Wallets, UpsertEdges(w)
    PROVE  GraphInv'
<1> DEFINE es == page[w].edges
           merged == FoldLeft(MergeEdge, edges, es)
<1>1. /\ UNCHANGED <<chain, known, seen>>
      /\ edges' = merged
      /\ nodes' = FoldLeft(MergeNodes, nodes, es)
      /\ written' = written \cup ({w} \X page[w].sigs)
      /\ page' = [page EXCEPT ![w] = NoPage]
  BY DEF UpsertEdges
<1>2. /\ es \in Seq(EdgeType) /\ edges \in SUBSET EdgeType /\ page[w].sigs \subseteq Sigs
      /\ nodes \in SourceMaps
  BY DEF GraphInv, TypeOK, SourceMaps
<1>3. /\ edges \subseteq merged
      /\ \A e \in merged : e \in edges \/ \E i \in DOMAIN es : e = es[i] /\ FirstOfKey(es, i)
      /\ \A i \in DOMAIN es : \E e \in merged : SameKey(e, es[i])
      /\ KeysUnique(edges) => KeysUnique(merged)
  BY <1>2, MergedEdges
<1>4. /\ nodes' \in SourceMaps
      /\ \A a \in Addresses : nodes'[a] # "none" <=>
            nodes[a] # "none" \/ \E i \in DOMAIN es : a \in {es[i].from, es[i].to}
  BY <1>1, <1>2, MergedNodes
<1>5. /\ page' \in [Wallets -> [sigs : SUBSET Sigs, edges : Seq(EdgeType)]]
      /\ PagesAreSeen' /\ PagesAreTransfers' /\ PagesAreComplete' /\ PagesAreFirst'
  BY <1>1, PageGone
<1> HIDE DEF es, merged
<1>6. TypeOK'
  <2>1. edges' \subseteq EdgeType
    <3>1. \A i \in DOMAIN es : es[i] \in EdgeType
      BY <1>2
    <3> QED
      BY <1>1, <1>2, <1>3, <3>1
  <2>2. written' \subseteq seen'
    BY <1>1 DEF GraphInv, TypeOK, PagesAreSeen
  <2>3. /\ chain' \in [Sigs -> ChainTxs] /\ known' \subseteq Sigs /\ seen' \subseteq Wallets \X Sigs
    BY <1>1 DEF GraphInv, TypeOK
  <2> QED
    BY <1>4, <1>5, <2>1, <2>2, <2>3 DEF TypeOK, SourceMaps
<1>7. KnownAreTrades'
  BY <1>1 DEF GraphInv, KnownAreTrades
<1>8. GraphIsTransfers'
  <2>1. \A e \in merged : IsTransfer(e, chain[e.sig])
    <3>1. \A i \in DOMAIN es : IsTransfer(es[i], chain[es[i].sig])
      BY DEF GraphInv, PagesAreTransfers, es
    <3> QED
      BY <1>3, <3>1 DEF GraphInv, GraphIsTransfers
  <2> QED
    BY <1>1, <2>1 DEF GraphIsTransfers
<1>9. GraphIsComplete'
  <2> SUFFICES ASSUME NEW v \in Wallets, NEW z \in Sigs, <<v, z>> \in written', Readable(chain[z]),
                      NEW i \in DOMAIN chain[z].moves, Touches(chain[z].moves[i], v)
               PROVE  \E e \in merged : Matches(e, z, chain[z].moves[i])
    BY <1>1 DEF GraphIsComplete
  <2>1. CASE <<v, z>> \in written
    <3>1. PICK e \in edges : Matches(e, z, chain[z].moves[i])
      BY <2>1 DEF GraphInv, GraphIsComplete
    <3> QED
      BY <1>3, <3>1
  <2>2. CASE v = w /\ z \in page[w].sigs
    <3>1. PICK j \in DOMAIN es : Matches(es[j], z, chain[z].moves[i])
      BY <2>2 DEF GraphInv, PagesAreComplete, es
    <3>2. PICK e \in merged : SameKey(e, es[j])
      BY <1>3
    <3> QED
      BY <3>1, <3>2 DEF Matches, SameKey
  <2> QED
    BY <1>1, <2>1, <2>2
<1>10. GraphIsFirst'
  <2>1. ASSUME NEW e \in merged PROVE IsFirst(e, chain[e.sig])
    <3>1. CASE e \in edges
      BY <3>1 DEF GraphInv, GraphIsFirst
    <3>2. CASE \E i \in DOMAIN es : e = es[i] /\ FirstOfKey(es, i)
      <4>1. PICK i \in DOMAIN es : e = es[i] /\ FirstOfKey(es, i)
        BY <3>2
      <4>2. IsFirst(es[i], chain[es[i].sig]) \/ \E h \in 1..(i - 1) : SameKey(es[h], es[i])
        BY DEF GraphInv, PagesAreFirst, FirstOrRepeats, es
      <4> QED
        BY <4>1, <4>2 DEF FirstOfKey
    <3> QED
      BY <1>3, <3>1, <3>2
  <2> QED
    BY <1>1, <2>1 DEF GraphIsFirst
<1>11. KeysUnique(edges)'
  BY <1>1, <1>3 DEF GraphInv, KeysUnique
<1>12. NodesAreEnds'
  <2>1. ASSUME NEW a \in Addresses
        PROVE  nodes'[a] # "none" <=> \E e \in merged : a \in {e.from, e.to}
    <3>1. nodes[a] # "none" <=> \E e \in edges : a \in {e.from, e.to}
      BY DEF GraphInv, NodesAreEnds
    <3>2. ASSUME NEW i \in DOMAIN es, a \in {es[i].from, es[i].to}
          PROVE  \E e \in merged : a \in {e.from, e.to}
      <4>1. PICK e \in merged : SameKey(e, es[i])
        BY <1>3
      <4> QED
        BY <3>2, <4>1 DEF SameKey
    <3> QED
      BY <1>3, <1>4, <3>1, <3>2
  <2> QED
    BY <1>1, <2>1 DEF NodesAreEnds
<1> QED
  BY <1>5, <1>6, <1>7, <1>8, <1>9, <1>10, <1>11, <1>12 DEF GraphInv

LEMMA LosePageInv ==
    ASSUME GraphInv, NEW w \in Wallets, LosePage(w)
    PROVE  GraphInv'
<1>1. /\ UNCHANGED <<chain, known, seen, nodes, edges, written>>
      /\ page' = [page EXCEPT ![w] = NoPage]
  BY DEF LosePage
<1>2. /\ page' \in [Wallets -> [sigs : SUBSET Sigs, edges : Seq(EdgeType)]]
      /\ PagesAreSeen' /\ PagesAreTransfers' /\ PagesAreComplete' /\ PagesAreFirst'
  BY <1>1, PageGone
<1>3. TypeOK'
  BY <1>1, <1>2 DEF GraphInv, TypeOK
<1>4. KnownAreTrades'
  BY <1>1 DEF GraphInv, KnownAreTrades
<1>5. (GraphIsTransfers /\ GraphIsComplete /\ GraphIsFirst /\ KeysUnique(edges) /\ NodesAreEnds)'
  BY <1>1, GraphKept
<1> QED
  BY <1>2, <1>3, <1>4, <1>5 DEF GraphInv

LEMMA StutterInv ==
    ASSUME GraphInv, UNCHANGED vars
    PROVE  GraphInv'
<1> USE DEF vars
<1>1. TypeOK' /\ PagesAreSeen' /\ PagesAreComplete' /\ PagesAreTransfers' /\ KnownAreTrades'
  BY DEF GraphInv, TypeOK, PagesAreSeen, PagesAreComplete, PagesAreTransfers, KnownAreTrades
<1>2. PagesAreFirst'
  BY DEF GraphInv, PagesAreFirst, FirstOrRepeats
<1>3. (GraphIsTransfers /\ GraphIsComplete /\ GraphIsFirst /\ KeysUnique(edges) /\ NodesAreEnds)'
  BY GraphKept
<1> QED
  BY <1>1, <1>2, <1>3 DEF GraphInv

\* Every step keeps the invariant.
THEOREM Invariance == Spec => []GraphInv
<1>1. Init => GraphInv
  BY InitInv
<1>2. GraphInv /\ [Next]_vars => GraphInv'
  <2> SUFFICES ASSUME GraphInv, [Next]_vars PROVE GraphInv'
    OBVIOUS
  <2>1. CASE \E s \in Sigs : StoreTrade(s)
    BY <2>1, StoreTradeInv
  <2>2. CASE \E w \in Wallets, s \in Sigs : Extract(w, s)
    BY <2>2, ExtractInv
  <2>3. CASE \E w \in Wallets : UpsertEdges(w)
    BY <2>3, UpsertEdgesInv
  <2>4. CASE \E w \in Wallets : LosePage(w)
    BY <2>4, LosePageInv
  <2>5. CASE UNCHANGED vars
    BY <2>5, StutterInv
  <2> QED
    BY <2>1, <2>2, <2>3, <2>4, <2>5 DEF Next
<1> QED
  BY <1>1, <1>2, PTL DEF Spec

\* Every variable keeps its type: the folds of UpsertEdges give edges and sources.
THEOREM TypeCorrect == Spec => []TypeOK
<1>1. GraphInv => TypeOK
  BY DEF GraphInv
<1> QED
  BY <1>1, Invariance, PTL

\* Every edge is a transfer that a successful transaction made which no pump
\* program had a part in (normalize.go:152-188, exclude.go:27-36, runner.go:118-137).
THEOREM EdgesCorrect == Spec => []EdgesAreTransfers
<1>1. GraphInv => EdgesAreTransfers
  BY DEF GraphInv, GraphIsTransfers, IsTransfer, EdgesAreTransfers
<1> QED
  BY <1>1, Invariance, PTL

\* A page that was written left no transfer of its wallet out
\* (runner.go:93-101, neo4j.go:95-113).
THEOREM WrittenCorrect == Spec => []WrittenIsComplete
<1>1. GraphInv => WrittenIsComplete
  BY DEF GraphInv, GraphIsComplete, WrittenIsComplete, Readable, Touches, Matches
<1> QED
  BY <1>1, Invariance, PTL

-----------------------------------------------------------------------------
(* What the queries make of a graph in which the invariant holds.          *)

\* There are as many edges at most as there are keys.
LEMMA EdgesFinite ==
    ASSUME GraphInv
    PROVE  IsFiniteSet(edges)
<1> DEFINE K == (Sigs \X Addresses) \X Addresses
           g == [e \in edges |-> <<<<e.sig, e.from>>, e.to>>]
<1>1. edges \subseteq EdgeType /\ KeysUnique(edges)
  BY DEF GraphInv, TypeOK
<1>2. IsFiniteSet(K)
  BY GraphAssumption, FS_Product
<1>3. g \in [edges -> K]
  BY <1>1 DEF EdgeType
<1>4. \A e, d \in edges : g[e] = g[d] => e = d
  BY <1>1 DEF KeysUnique, SameKey
<1> HIDE DEF g, K
<1>5. g \in Injection(edges, K)
  BY <1>3, <1>4 DEF Injection, IsInjective
<1> QED
  BY <1>2, <1>5, FS_Injection

\* The rows of a page, as the query groups the edges.
SentBy(a) == {e \in edges : e.from = a /\ e.sig \in Sigs}

Sent(a, b) == {e \in SentBy(a) : e.to = b}

RowOf(a, b) == [wallet |-> b, total |-> SumFunction([e \in Sent(a, b) |-> e.lamports]),
                count |-> Cardinality(Sent(a, b))]

PageRows(a) == {RowOf(a, b) : b \in {e.to : e \in SentBy(a)}}

RowFields(a, b, row) ==
    /\ row.wallet = b
    /\ row.total = SumFunction([e \in Sent(a, b) |-> e.lamports])
    /\ row.count = Cardinality(Sent(a, b))

LEMMA RowIs ==
    ASSUME NEW a, NEW b
    PROVE  RowFields(a, b, RowOf(a, b))
BY DEF RowFields, RowOf

\* The amounts of edges.
LEMMA AmountsOf ==
    ASSUME GraphInv, NEW X \in SUBSET edges
    PROVE  /\ IsFiniteSet(X) /\ Cardinality(X) \in Nat
           /\ [e \in X |-> e.lamports] \in [X -> Nat]
           /\ SumFunction([e \in X |-> e.lamports]) = Total([e \in X |-> e.lamports], X)
           /\ SumFunction([e \in X |-> e.lamports]) \in Nat
<1> DEFINE f == [e \in X |-> e.lamports]
<1>1. IsFiniteSet(X) /\ Cardinality(X) \in Nat
  BY EdgesFinite, FS_Subset, FS_CardinalityType
<1>2. f \in [X -> Nat]
  BY DEF GraphInv, TypeOK, EdgeType
<1>3. f = [x \in X |-> f[x]]
  OBVIOUS
<1> HIDE DEF f
<1>4. SumFunction(f) = Total(f, X)
  BY <1>3 DEF Total
<1>5. Total(f, X) \in Nat
  BY <1>1, <1>2, TotalIsNat
<1> QED
  BY <1>1, <1>2, <1>4, <1>5 DEF f

\* One row for everyone that a sent to.
IsPage(pg, a) ==
    /\ Len(pg) \in Nat /\ DOMAIN pg = 1..Len(pg)
    /\ \A i \in DOMAIN pg : pg[i].wallet \in Addresses /\ RowFields(a, pg[i].wallet, pg[i])
    /\ \A i, j \in DOMAIN pg : i # j => pg[i].wallet # pg[j].wallet
    /\ \A e \in SentBy(a) : \E i \in DOMAIN pg : pg[i].wallet = e.to

LEMMA PageIs ==
    ASSUME GraphInv, NEW a
    PROVE  IsPage(Page(a), a)
<1> DEFINE S == PageRows(a)
           B == {e.to : e \in SentBy(a)}
           key == [x \in S |-> x.total]
           ranked == CHOOSE f \in SetToSeqs(S) :
                        \A i, j \in DOMAIN f : i < j => f[i].total >= f[j].total
<1>1. IsFiniteSet(B) /\ B \subseteq Addresses
  <2>1. B \subseteq Addresses
    BY DEF GraphInv, TypeOK, EdgeType, SentBy
  <2> QED
    BY <2>1, GraphAssumption, FS_Subset
<1>2. \A x \in S : \E b \in B : x = RowOf(a, b)
  BY DEF PageRows
<1>3. \A b \in B : RowOf(a, b) \in S
  BY DEF PageRows
<1>4. IsFiniteSet(S)
  <2> DEFINE g == [b \in B |-> RowOf(a, b)]
  <2>1. g \in Surjection(B, S)
    <3> HIDE DEF B, S
    <3> QED
      BY <1>2, <1>3 DEF Surjection
  <2> HIDE DEF g, B, S
  <2> QED
    BY <1>1, <2>1, FS_Surjection
<1>5. key \in [S -> Int]
  <2>1. ASSUME NEW b \in B PROVE RowOf(a, b).total \in Int
    <3>1. Sent(a, b) \in SUBSET edges
      BY DEF Sent, SentBy
    <3>2. SumFunction([e \in Sent(a, b) |-> e.lamports]) \in Nat
      BY <3>1, AmountsOf
    <3> QED
      BY <3>2, RowIs DEF RowFields
  <2> HIDE DEF S, B
  <2> QED
    BY <1>2, <2>1
<1>6. \E f \in SetToSeqs(S) : \A i, j \in DOMAIN f : i < j => f[i].total >= f[j].total
  <2>1. PICK f : Descends(f, S, key)
    <3> HIDE DEF key, S
    <3> QED
      BY <1>4, <1>5, DescentExists
  <2>2. f \in SetToSeqs(S) /\ \A i, j \in DOMAIN f : i < j => key[f[i]] >= key[f[j]]
    BY <2>1 DEF Descends
  <2>3. \A i \in DOMAIN f : f[i] \in S
    BY <2>2 DEF SetToSeqs
  <2> QED
    BY <2>2, <2>3
<1>7. Page(a) = ranked
  BY DEF Page, WalletOutboundCounterparties, Limited, Ranked, PageRows, RowOf, Sent, SentBy
<1>8. ranked \in SetToSeqs(S)
  <2> HIDE DEF S
  <2> QED
    BY <1>6
<1> HIDE DEF ranked, S
<1>9. /\ ranked \in Seq(S)
      /\ \A i, j \in 1..Len(ranked) : i # j => ranked[i] # ranked[j]
      /\ \A x \in S : \E i \in 1..Len(ranked) : ranked[i] = x
  BY <1>4, <1>8, DescentTakesAll
<1>10. Len(ranked) \in Nat /\ DOMAIN ranked = 1..Len(ranked)
       /\ \A i \in DOMAIN ranked : ranked[i] \in S
  BY <1>9
<1> HIDE DEF B
<1>11. \A x \in S : x.wallet \in Addresses /\ x = RowOf(a, x.wallet) /\ RowFields(a, x.wallet, x)
  <2> TAKE x \in S
  <2>1. PICK b \in B : x = RowOf(a, b)
    BY <1>2
  <2>2. x.wallet = b /\ RowFields(a, b, x)
    BY <2>1, RowIs DEF RowFields
  <2> QED
    BY <1>1, <2>1, <2>2
<1>12. \A e \in SentBy(a) : \E i \in DOMAIN ranked : ranked[i].wallet = e.to
  <2> TAKE e \in SentBy(a)
  <2>1. e.to \in B
    BY DEF B
  <2>2. RowOf(a, e.to) \in S /\ RowOf(a, e.to).wallet = e.to
    BY <1>3, <2>1, RowIs DEF RowFields
  <2> QED
    BY <1>9, <1>10, <2>2
<1>13. \A i, j \in DOMAIN ranked : i # j => ranked[i].wallet # ranked[j].wallet
  BY <1>9, <1>10, <1>11
<1> QED
  BY <1>7, <1>10, <1>11, <1>12, <1>13 DEF IsPage

\* There is one edge for each signature.
LEMMA RowIsRight ==
    ASSUME GraphInv, NEW a, NEW b
    PROVE  /\ Cardinality(Sent(a, b)) = Cardinality(SigsOf(a, b))
           /\ (\A s \in SigsOf(a, b) : chain[s].intact) =>
                 SumFunction([e \in Sent(a, b) |-> e.lamports])
                   = SumFunction([s \in SigsOf(a, b) |-> First(chain[s].moves, a, b)])
<1> DEFINE X == Sent(a, b)
           K == SigsOf(a, b)
           key == [e \in X |-> e.sig]
<1>1. X \in SUBSET edges /\ \A e \in X : e.from = a /\ e.to = b /\ e.sig \in Sigs
  BY DEF Sent, SentBy
<1>2. IsFiniteSet(X) /\ IsFiniteSet(K)
  <2>1. K \subseteq Sigs
    BY DEF SigsOf
  <2>2. IsFiniteSet(K)
    BY <2>1, GraphAssumption, FS_Subset
  <2> QED
    BY <1>1, <2>2, AmountsOf
<1>3. \A e \in X : e.sig \in K
  BY <1>1 DEF SigsOf
<1>4. \A k \in K : \E e \in X : e.sig = k
  BY DEF SigsOf, Sent, SentBy
<1>5. \A e, d \in X : e.sig = d.sig => e = d
  BY <1>1 DEF GraphInv, KeysUnique, SameKey
<1> HIDE DEF X, K
<1>6. key \in [X -> K] /\ \A e \in X : key[e] = e.sig
  BY <1>3
<1> HIDE DEF key
<1>7. Cardinality(X) = Cardinality(K)
  <2> DEFINE f == [e \in X |-> 1]
             part == [k \in K |-> 1]
  <2>1. f \in [X -> Nat] /\ part \in [K -> Nat]
    OBVIOUS
  <2>2. Total(f, X) = Cardinality(X) /\ Total(part, K) = Cardinality(K)
    BY <1>2, TotalOfOnes
  <2>3. Renames(key, X, K, f, part)
    BY <1>3, <1>4, <1>5, <1>6 DEF Renames
  <2> HIDE DEF f, part
  <2>4. Total(part, K) = Total(f, X)
    BY <1>2, <1>6, <2>1, <2>3, TotalRenamed
  <2> QED
    BY <2>2, <2>4
<1>8. ASSUME \A s \in K : chain[s].intact
      PROVE  SumFunction([e \in X |-> e.lamports])
               = SumFunction([s \in K |-> First(chain[s].moves, a, b)])
  <2> DEFINE f == [e \in X |-> e.lamports]
             part == [s \in K |-> First(chain[s].moves, a, b)]
  <2>1. f \in [X -> Nat] /\ SumFunction(f) = Total(f, X)
    BY <1>1, AmountsOf
  <2>2. ASSUME NEW e \in X PROVE f[e] = First(chain[e.sig].moves, a, b)
    <3>1. e \in edges /\ e.from = a /\ e.to = b /\ chain[e.sig].intact
      BY <1>1, <1>3, <1>8
    <3>2. IsFirst(e, chain[e.sig])
      BY <3>1 DEF GraphInv, GraphIsFirst
    <3> QED
      BY <3>1, <3>2 DEF IsFirst
  <2>3. \A e \in X : part[e.sig] = f[e]
    BY <1>3, <2>2
  <2> HIDE DEF f
  <2>4. \A s \in K : First(chain[s].moves, a, b) \in Nat
    <3> TAKE s \in K
    <3>1. PICK e \in X : e.sig = s
      BY <1>4
    <3> QED
      BY <2>1, <2>2, <3>1
  <2>5. part \in [K -> Nat]
    BY <2>4
  <2>6. part = [s \in K |-> part[s]]
    OBVIOUS
  <2> HIDE DEF part
  <2>7. Renames(key, X, K, f, part)
    BY <1>4, <1>5, <1>6, <2>3 DEF Renames
  <2>8. Total(part, K) = Total(f, X)
    BY <1>2, <1>6, <2>1, <2>5, <2>7, TotalRenamed
  <2>9. SumFunction(part) = Total(part, K)
    BY <2>6 DEF Total
  <2> QED
    BY <2>1, <2>8, <2>9 DEF f, part
<1> QED
  BY <1>7, <1>8 DEF X, K

\* What a sent to the wallets of a set.
SentInto(a, to) == {e \in SentBy(a) : e.to \in to}

\* That is what its page counts.
LEMMA CountIs ==
    ASSUME GraphInv, NEW a, NEW to
    PROVE  /\ Count(a, to) = Cardinality(SentInto(a, to))
           /\ Count(a, to) \in Nat
<1> DEFINE pg == Page(a)
           K == DOMAIN pg
           T == SentInto(a, to)
           key == [e \in T |-> CHOOSE i \in K : pg[i].wallet = e.to]
           f == [e \in T |-> 1]
           part == [i \in K |-> IF pg[i].wallet \in to THEN pg[i].count ELSE 0]
<1>1. IsPage(pg, a)
  BY PageIs
<1>2. Count(a, to) = SumFunction(part)
  BY DEF Count
<1> HIDE DEF pg
<1>3. /\ IsFiniteSet(K)
      /\ \A i \in K : RowFields(a, pg[i].wallet, pg[i])
      /\ \A i, j \in K : i # j => pg[i].wallet # pg[j].wallet
      /\ \A e \in SentBy(a) : \E i \in K : pg[i].wallet = e.to
  <2>1. Len(pg) \in Nat /\ K = 1..Len(pg)
    BY <1>1 DEF IsPage
  <2>2. IsFiniteSet(K)
    BY <2>1, FS_Interval
  <2> QED
    BY <1>1, <2>2 DEF IsPage
<1> HIDE DEF K
<1>4. T \in SUBSET edges /\ IsFiniteSet(T) /\ Cardinality(T) \in Nat
  <2>1. T \in SUBSET edges
    BY DEF SentInto, SentBy
  <2> HIDE DEF T
  <2> QED
    BY <2>1, AmountsOf
<1>5. \A e \in T : e \in SentBy(a) /\ e.to \in to /\ key[e] \in K /\ pg[key[e]].wallet = e.to
  <2>1. \A e \in T : e \in SentBy(a) /\ e.to \in to
    BY DEF SentInto
  <2> HIDE DEF T
  <2> QED
    BY <1>3, <2>1
<1>6. key \in [T -> K] /\ f \in [T -> Nat]
  <2> HIDE DEF T
  <2> QED
    BY <1>5
<1>7. \A X \in SUBSET T : Total(f, X) = Cardinality(X)
  <2> HIDE DEF T
  <2> QED
    BY <1>4, TotalOfOnes
<1> HIDE DEF f
<1>8. ASSUME NEW i \in K PROVE part[i] = Total(f, {e \in T : key[e] = i}) /\ part[i] \in Nat
  <2> DEFINE X == {e \in T : key[e] = i}
             b == pg[i].wallet
  <2>1. Total(f, X) = Cardinality(X) /\ Cardinality(X) \in Nat
    <3>1. X \in SUBSET T /\ X \in SUBSET edges
      BY <1>4
    <3> HIDE DEF X, T
    <3> QED
      BY <1>7, <3>1, AmountsOf
  <2>2. X = {e \in T : e.to = b}
    <3> HIDE DEF T, key
    <3> QED
      BY <1>3, <1>5
  <2>3. CASE b \in to
    <3>1. X = Sent(a, b)
      BY <2>2, <2>3 DEF Sent, SentInto
    <3>2. part[i] = Cardinality(Sent(a, b))
      BY <1>3, <2>3 DEF RowFields
    <3> HIDE DEF X
    <3> QED
      BY <2>1, <3>1, <3>2 DEF X
  <2>4. CASE b \notin to
    <3>1. X = {}
      BY <2>2, <2>4 DEF SentInto
    <3>2. part[i] = 0
      BY <2>4
    <3> HIDE DEF X
    <3> QED
      BY <2>1, <3>1, <3>2, FS_EmptySet DEF X
  <2> QED
    BY <2>3, <2>4
<1>9. part \in [K -> Nat]
  BY <1>8
<1>10. part = [i \in K |-> part[i]]
  OBVIOUS
<1> HIDE DEF T, key, part
<1>11. PartsTotal(part, f, T, K, key)
  BY <1>8 DEF PartsTotal
<1>12. Total(part, K) = Total(f, T)
  BY <1>3, <1>4, <1>6, <1>9, <1>11, TotalOfParts
<1>13. SumFunction(part) = Total(part, K)
  BY <1>10 DEF Total
<1>14. Total(f, T) = Cardinality(T)
  BY <1>7
<1> QED
  BY <1>2, <1>4, <1>12, <1>13, <1>14 DEF T

\* Every edge was sent by one account.
LEMMA EdgesCounted ==
    ASSUME GraphInv
    PROVE  EdgeCount(edges) = SumFunction([a \in Addresses |-> Count(a, Addresses)])
<1> DEFINE K == Addresses
           key == [e \in edges |-> e.from]
           f == [e \in edges |-> 1]
           part == [a \in Addresses |-> Count(a, Addresses)]
<1>1. IsFiniteSet(edges) /\ IsFiniteSet(K)
  BY EdgesFinite, GraphAssumption
<1>2. \A e \in edges : e.sig \in Sigs /\ e.from \in Addresses /\ e.to \in Addresses
  BY DEF GraphInv, TypeOK, EdgeType
<1>3. key \in [edges -> K] /\ f \in [edges -> Nat]
  BY <1>2
<1>4. \A X \in SUBSET edges : Total(f, X) = Cardinality(X)
  BY <1>1, TotalOfOnes
<1> HIDE DEF f
<1>5. ASSUME NEW a \in Addresses PROVE part[a] = Total(f, {e \in edges : key[e] = a})
  <2>1. {e \in edges : key[e] = a} = SentInto(a, Addresses)
    BY <1>2 DEF SentInto, SentBy
  <2>2. SentInto(a, Addresses) \in SUBSET edges
    BY DEF SentInto, SentBy
  <2>3. Count(a, Addresses) = Cardinality(SentInto(a, Addresses))
    BY CountIs
  <2> HIDE DEF key
  <2> QED
    BY <1>4, <2>1, <2>2, <2>3
<1>6. part \in [K -> Nat] /\ part = [a \in K |-> part[a]]
  BY CountIs
<1> HIDE DEF key, part
<1>7. PartsTotal(part, f, edges, K, key)
  BY <1>5 DEF PartsTotal
<1> HIDE DEF K
<1>8. Total(part, K) = Total(f, edges)
  BY <1>1, <1>3, <1>6, <1>7, TotalOfParts
<1>9. SumFunction(part) = Total(part, K)
  BY <1>6 DEF Total
<1>10. Total(f, edges) = Cardinality(edges)
  BY <1>4
<1> QED
  BY <1>8, <1>9, <1>10 DEF part, EdgeCount

\* A node is at an edge, and either seeded or discovered.
LEMMA NodesCounted ==
    ASSUME GraphInv
    PROVE  DiscoveredWalletCount(nodes) =
              Cardinality({e.from : e \in edges} \cup {e.to : e \in edges})
              - Cardinality(Source("pump_seed"))
<1> DEFINE A == Source("discovered")
           B == Source("pump_seed")
           E == {e.from : e \in edges} \cup {e.to : e \in edges}
<1>1. IsFiniteSet(A) /\ IsFiniteSet(B)
  <2>1. A \subseteq Addresses /\ B \subseteq Addresses
    BY DEF Source
  <2> HIDE DEF A, B
  <2> QED
    BY <2>1, GraphAssumption, FS_Subset
<1>2. A \cap B = {}
  BY DEF Source
<1>3. E = A \cup B
  <2>1. \A x \in E : x \in Addresses /\ \E e \in edges : x \in {e.from, e.to}
    BY DEF GraphInv, TypeOK, EdgeType
  <2>2. \A x \in Addresses : x \in E <=> \E e \in edges : x \in {e.from, e.to}
    OBVIOUS
  <2>3. \A x \in Addresses : x \in E <=> nodes[x] # "none"
    BY <2>2 DEF GraphInv, NodesAreEnds
  <2>4. \A x \in Addresses : nodes[x] \in {"none", "pump_seed", "discovered"}
    BY DEF GraphInv, TypeOK
  <2> HIDE DEF E
  <2> QED
    BY <2>1, <2>3, <2>4 DEF Source
<1>4. DiscoveredWalletCount(nodes) = Cardinality(A)
  <2>1. DOMAIN nodes = Addresses
    BY DEF GraphInv, TypeOK
  <2> QED
    BY <2>1 DEF DiscoveredWalletCount, Source
<1> HIDE DEF A, B, E
<1>5. Cardinality(A \cup B) = Cardinality(A) + Cardinality(B) - Cardinality(A \cap B)
  BY <1>1, FS_Union
<1>6. Cardinality(A) \in Nat /\ Cardinality(B) \in Nat /\ Cardinality(A \cap B) = 0
  BY <1>1, <1>2, FS_CardinalityType, FS_EmptySet
<1>7. Cardinality(A) = Cardinality(E) - Cardinality(B)
  BY <1>3, <1>5, <1>6
<1> QED
  BY <1>4, <1>7 DEF B, E

\* The first of a result.
LEMMA LimitedToOne ==
    ASSUME NEW S, NEW f \in Seq(S)
    PROVE  IF f = << >> THEN Limited(f, 1) = << >>
           ELSE Limited(f, 1) # << >> /\ Limited(f, 1)[1] = f[1]
<1>1. Len(f) \in Nat /\ (f # << >> => Len(f) >= 1) /\ Limited(f, 1) = SubSeq(f, 1, Min({Len(f), 1}))
  BY DEF Limited
<1>2. CASE f = << >>
  <2>1. Min({0, 1}) = 0 /\ Len(f) = 0
    BY <1>2 DEF Min
  <2>2. Limited(f, 1) = SubSeq(f, 1, 0)
    BY <1>1, <2>1
  <2> QED
    BY <1>2, <2>2
<1>3. CASE f # << >>
  <2>1. Len(f) \in Nat /\ 1 <= Len(f)
    BY <1>1, <1>3
  <2>2. Min({Len(f), 1}) = 1
    BY <2>1 DEF Min
  <2>3. Len(SubSeq(f, 1, 1)) = 1 /\ SubSeq(f, 1, 1)[1] = f[1]
    BY <2>1
  <2>4. Limited(f, 1) = SubSeq(f, 1, 1)
    BY <1>1, <2>2
  <2>5. Len(<< >>) # Len(SubSeq(f, 1, 1))
    BY <2>3
  <2> QED
    BY <1>3, <2>3, <2>4, <2>5
<1> QED
  BY <1>2, <1>3

\* No wallet sent more to discovered ones than the top tile says.
LEMMA TopCounted ==
    ASSUME GraphInv, NEW a \in Source("pump_seed"),
           NEW top, top = TopPumpWalletsByExternalTrades(edges, nodes, 1)
    PROVE  Count(a, Source("discovered")) <= IF top = << >> THEN 0 ELSE top[1].trades
<1> DEFINE external == {e \in edges : nodes[e.from] = "pump_seed" /\ nodes[e.to] = "discovered"}
           By(c) == {e \in external : e.from = c}
           Entry(c) == [wallet |-> c, trades |-> Cardinality(By(c))]
           A == {e.from : e \in external}
           S == {Entry(c) : c \in A}
           key == [x \in S |-> x.trades]
           ranked == CHOOSE f \in SetToSeqs(S) :
                        \A i, j \in DOMAIN f : i < j => f[i].trades >= f[j].trades
<1>1. top = Limited(ranked, 1)
  BY DEF TopPumpWalletsByExternalTrades, Ranked
<1>2. \A e \in edges : e.sig \in Sigs /\ e.from \in Addresses /\ e.to \in Addresses
  BY DEF GraphInv, TypeOK, EdgeType
<1>3. IsFiniteSet(A)
  <2>1. A \subseteq Addresses
    BY <1>2
  <2> HIDE DEF A
  <2> QED
    BY <2>1, GraphAssumption, FS_Subset
<1>4. \A c : Entry(c).trades = Cardinality(By(c)) /\ Cardinality(By(c)) \in Nat
  <2> TAKE c
  <2>1. By(c) \in SUBSET edges
    OBVIOUS
  <2> HIDE DEF By
  <2>2. Cardinality(By(c)) \in Nat
    BY <2>1, AmountsOf
  <2> QED
    BY <2>2
<1>5. Count(a, Source("discovered")) = Cardinality(By(a))
  <2>1. nodes[a] = "pump_seed"
    BY DEF Source
  <2>2. SentInto(a, Source("discovered")) = By(a)
    BY <1>2, <2>1 DEF SentInto, SentBy, Source
  <2> HIDE DEF By
  <2> QED
    BY <2>2, CountIs
<1>6. a \notin A => By(a) = {}
  OBVIOUS
<1> HIDE DEF By, external, Entry, A
<1>7. \A x \in S : x.trades \in Int
  BY <1>4
<1>8. IsFiniteSet(S)
  <2> DEFINE g == [c \in A |-> Entry(c)]
  <2>1. g \in Surjection(A, S)
    BY DEF Surjection
  <2> HIDE DEF g, S
  <2> QED
    BY <1>3, <2>1, FS_Surjection
<1>9. a \in A => Entry(a) \in S
  OBVIOUS
<1> HIDE DEF S
<1>10. \E f \in SetToSeqs(S) : \A i, j \in DOMAIN f : i < j => f[i].trades >= f[j].trades
  <2>1. key \in [S -> Int]
    BY <1>7
  <2>2. PICK f : Descends(f, S, key)
    <3> HIDE DEF key
    <3> QED
      BY <1>8, <2>1, DescentExists
  <2>3. f \in SetToSeqs(S) /\ \A i, j \in DOMAIN f : i < j => key[f[i]] >= key[f[j]]
    BY <2>2 DEF Descends
  <2>4. \A i \in DOMAIN f : f[i] \in S
    BY <2>3 DEF SetToSeqs
  <2> QED
    BY <2>3, <2>4
<1>11. /\ ranked \in SetToSeqs(S)
       /\ \A i, j \in DOMAIN ranked : i < j => ranked[i].trades >= ranked[j].trades
  BY <1>10
<1> HIDE DEF ranked
<1>12. /\ ranked \in Seq(S)
       /\ \A x \in S : \E i \in 1..Len(ranked) : ranked[i] = x
  BY <1>8, <1>11, DescentTakesAll
<1>13. CASE a \in A
  <2>1. PICK k \in 1..Len(ranked) : ranked[k] = Entry(a)
    BY <1>9, <1>12, <1>13
  <2>2. /\ 1 \in DOMAIN ranked /\ k \in DOMAIN ranked /\ Len(ranked) \in Nat /\ Len(ranked) >= 1
        /\ (k = 1 \/ 1 < k) /\ ranked[1] \in S
    BY <1>12
  <2>3. ranked[1].trades >= Cardinality(By(a))
    <3>1. CASE k = 1
      BY <1>4, <2>1, <3>1
    <3>2. CASE 1 < k
      BY <1>4, <1>11, <2>1, <2>2, <3>2
    <3> QED
      BY <2>2, <3>1, <3>2
  <2>4. ranked # << >>
    BY <2>2
  <2>5. top # << >> /\ top[1] = ranked[1]
    BY <1>1, <1>12, <2>4, LimitedToOne
  <2>6. ranked[1].trades \in Int
    BY <1>7, <2>2
  <2> QED
    BY <1>4, <1>5, <2>3, <2>5, <2>6
<1>14. CASE a \notin A
  <2>1. Cardinality(By(a)) = 0
    BY <1>6, <1>14, FS_EmptySet
  <2>2. ASSUME top # << >> PROVE top[1].trades \in Nat
    <3>1. ranked # << >> /\ top[1] = ranked[1]
      BY <1>1, <1>12, <2>2, LimitedToOne
    <3>2. ranked[1] \in S
      BY <1>12, <3>1
    <3>3. \A x \in S : x.trades \in Nat
      BY <1>4 DEF S
    <3> QED
      BY <3>1, <3>2, <3>3
  <2> QED
    BY <1>5, <2>1, <2>2
<1> QED
  BY <1>13, <1>14

\* What the queries show is what happened on chain: the pages, the number of
\* relationships, that of the discovered wallets and the top tile
\* (neo4j.go:102-113, whois_queries.go:26-32, stats_queries.go:25, 60, 86-89).
THEOREM OutboundCorrect == Spec => []OutboundTotals
<1>1. GraphInv => OutboundTotals
  <2> SUFFICES ASSUME GraphInv PROVE OutboundTotals
    OBVIOUS
  <2>1. ASSUME NEW a \in Addresses, NEW i \in DOMAIN Page(a)
        PROVE  LET row == Page(a)[i]
                   sigs == SigsOf(a, row.wallet)
               IN  /\ row.count = Cardinality(sigs)
                   /\ (\A s \in sigs : chain[s].intact) =>
                         row.total = SumFunction([s \in sigs |-> First(chain[s].moves, a, row.wallet)])
    <3> DEFINE row == Page(a)[i]
    <3>1. RowFields(a, row.wallet, row)
      BY PageIs DEF IsPage
    <3> HIDE DEF row
    <3>2. /\ row.count = Cardinality(Sent(a, row.wallet))
          /\ row.total = SumFunction([e \in Sent(a, row.wallet) |-> e.lamports])
      BY <3>1 DEF RowFields
    <3>3. /\ row.count = Cardinality(SigsOf(a, row.wallet))
          /\ (\A s \in SigsOf(a, row.wallet) : chain[s].intact) =>
                row.total = SumFunction([s \in SigsOf(a, row.wallet) |->
                                           First(chain[s].moves, a, row.wallet)])
      BY <3>2, RowIsRight
    <3> QED
      BY <3>3 DEF row
  <2>2. EdgeCount(edges) = SumFunction([a \in Addresses |-> Count(a, Addresses)])
    BY EdgesCounted
  <2>3. DiscoveredWalletCount(nodes) =
           Cardinality({e.from : e \in edges} \cup {e.to : e \in edges})
           - Cardinality(Source("pump_seed"))
    BY NodesCounted
  <2>4. ASSUME NEW top, top = TopPumpWalletsByExternalTrades(edges, nodes, 1),
               NEW a \in Source("pump_seed")
        PROVE  Count(a, Source("discovered")) <= IF top = << >> THEN 0 ELSE top[1].trades
    BY <2>4, TopCounted
  <2> QED
    BY <2>1, <2>2, <2>3, <2>4 DEF OutboundTotals
<1> QED
  BY <1>1, Invariance, PTL
=============================================================================
