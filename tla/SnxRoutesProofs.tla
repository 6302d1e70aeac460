-------------------------- MODULE SnxRoutesProofs ---------------------------
(***************************************************************************)
(* Proofs about module SnxRoutes, for every width of an address, profile,  *)
(* reply and routing table.  First what the loops over lists return, by    *)
(* induction over their turns; then an invariant, in parts, of the steps   *)
(* of configure_interface(), finish_connect() and teardown_tunnel(); then  *)
(* what follows from it: the kernel and NetworkManager agree, the tunnel   *)
(* carries what it should and nothing else, a teardown leaves nothing.     *)
(***************************************************************************)
EXTENDS SnxRoutes, CidrBlocksProofs, SequenceTheorems

-----------------------------------------------------------------------------
(* The loops over sequences.                                               *)

\* One element appended unless it is there: it is in, and nothing else is new.
LEMMA AppendNewIs ==
  ASSUME NEW S, NEW seq \in Seq(S), NEW e \in S
  PROVE  /\ AppendNew(seq, e) \in Seq(S)
         /\ SetOf(AppendNew(seq, e)) = SetOf(seq) \cup {e}
<1>1. CASE Contains(seq, e)
  <2>1. e \in SetOf(seq)
    BY <1>1 DEF Contains, SetOf
  <2> QED
    BY <1>1, <2>1 DEF AppendNew
<1>2. CASE ~Contains(seq, e)
  <2>1. AppendNew(seq, e) = Append(seq, e)
    BY <1>2 DEF AppendNew
  <2>2. SetOf(Append(seq, e)) = SetOf(seq) \cup {e}
    BY AppendProperties DEF SetOf
  <2> QED
    BY <2>1, <2>2, AppendProperties
<1> QED
  BY <1>1, <1>2

\* The loop that appends what is new, turn by turn.
LEMMA AppendAllNewUnfolds ==
  ASSUME NEW S, NEW seq \in Seq(S), NEW more \in Seq(S)
  PROVE  \E f :
           /\ f[0] = seq
           /\ \A n \in 1 .. Len(more) : f[n] = AppendNew(f[n - 1], more[n])
           /\ AppendAllNew(seq, more) = f[Len(more)]
<1> DEFINE N == Len(more)
           Body(g) == [n \in 0 .. N |-> IF n = 0 THEN seq ELSE AppendNew(g[n - 1], more[n])]
           step == [p \in Seq(S) \X (1 .. N) |-> AppendNew(p[1], more[p[2]])]
           upTo == CHOOSE g : g = Body(g)
<1>1. N \in Nat /\ \A n \in 1 .. N : more[n] \in S
  BY LenProperties, ElementOfSeq
<1>2. step \in [Seq(S) \X (1 .. N) -> Seq(S)]
  BY <1>1, AppendNewIs
<1>3. PICK f : Computes(f, Seq(S), seq, N, step)
  <2> HIDE DEF step, N, Body, upTo
  <2> QED
    BY <1>1, <1>2, RecursionExists
<1>4. ASSUME NEW n \in 1 .. N PROVE f[n] = AppendNew(f[n - 1], more[n])
  <2>1. f[n - 1] \in Seq(S) /\ f[n] = step[<<f[n - 1], n>>]
    <3> HIDE DEF N, step
    <3>1. n - 1 \in 0 .. N
      BY <1>1
    <3> QED
      BY <1>3, <3>1 DEF Computes
  <2> QED
    BY <2>1
<1>5. f = Body(f)
  BY <1>1, <1>3, <1>4 DEF Computes
<1>6. upTo = Body(upTo)
  <2> HIDE DEF Body
  <2> QED
    BY <1>5
<1>7. AppendAllNew(seq, more) = upTo[N]
  BY DEF AppendAllNew
<1> HIDE DEF upTo
<1>8. upTo[0] = seq /\ \A n \in 1 .. N : upTo[n] = AppendNew(upTo[n - 1], more[n])
  BY <1>1, <1>6
<1> QED
  BY <1>7, <1>8

\* Both sequences hold what appending one to the other holds.
LEMMA AppendAllNewIs ==
  ASSUME NEW S, NEW seq \in Seq(S), NEW more \in Seq(S)
  PROVE  /\ AppendAllNew(seq, more) \in Seq(S)
         /\ SetOf(AppendAllNew(seq, more)) = SetOf(seq) \cup SetOf(more)
<1> DEFINE N == Len(more)
           First(n) == {more[k] : k \in 1 .. n}
<1>1. N \in Nat /\ DOMAIN more = 1 .. N /\ \A n \in 1 .. N : more[n] \in S
  BY LenProperties, ElementOfSeq
<1>2. PICK f : /\ f[0] = seq
               /\ \A n \in 1 .. N : f[n] = AppendNew(f[n - 1], more[n])
               /\ AppendAllNew(seq, more) = f[N]
  BY AppendAllNewUnfolds
<1> DEFINE T == {n \in 0 .. N : f[n] \in Seq(S) /\ SetOf(f[n]) = SetOf(seq) \cup First(n)}
<1>3. 0 \in T
  BY <1>1, <1>2
<1>4. ASSUME NEW n \in 0 .. N - 1, n \in T PROVE n + 1 \in T
  <2>1. n + 1 \in 1 .. N /\ n + 1 \in 0 .. N /\ (n + 1) - 1 = n
    BY <1>1
  <2>2. First(n + 1) = First(n) \cup {more[n + 1]}
    BY <1>1
  <2>3. f[n + 1] = AppendNew(f[n], more[n + 1]) /\ more[n + 1] \in S
    BY <1>1, <1>2, <2>1
  <2>4. f[n] \in Seq(S) /\ SetOf(f[n]) = SetOf(seq) \cup First(n)
    BY <1>4
  <2> HIDE DEF First, T, N
  <2>5. f[n + 1] \in Seq(S) /\ SetOf(f[n + 1]) = SetOf(f[n]) \cup {more[n + 1]}
    <3> DEFINE s == f[n]
               e == more[n + 1]
    <3>1. s \in Seq(S)
      BY <2>4
    <3>2. e \in S
      BY <2>3
    <3> HIDE DEF s, e
    <3>3. AppendNew(s, e) \in Seq(S) /\ SetOf(AppendNew(s, e)) = SetOf(s) \cup {e}
      BY <3>1, <3>2, AppendNewIs
    <3> QED
      BY <2>3, <3>3 DEF s, e
  <2>6. SetOf(f[n + 1]) = SetOf(seq) \cup First(n + 1)
    BY <2>2, <2>4, <2>5
  <2> QED
    BY <2>1, <2>5, <2>6 DEF T
<1> HIDE DEF T, N
<1>5. N \in T
  <2>1. N \in Nat /\ N \in 0 .. N
    BY <1>1
  <2> QED
    BY <2>1, <1>3, <1>4, BoundedInduction
<1>6. First(N) = SetOf(more)
  BY <1>1 DEF SetOf
<1> HIDE DEF First
<1> QED
  BY <1>2, <1>5, <1>6 DEF T

\* One turn of a loop that chooses.
LEMMA AppendIfInIs ==
  ASSUME NEW S, NEW seq \in Seq(S), NEW e \in S, NEW set
  PROVE  /\ AppendIfIn(set, seq, e) \in Seq(S)
         /\ SetOf(AppendIfIn(set, seq, e)) = SetOf(seq) \cup ({e} \cap set)
<1>1. CASE e \in set
  <2>1. AppendIfIn(set, seq, e) = Append(seq, e)
    BY <1>1 DEF AppendIfIn
  <2>2. SetOf(Append(seq, e)) = SetOf(seq) \cup {e}
    BY AppendProperties DEF SetOf
  <2> QED
    BY <1>1, <2>1, <2>2, AppendProperties
<1>2. CASE e \notin set
  BY <1>2 DEF AppendIfIn
<1> QED
  BY <1>1, <1>2

\* A loop that chooses, turn by turn.
LEMMA AmongUnfolds ==
  ASSUME NEW S, NEW seq \in Seq(S), NEW set
  PROVE  \E f :
           /\ f[0] = <<>>
           /\ \A n \in 1 .. Len(seq) : f[n] = AppendIfIn(set, f[n - 1], seq[n])
           /\ Among(seq, set) = f[Len(seq)]
<1> DEFINE N == Len(seq)
           Body(g) == [n \in 0 .. N |-> IF n = 0 THEN <<>> ELSE AppendIfIn(set, g[n - 1], seq[n])]
           step == [p \in Seq(S) \X (1 .. N) |-> AppendIfIn(set, p[1], seq[p[2]])]
           upTo == CHOOSE g : g = Body(g)
<1>1. N \in Nat /\ \A n \in 1 .. N : seq[n] \in S
  BY LenProperties, ElementOfSeq
<1>2. step \in [Seq(S) \X (1 .. N) -> Seq(S)] /\ <<>> \in Seq(S)
  BY <1>1, AppendIfInIs
<1>3. PICK f : Computes(f, Seq(S), <<>>, N, step)
  <2> HIDE DEF step, N, Body, upTo
  <2> QED
    BY <1>1, <1>2, RecursionExists
<1>4. ASSUME NEW n \in 1 .. N
      PROVE  f[n] = AppendIfIn(set, f[n - 1], seq[n])
  <2>1. f[n - 1] \in Seq(S) /\ f[n] = step[<<f[n - 1], n>>]
    <3> HIDE DEF N, step
    <3>1. n - 1 \in 0 .. N
      BY <1>1
    <3> QED
      BY <1>3, <3>1 DEF Computes
  <2> QED
    BY <2>1
<1>5. f = Body(f)
  BY <1>1, <1>3, <1>4 DEF Computes
<1>6. upTo = Body(upTo)
  <2> HIDE DEF Body
  <2> QED
    BY <1>5
<1>7. Among(seq, set) = upTo[N]
  BY DEF Among
<1> HIDE DEF upTo
<1>8. /\ upTo[0] = <<>>
      /\ \A n \in 1 .. N : upTo[n] = AppendIfIn(set, upTo[n - 1], seq[n])
  BY <1>1, <1>6
<1> QED
  BY <1>7, <1>8

\* What is chosen is what is in both.
LEMMA AmongIs ==
  ASSUME NEW S, NEW seq \in Seq(S), NEW set
  PROVE  /\ Among(seq, set) \in Seq(S)
         /\ SetOf(Among(seq, set)) = SetOf(seq) \cap set
<1> DEFINE N == Len(seq)
           First(n) == {seq[k] : k \in 1 .. n}
<1>1. N \in Nat /\ DOMAIN seq = 1 .. N /\ \A n \in 1 .. N : seq[n] \in S
  BY LenProperties, ElementOfSeq
<1>2. PICK f : /\ f[0] = <<>>
               /\ \A n \in 1 .. N : f[n] = AppendIfIn(set, f[n - 1], seq[n])
               /\ Among(seq, set) = f[N]
  BY AmongUnfolds
<1> DEFINE T == {n \in 0 .. N : f[n] \in Seq(S) /\ SetOf(f[n]) = First(n) \cap set}
<1>3. 0 \in T
  <2>1. 0 \in 0 .. N
    BY <1>1
  <2>2. f[0] \in Seq(S) /\ DOMAIN f[0] = {}
    BY <1>2
  <2>3. SetOf(f[0]) = {} /\ First(0) = {}
    BY <2>2 DEF SetOf
  <2> HIDE DEF First
  <2>4. SetOf(f[0]) = First(0) \cap set
    BY <2>3
  <2> QED
    BY <2>1, <2>2, <2>4
<1>4. ASSUME NEW n \in 0 .. N - 1, n \in T PROVE n + 1 \in T
  <2>1. n + 1 \in 1 .. N /\ (n + 1) - 1 = n /\ First(n + 1) = First(n) \cup {seq[n + 1]}
    BY <1>1
  <2>2. f[n + 1] = AppendIfIn(set, f[n], seq[n + 1]) /\ seq[n + 1] \in S
    BY <1>1, <1>2, <2>1
  <2>3. f[n + 1] \in Seq(S) /\ SetOf(f[n + 1]) = SetOf(f[n]) \cup ({seq[n + 1]} \cap set)
    BY <1>4, <2>2, AppendIfInIs
  <2> QED
    BY <1>1, <1>4, <2>1, <2>3
<1> HIDE DEF T, N
<1>5. N \in T
  BY <1>1, <1>3, <1>4, BoundedInduction
<1>6. First(N) = SetOf(seq)
  BY <1>1 DEF SetOf
<1> HIDE DEF First
<1> QED
  BY <1>2, <1>5, <1>6 DEF T

\* Choosing keeps apart what is apart: R is the set of the pairs that are alike.
LEMMA AmongKeepsApart ==
  ASSUME NEW S, NEW seq \in Seq(S), NEW set, NEW R,
         \A i, j \in DOMAIN seq : i # j => <<seq[i], seq[j]>> \notin R
  PROVE  \A i, j \in DOMAIN Among(seq, set) :
           i # j => <<Among(seq, set)[i], Among(seq, set)[j]>> \notin R
<1> DEFINE N == Len(seq)
           Apart(s) == \A i, j \in DOMAIN s : i # j => <<s[i], s[j]>> \notin R
<1>1. N \in Nat /\ DOMAIN seq = 1 .. N /\ \A n \in 1 .. N : seq[n] \in S
  BY LenProperties, ElementOfSeq
<1>2. PICK f : /\ f[0] = <<>>
               /\ \A n \in 1 .. N : f[n] = AppendIfIn(set, f[n - 1], seq[n])
               /\ Among(seq, set) = f[N]
  BY AmongUnfolds
<1> DEFINE From(t, n) == \A i \in DOMAIN t : \E k \in 1 .. n : t[i] = seq[k]
           T == {n \in 0 .. N : f[n] \in Seq(S) /\ Apart(f[n]) /\ From(f[n], n)}
<1>3. 0 \in T
  <2>1. 0 \in 0 .. N
    BY <1>1
  <2>2. f[0] \in Seq(S) /\ DOMAIN f[0] = {}
    BY <1>2
  <2>3. Apart(f[0]) /\ From(f[0], 0)
    BY <2>2
  <2> QED
    BY <2>1, <2>2, <2>3
<1>4. ASSUME NEW n \in 0 .. N - 1, n \in T PROVE n + 1 \in T
  <2> DEFINE s == f[n]
             e == seq[n + 1]
             t == Append(s, e)
  <2>1. n + 1 \in 1 .. N /\ (n + 1) - 1 = n /\ n \in Nat
    BY <1>1
  <2>2. f[n + 1] = AppendIfIn(set, s, e) /\ e \in S
    BY <1>1, <1>2, <2>1
  <2>3. s \in Seq(S) /\ Apart(s) /\ From(s, n)
    BY <1>4
  <2>4. /\ t \in Seq(S) /\ DOMAIN t = 1 .. Len(s) + 1 /\ DOMAIN s = 1 .. Len(s)
        /\ Len(s) \in Nat /\ t[Len(s) + 1] = e /\ \A i \in 1 .. Len(s) : t[i] = s[i]
    BY <2>2, <2>3, AppendProperties, LenProperties
  <2>5. ASSUME NEW i \in DOMAIN s
        PROVE  <<s[i], e>> \notin R /\ <<e, s[i]>> \notin R
    <3>1. PICK k \in 1 .. n : s[i] = seq[k]
      BY <2>3
    <3>2. k \in DOMAIN seq /\ n + 1 \in DOMAIN seq /\ k # n + 1
      BY <1>1, <2>1
    <3> QED
      BY <3>1, <3>2
  <2> HIDE DEF s, e, t
  <2>6. Apart(t)
    <3>1. ASSUME NEW i \in DOMAIN t, NEW j \in DOMAIN t, i # j
          PROVE  <<t[i], t[j]>> \notin R
      <4>1. CASE i \in DOMAIN s /\ j \in DOMAIN s
        BY <2>3, <2>4, <3>1, <4>1
      <4>2. CASE i \in DOMAIN s /\ j = Len(s) + 1
        BY <2>4, <2>5, <4>2
      <4>3. CASE i = Len(s) + 1 /\ j \in DOMAIN s
        BY <2>4, <2>5, <4>3
      <4> QED
        BY <2>4, <3>1, <4>1, <4>2, <4>3
    <3> QED
      BY <3>1
  <2>7. From(t, n + 1) /\ From(s, n + 1)
    <3>1. 1 .. n \subseteq 1 .. n + 1 /\ n + 1 \in 1 .. n + 1
      BY <2>1
    <3>2. From(s, n + 1)
      BY <2>3, <3>1
    <3>3. \A i \in 1 .. Len(s) + 1 : i \in 1 .. Len(s) \/ i = Len(s) + 1
      BY <2>4
    <3> QED
      BY <2>4, <3>1, <3>2, <3>3 DEF e
  <2>8. f[n + 1] \in {s, t}
    BY <2>2 DEF AppendIfIn, t
  <2> HIDE DEF Apart, From, N
  <2> QED
    BY <1>1, <2>1, <2>3, <2>4, <2>6, <2>7, <2>8
<1> HIDE DEF T, N
<1>5. N \in T
  BY <1>1, <1>3, <1>4, BoundedInduction
<1> QED
  BY <1>2, <1>5 DEF T

\* Two sequences one behind the other hold what either holds.
LEMMA ConcatIs ==
  ASSUME NEW S, NEW s \in Seq(S), NEW t \in Seq(S)
  PROVE  /\ s \o t \in Seq(S)
         /\ SetOf(s \o t) = SetOf(s) \cup SetOf(t)
<1>1. /\ Len(s) \in Nat /\ DOMAIN s = 1 .. Len(s)
      /\ Len(t) \in Nat /\ DOMAIN t = 1 .. Len(t)
  BY LenProperties
<1>2. /\ s \o t \in Seq(S) /\ DOMAIN (s \o t) = 1 .. Len(s) + Len(t)
      /\ \A i \in 1 .. Len(s) + Len(t) :
           (s \o t)[i] = IF i <= Len(s) THEN s[i] ELSE t[i - Len(s)]
  BY <1>1, ConcatProperties, LenProperties
<1> DEFINE u == s \o t
           m == Len(s)
           n == Len(t)
<1> HIDE DEF u, m, n
<1>3. SetOf(u) \subseteq SetOf(s) \cup SetOf(t)
  <2> SUFFICES ASSUME NEW i \in 1 .. m + n PROVE u[i] \in SetOf(s) \cup SetOf(t)
    BY <1>2 DEF SetOf, u, m, n
  <2>1. CASE i <= m
    BY <1>1, <1>2, <2>1 DEF SetOf, u, m, n
  <2>2. CASE ~(i <= m)
    <3>1. i - m \in 1 .. n
      BY <1>1, <2>2 DEF m, n
    <3> QED
      BY <1>1, <1>2, <2>2, <3>1 DEF SetOf, u, m, n
  <2> QED
    BY <2>1, <2>2
<1>4. SetOf(s) \subseteq SetOf(u)
  <2> SUFFICES ASSUME NEW i \in 1 .. m PROVE s[i] \in SetOf(u)
    BY <1>1 DEF SetOf, m
  <2>1. i \in 1 .. m + n /\ i <= m
    BY <1>1 DEF m, n
  <2> QED
    BY <1>2, <2>1 DEF SetOf, u, m, n
<1>5. SetOf(t) \subseteq SetOf(u)
  <2> SUFFICES ASSUME NEW i \in 1 .. n PROVE t[i] \in SetOf(u)
    BY <1>1 DEF SetOf, n
  <2>1. m + i \in 1 .. m + n /\ ~(m + i <= m) /\ (m + i) - m = i
    BY <1>1 DEF m, n
  <2> QED
    BY <1>2, <2>1 DEF SetOf, u, m, n
<1> QED
  BY <1>2, <1>3, <1>4, <1>5 DEF u

-----------------------------------------------------------------------------
(* What the lists hold.                                                    *)

\* A written specification is one, whatever text the destination is.
LEMMA FormatSpecType ==
  ASSUME NEW d \in Texts, NEW p \in 0 .. Width
  PROVE  FormatSpec([dest |-> d, prefix |-> p]) \in Specs
BY RangeConstants DEF FormatSpec, Specs

\* So is a written block.
LEMMA FormatBlockType ==
  ASSUME NEW block \in Blocks
  PROVE  FormatSpec(block) \in Specs
BY RangeConstants DEF FormatSpec, Specs, Blocks, Texts

\* Blocks with different destinations, put in the order of these, are all there.
LEMMA InOrderIs ==
  ASSUME NEW cidrs \in SUBSET Blocks,
         \A b, c \in cidrs : b.dest = c.dest => b = c
  PROVE  /\ InOrder(cidrs) \in Seq(Specs)
         /\ SetOf(InOrder(cidrs)) = {FormatSpec(b) : b \in cidrs}
<1> DEFINE all == [n \in 1 .. Size[0] |-> n - 1]
           dests == {b.dest : b \in cidrs}
           starts == Among(all, dests)
           At(a) == CHOOSE b \in cidrs : b.dest = a
           specs == [i \in DOMAIN starts |-> FormatSpec(At(starts[i]))]
<1>1. Size[0] \in Nat
  BY RangeConstants
<1>2. all \in Seq(Addresses) /\ SetOf(all) = Addresses
  <2>1. all \in Seq(Addresses)
    BY <1>1 DEF Addresses, LastAddress
  <2>2. SetOf(all) \subseteq Addresses
    <3> SUFFICES ASSUME NEW n \in 1 .. Size[0] PROVE n - 1 \in Addresses
      BY DEF SetOf
    <3> QED
      BY <1>1 DEF Addresses, LastAddress
  <2>3. ASSUME NEW a \in Addresses PROVE a \in SetOf(all)
    <3>1. a + 1 \in 1 .. Size[0] /\ (a + 1) - 1 = a
      BY <1>1 DEF Addresses, LastAddress
    <3>2. a + 1 \in DOMAIN all /\ all[a + 1] = a
      BY <3>1
    <3> QED
      BY <3>2 DEF SetOf
  <2> QED
    BY <2>1, <2>2, <2>3
<1>3. starts \in Seq(Addresses) /\ SetOf(starts) = dests
  <2>1. starts \in Seq(Addresses) /\ SetOf(starts) = Addresses \cap dests
    <3> HIDE DEF all, dests
    <3> QED
      BY <1>2, AmongIs
  <2>2. dests \subseteq Addresses
    BY DEF Blocks
  <2> QED
    BY <2>1, <2>2
<1>4. \A a \in dests : At(a) \in cidrs /\ At(a).dest = a
  OBVIOUS
<1>5. \A b \in cidrs : At(b.dest) = b
  <2> TAKE b \in cidrs
  <2>1. At(b.dest) \in cidrs /\ At(b.dest).dest = b.dest
    BY <1>4
  <2> QED
    BY <2>1
<1>6. InOrder(cidrs) = specs
  BY DEF InOrder
<1> HIDE DEF At, starts
<1>7. Len(starts) \in Nat /\ DOMAIN starts = 1 .. Len(starts)
  BY <1>3, LenProperties
<1>8. \A i \in DOMAIN starts : starts[i] \in dests /\ FormatSpec(At(starts[i])) \in Specs
  <2> TAKE i \in DOMAIN starts
  <2>1. starts[i] \in dests
    BY <1>3 DEF SetOf
  <2> QED
    BY <1>4, <2>1, FormatBlockType
<1>9. specs \in Seq(Specs)
  BY <1>7, <1>8
<1>10. SetOf(specs) \subseteq {FormatSpec(b) : b \in cidrs}
  BY <1>4, <1>8 DEF SetOf
<1>11. ASSUME NEW b \in cidrs PROVE FormatSpec(b) \in SetOf(specs)
  <2>1. PICK i \in DOMAIN starts : starts[i] = b.dest
    BY <1>3 DEF SetOf
  <2>2. specs[i] = FormatSpec(b) /\ i \in DOMAIN specs
    BY <1>5, <2>1
  <2> QED
    BY <2>2 DEF SetOf
<1> QED
  BY <1>6, <1>9, <1>10, <1>11

\* One range adds the blocks it is made of.
LEMMA AppendRangeIs ==
  ASSUME NEW specs \in Seq(Specs), NEW range \in [from : Addresses, to : Addresses]
  PROVE  /\ AppendRange(specs, range) \in Seq(Specs)
         /\ SetOf(AppendRange(specs, range)) =
              SetOf(specs) \cup {FormatSpec(b) : b \in Cidrs(range.from, range.to)}
<1> DEFINE cidrs == Cidrs(range.from, range.to)
<1>1. cidrs \in SUBSET Blocks
  BY DEF Cidrs
<1>2. ASSUME NEW b \in cidrs, NEW c \in cidrs, b.dest = c.dest PROVE b = c
  <2>1. range.from \in Int /\ range.to \in Int
    BY RangeConstants DEF Addresses, LastAddress
  <2>2. b.dest \in Covers(b) /\ c.dest \in Covers(c)
    BY <1>1, CoversItsDest
  <2> QED
    BY <1>2, <2>1, <2>2, CidrsAreDisjoint
<1> HIDE DEF cidrs
<1>3. /\ InOrder(cidrs) \in Seq(Specs)
      /\ SetOf(InOrder(cidrs)) = {FormatSpec(b) : b \in cidrs}
  BY <1>1, <1>2, InOrderIs
<1>4. AppendRange(specs, range) = specs \o InOrder(cidrs)
  BY DEF AppendRange, cidrs
<1>5. /\ specs \o InOrder(cidrs) \in Seq(Specs)
      /\ SetOf(specs \o InOrder(cidrs)) = SetOf(specs) \cup SetOf(InOrder(cidrs))
  BY <1>3, ConcatIs
<1> QED
  BY <1>3, <1>4, <1>5 DEF cidrs

\* The specifications of all ranges but the first ones, range by range.
LEMMA RangeSpecsUnfold ==
  ASSUME hello_reply \in Replies
  PROVE  \E f :
           /\ f[0] = <<>>
           /\ \A n \in 1 .. Len(hello_reply.ranges) :
                f[n] = AppendRange(f[n - 1], hello_reply.ranges[n])
           /\ RangeSpecs = f[Len(hello_reply.ranges)]
<1> DEFINE ranges == hello_reply.ranges
           N == Len(ranges)
           Body(g) == [n \in 0 .. N |-> IF n = 0 THEN <<>> ELSE AppendRange(g[n - 1], ranges[n])]
           step == [p \in Seq(Specs) \X (1 .. N) |-> AppendRange(p[1], ranges[p[2]])]
           upTo == CHOOSE g : g = Body(g)
<1>1. /\ N \in Nat
      /\ \A n \in 1 .. N : ranges[n] \in [from : Addresses, to : Addresses]
  <2>1. ranges \in Seq([from : Addresses, to : Addresses])
    BY RoutesConstants
  <2> HIDE DEF ranges
  <2> QED
    BY <2>1, LenProperties, ElementOfSeq
<1>2. step \in [Seq(Specs) \X (1 .. N) -> Seq(Specs)] /\ <<>> \in Seq(Specs)
  <2> HIDE DEF N, ranges
  <2> QED
    BY <1>1, AppendRangeIs
<1>3. PICK f : Computes(f, Seq(Specs), <<>>, N, step)
  <2> HIDE DEF step, N, Body, upTo
  <2> QED
    BY <1>1, <1>2, RecursionExists
<1>4. ASSUME NEW n \in 1 .. N PROVE f[n] = AppendRange(f[n - 1], ranges[n])
  <2>1. f[n - 1] \in Seq(Specs) /\ f[n] = step[<<f[n - 1], n>>]
    <3> HIDE DEF N, step
    <3>1. n - 1 \in 0 .. N
      BY <1>1
    <3> QED
      BY <1>3, <3>1 DEF Computes
  <2> QED
    BY <2>1
<1>5. f = Body(f)
  <2> HIDE DEF ranges
  <2> QED
    BY <1>1, <1>3, <1>4 DEF Computes
<1>6. upTo = Body(upTo)
  <2> HIDE DEF Body
  <2> QED
    BY <1>5
<1>7. RangeSpecs = upTo[N]
  BY DEF RangeSpecs
<1> HIDE DEF upTo
<1>8. upTo[0] = <<>> /\ \A n \in 1 .. N : upTo[n] = AppendRange(upTo[n - 1], ranges[n])
  <2> HIDE DEF ranges
  <2> QED
    BY <1>1, <1>6
<1> QED
  BY <1>7, <1>8

CidrsOfRanges ==
  UNION {Cidrs(range.from, range.to) : range \in SetOf(hello_reply.ranges)}

\* All ranges of the reply add all their blocks: range_to_cidrs() called in
\* collect_route_specs().
LEMMA RangeSpecsAre ==
  ASSUME hello_reply \in Replies
  PROVE  /\ RangeSpecs \in Seq(Specs)
         /\ SetOf(RangeSpecs) = {FormatSpec(b) : b \in CidrsOfRanges}
<1> DEFINE ranges == hello_reply.ranges
           N == Len(ranges)
           CidrsOf(k) == Cidrs(ranges[k].from, ranges[k].to)
           First(n) == UNION {CidrsOf(k) : k \in 1 .. n}
<1>1. ranges \in Seq([from : Addresses, to : Addresses])
  BY RoutesConstants
<1>2. PICK f : /\ f[0] = <<>>
               /\ \A n \in 1 .. N : f[n] = AppendRange(f[n - 1], ranges[n])
               /\ RangeSpecs = f[N]
  BY RangeSpecsUnfold
<1>3. CidrsOfRanges = UNION {CidrsOf(k) : k \in DOMAIN ranges}
  BY DEF CidrsOfRanges, SetOf
<1> HIDE DEF ranges
<1>4. /\ N \in Nat /\ DOMAIN ranges = 1 .. N
      /\ \A k \in 1 .. N : ranges[k] \in [from : Addresses, to : Addresses]
  BY <1>1, LenProperties, ElementOfSeq
<1> HIDE DEF N, CidrsOf
<1> DEFINE T == {n \in 0 .. N : /\ f[n] \in Seq(Specs)
                               /\ SetOf(f[n]) = {FormatSpec(b) : b \in First(n)}}
<1>5. 0 \in T
  <2>1. 0 \in 0 .. N
    BY <1>4
  <2>2. f[0] \in Seq(Specs) /\ DOMAIN f[0] = {}
    BY <1>2
  <2>3. SetOf(f[0]) = {} /\ First(0) = {}
    BY <2>2 DEF SetOf
  <2> HIDE DEF First
  <2>4. SetOf(f[0]) = {FormatSpec(b) : b \in First(0)}
    BY <2>3
  <2> QED
    BY <2>1, <2>2, <2>4
<1>6. ASSUME NEW n \in 0 .. N - 1, n \in T PROVE n + 1 \in T
  <2>1. n + 1 \in 1 .. N /\ n + 1 \in 0 .. N /\ (n + 1) - 1 = n
    BY <1>4
  <2>2. First(n + 1) = First(n) \cup CidrsOf(n + 1)
    BY <1>4
  <2>3. f[n + 1] = AppendRange(f[n], ranges[n + 1])
    BY <1>2, <2>1
  <2>4. f[n] \in Seq(Specs) /\ SetOf(f[n]) = {FormatSpec(b) : b \in First(n)}
    BY <1>6
  <2>5. /\ f[n + 1] \in Seq(Specs)
        /\ SetOf(f[n + 1]) = SetOf(f[n]) \cup {FormatSpec(b) : b \in CidrsOf(n + 1)}
    BY <1>4, <2>1, <2>3, <2>4, AppendRangeIs DEF CidrsOf
  <2> HIDE DEF First
  <2>6. SetOf(f[n + 1]) = {FormatSpec(b) : b \in First(n + 1)}
    BY <2>2, <2>4, <2>5
  <2> QED
    BY <2>1, <2>5, <2>6
<1> HIDE DEF T
<1>7. N \in T
  <2>1. N \in Nat /\ N \in 0 .. N
    BY <1>4
  <2> QED
    BY <2>1, <1>5, <1>6, BoundedInduction
<1>8. CidrsOfRanges = First(N)
  BY <1>3, <1>4
<1> QED
  BY <1>2, <1>7, <1>8 DEF T

\* The servers that are used are those of either list that are not ignored.
LEMMA UsedServersAre ==
  ASSUME config \in Profiles, hello_reply \in Replies
  PROVE  /\ UsedServers \in Seq(Texts)
         /\ SetOf(UsedServers) =
              (SetOf(hello_reply.dns_servers) \cup SetOf(config.dns_servers))
                \ config.ignore_dns_servers
<1>1. hello_reply.dns_servers \in Seq(Texts) /\ config.dns_servers \in Seq(Texts)
  BY RoutesConstants
<1> DEFINE all == hello_reply.dns_servers \o config.dns_servers
<1>2. /\ all \in Seq(Texts)
      /\ SetOf(all) = SetOf(hello_reply.dns_servers) \cup SetOf(config.dns_servers)
  BY <1>1, ConcatIs
<1>3. SetOf(all) \subseteq Texts
  <2> HIDE DEF all
  <2> QED
    BY <1>2, ElementOfSeq, LenProperties DEF SetOf
<1>4. UsedServers = Among(all, Texts \ config.ignore_dns_servers)
  BY DEF UsedServers
<1> HIDE DEF all
<1>5. /\ UsedServers \in Seq(Texts)
      /\ SetOf(UsedServers) = SetOf(all) \cap (Texts \ config.ignore_dns_servers)
  BY <1>2, <1>4, AmongIs
<1> QED
  BY <1>2, <1>3, <1>5

\* Leaving out the repeated ones loses no server.
LEMMA CollectDnsServersAre ==
  ASSUME config \in Profiles, hello_reply \in Replies
  PROVE  /\ CollectDnsServers \in Seq(Texts)
         /\ SetOf(CollectDnsServers) = SetOf(UsedServers)
<1>1. UsedServers \in Seq(Texts) /\ <<>> \in Seq(Texts) /\ SetOf(<<>>) = {}
  BY UsedServersAre DEF SetOf
<1> DEFINE none == <<>>
<1>2. none \in Seq(Texts) /\ SetOf(none) = {} /\ CollectDnsServers = AppendAllNew(none, UsedServers)
  BY <1>1 DEF CollectDnsServers
<1> HIDE DEF none
<1>3. /\ AppendAllNew(none, UsedServers) \in Seq(Texts)
      /\ SetOf(AppendAllNew(none, UsedServers)) = SetOf(none) \cup SetOf(UsedServers)
  <2>1. none \in Seq(Texts)
    BY <1>2
  <2>2. UsedServers \in Seq(Texts)
    BY <1>1
  <2> QED
    BY <2>1, <2>2, AppendAllNewIs
<1> QED
  BY <1>2, <1>3

HostSpecs ==
  {FormatSpec([dest |-> server, prefix |-> Width]) : server \in SetOf(UsedServers)}

SubnetSpecs ==
  {FormatSpec(PrivateSubnet(server)) : server \in SetOf(UsedServers) \cap PrivateAddresses}

\* The inferred subnets: one for each server that has a private address.
LEMMA AppendPrivateSubnetsIs ==
  ASSUME config \in Profiles, hello_reply \in Replies, NEW specs \in Seq(Specs)
  PROVE  /\ AppendPrivateSubnets(specs) \in Seq(Specs)
         /\ SetOf(AppendPrivateSubnets(specs)) = SetOf(specs) \cup SubnetSpecs
<1> DEFINE private == Among(UsedServers, PrivateAddresses)
           more == [i \in DOMAIN private |-> FormatSpec(PrivateSubnet(private[i]))]
<1>1. private \in Seq(Texts) /\ SetOf(private) = SetOf(UsedServers) \cap PrivateAddresses
  BY UsedServersAre, AmongIs
<1>2. AppendPrivateSubnets(specs) = AppendAllNew(specs, more)
  BY DEF AppendPrivateSubnets
<1> HIDE DEF private
<1>3. Len(private) \in Nat /\ DOMAIN private = 1 .. Len(private)
  BY <1>1, LenProperties
<1>4. ASSUME NEW i \in DOMAIN private PROVE FormatSpec(PrivateSubnet(private[i])) \in Specs
  <2>1. private[i] \in PrivateAddresses
    BY <1>1 DEF SetOf
  <2>2. PrivateSubnet(private[i]) \in Blocks
    BY <2>1, RoutesConstants DEF PrivateSubnet, PrivateAddresses
  <2> QED
    BY <2>2, FormatBlockType
<1>5. more \in Seq(Specs)
  BY <1>3, <1>4
<1>6. SetOf(more) = SubnetSpecs
  <2>1. SetOf(more) = {FormatSpec(PrivateSubnet(server)) : server \in SetOf(private)}
    BY DEF SetOf
  <2> QED
    BY <1>1, <2>1 DEF SubnetSpecs
<1> HIDE DEF more
<1> QED
  BY <1>2, <1>5, <1>6, AppendAllNewIs

\* The host routes: one for each server.
LEMMA AppendDnsRoutesIs ==
  ASSUME config \in Profiles, hello_reply \in Replies, NEW specs \in Seq(Specs)
  PROVE  /\ AppendDnsRoutes(specs) \in Seq(Specs)
         /\ SetOf(AppendDnsRoutes(specs)) = SetOf(specs) \cup HostSpecs
<1> DEFINE used == UsedServers
           more == [i \in DOMAIN used |-> FormatSpec([dest |-> used[i], prefix |-> Width])]
<1>1. used \in Seq(Texts)
  BY UsedServersAre
<1>2. AppendDnsRoutes(specs) = AppendAllNew(specs, more)
  BY DEF AppendDnsRoutes
<1>3. SetOf(more) = HostSpecs
  BY DEF SetOf, HostSpecs
<1> HIDE DEF used
<1>4. Len(used) \in Nat /\ DOMAIN used = 1 .. Len(used) /\ \A i \in DOMAIN used : used[i] \in Texts
  BY <1>1, LenProperties, ElementOfSeq
<1>5. ASSUME NEW i \in DOMAIN used
      PROVE  FormatSpec([dest |-> used[i], prefix |-> Width]) \in Specs
  <2>1. used[i] \in Texts /\ Width \in 0 .. Width
    BY <1>4, RangeConstants
  <2> QED
    BY <2>1, FormatSpecType
<1>6. more \in Seq(Specs)
  <2> DEFINE Host(server) == FormatSpec([dest |-> server, prefix |-> Width])
  <2>1. more = [i \in 1 .. Len(used) |-> Host(used[i])]
    BY <1>4
  <2>2. \A i \in 1 .. Len(used) : Host(used[i]) \in Specs
    BY <1>4, <1>5
  <2> HIDE DEF Host, more
  <2> QED
    BY <1>4, <2>1, <2>2
<1> HIDE DEF more
<1> QED
  BY <1>2, <1>3, <1>6, AppendAllNewIs

\* What collect_route_specs() returns, without its order.
LEMMA CollectRouteSpecsAre ==
  ASSUME config \in Profiles, hello_reply \in Replies
  PROVE  /\ CollectRouteSpecs \in Seq(Specs)
         /\ SetOf(CollectRouteSpecs) =
              SetOf(config.add_routes) \cup
              IF RoutesFromGateway
                THEN {FormatSpec(b) : b \in CidrsOfRanges} \cup HostSpecs
                       \cup (IF InfersSubnets THEN SubnetSpecs ELSE {})
                ELSE {}
<1> DEFINE ranges == RangeSpecs
           inferred == IF InfersSubnets THEN AppendPrivateSubnets(ranges) ELSE ranges
           first == IF RoutesFromGateway THEN AppendDnsRoutes(inferred) ELSE <<>>
           added == config.add_routes
<1>1. ranges \in Seq(Specs) /\ SetOf(ranges) = {FormatSpec(b) : b \in CidrsOfRanges}
  BY RangeSpecsAre
<1>2. /\ inferred \in Seq(Specs)
      /\ SetOf(inferred) = SetOf(ranges) \cup (IF InfersSubnets THEN SubnetSpecs ELSE {})
  <2> HIDE DEF ranges
  <2>1. CASE InfersSubnets
    BY <1>1, <2>1, AppendPrivateSubnetsIs
  <2>2. CASE ~InfersSubnets
    BY <1>1, <2>2
  <2> QED
    BY <2>1, <2>2
<1>3. added \in Seq(Specs) /\ CollectRouteSpecs = first \o added
  BY RoutesConstants DEF CollectRouteSpecs
<1> HIDE DEF ranges, inferred, added
<1>4. CASE RoutesFromGateway
  <2>1. first \in Seq(Specs) /\ SetOf(first) = SetOf(inferred) \cup HostSpecs
    BY <1>2, <1>4, AppendDnsRoutesIs
  <2> HIDE DEF first
  <2>2. first \o added \in Seq(Specs) /\ SetOf(first \o added) = SetOf(first) \cup SetOf(added)
    BY <1>3, <2>1, ConcatIs
  <2> QED
    BY <1>1, <1>2, <1>3, <1>4, <2>1, <2>2 DEF added
<1>5. CASE ~RoutesFromGateway
  <2>1. first \in Seq(Specs)
    BY <1>5
  <2>2. DOMAIN first = {}
    BY <1>5
  <2> HIDE DEF first
  <2>3. SetOf(first) = {}
    BY <2>2 DEF SetOf
  <2>4. added \in Seq(Specs)
    BY <1>3
  <2>5. first \o added \in Seq(Specs) /\ SetOf(first \o added) = SetOf(first) \cup SetOf(added)
    BY <2>1, <2>4, ConcatIs
  <2> QED
    BY <1>3, <1>5, <2>3, <2>5 DEF added
<1> QED
  BY <1>4, <1>5

-----------------------------------------------------------------------------
(* Addresses and routes.                                                   *)

\* Every mask, even one with holes or none, yields a prefix that exists.
LEMMA PrefixType ==
  ASSUME hello_reply \in Replies
  PROVE  Prefix \in 0 .. Width
<1> DEFINE mask == hello_reply.subnet_mask
           fitting == {p \in 0 .. Width : mask >= Size[0] - Size[p]}
<1>1. Width \in Nat /\ Size[0] \in Nat /\ mask \in Texts
  BY RangeConstants, RoutesConstants
<1>2. CASE mask = NoAddress
  BY <1>1, <1>2 DEF Prefix, NetmaskToPrefix
<1>3. CASE mask # NoAddress
  <2>1. mask \in Nat
    BY <1>1, <1>3 DEF Texts, Addresses, LastAddress
  <2>2. 0 \in fitting /\ fitting \in SUBSET (0 .. Width)
    BY <1>1, <2>1
  <2>3. Prefix = Max(fitting)
    BY <1>3 DEF Prefix, NetmaskToPrefix
  <2> HIDE DEF fitting
  <2>4. \E m \in fitting : \A k \in fitting : k <= m
    BY <1>1, <2>2, GreatestNatural
  <2>5. \E m \in fitting : \A k \in fitting : m >= k
    BY <2>2, <2>4
  <2>6. Max(fitting) \in fitting
    BY <2>5 DEF Max
  <2> QED
    BY <2>2, <2>3, <2>6
<1> QED
  BY <1>2, <1>3

\* A route to an address through the tunnel is well formed.
LEMMA TunRouteType ==
  ASSUME NEW d \in Addresses, NEW p \in 0 .. Width
  PROVE  /\ TunRoute(d, p) \in Routes
         /\ TunRoute(d, p).dest = d
         /\ TunRoute(d, p).prefix = p
         /\ TunRoute(d, p).dev = "tun"
BY DEF TunRoute, Routes

\* The route of the subnet is never one to a single address, nor the default.
LEMMA ConnectedType ==
  ASSUME hello_reply \in Replies, hello_reply.assigned_ip # NoAddress
  PROVE  /\ Connected \subseteq Routes
         /\ \A r \in Connected : /\ r.dev = "tun" /\ r.prefix # Width /\ r.dest # 0
                                /\ r.dest = Network(r.dest, r.prefix)
<1> DEFINE network == Network(hello_reply.assigned_ip, Prefix)
<1>1. hello_reply.assigned_ip \in Addresses
  BY RoutesConstants DEF Texts
<1>2. Prefix \in 0 .. Width /\ network \in Addresses /\ network = Network(network, Prefix)
  <2>1. Prefix \in 0 .. Width
    BY PrefixType
  <2>2. network \in Addresses /\ network % Size[Prefix] = 0
    BY <1>1, <2>1, NetworkType
  <2> HIDE DEF network
  <2> QED
    BY <2>1, <2>2, RangeConstants DEF Network, Addresses, LastAddress
<1>3. Connected = IF network = 0 \/ Prefix = Width THEN {} ELSE {TunRoute(network, Prefix)}
  BY DEF Connected
<1> HIDE DEF network
<1> QED
  BY <1>2, <1>3, TunRouteType

\* A packet that some route matches takes one, and none that matches is longer.
LEMMA RouteOfIs ==
  ASSUME table \subseteq Routes, NEW a, Matching(a) # {}
  PROVE  /\ RouteOf(a) \in Matching(a)
         /\ \A s \in Matching(a) : s.prefix <= RouteOf(a).prefix
<1> DEFINE prefixes == {r.prefix : r \in Matching(a)}
<1>1. prefixes \in SUBSET (0 .. Width) /\ prefixes # {} /\ Width \in Nat
  BY RangeConstants DEF Matching, Routes
<1>2. PICK m \in prefixes : \A k \in prefixes : k <= m
  <2> HIDE DEF prefixes
  <2> QED
    BY <1>1, GreatestNatural
<1>3. \E r \in Matching(a) : \A s \in Matching(a) : s.prefix <= r.prefix
  BY <1>2
<1> QED
  BY <1>3 DEF RouteOf

\* The exception for the gateway keeps the device of the route it is made from.
LEMMA BypassRouteType ==
  ASSUME NEW r \in Routes
  PROVE  LET b == [r EXCEPT !.dest = Gateway, !.prefix = Width]
         IN  b \in Routes /\ b.dest = Gateway /\ b.prefix = Width /\ b.dev = r.dev
<1>1. Gateway \in Addresses /\ Width \in 0 .. Width
  BY RangeConstants, RoutesConstants
<1>2. r = [dest |-> r.dest, prefix |-> r.prefix, dev |-> r.dev, via |-> r.via]
  BY DEF Routes
<1> QED
  BY <1>1, <1>2 DEF Routes

\* A default route begins with the first address.
LEMMA DefaultRouteIsZero ==
  ASSUME NEW r \in Routes, r.dest = Network(r.dest, r.prefix), r.prefix = 0
  PROVE  r.dest = 0
<1>1. r.dest \in 0 .. Size[0] - 1 /\ Size[0] \in Nat \ {0}
  BY SizeIsPositive, RangeConstants DEF Routes, Addresses, LastAddress
<1>2. \A s \in Nat \ {0} : \A x \in 0 .. s - 1 : x % s = x
  OBVIOUS
<1>3. r.dest % Size[0] = r.dest
  BY <1>1, <1>2
<1> QED
  BY <1>1, <1>3 DEF Network

\* The lists are made anew in configure_interface() and in finish_connect(),
\* from the same profile and the same reply.
LEMMA GivenDecides ==
  ASSUME UNCHANGED given
  PROVE  /\ UsedServers' = UsedServers
         /\ CollectDnsServers' = CollectDnsServers
         /\ Connected' = Connected
         /\ Prefix' = Prefix
         /\ CollectSearchDomains' = CollectSearchDomains
         /\ RangeSpecs' = RangeSpecs
         /\ CollectRouteSpecs' = CollectRouteSpecs
<1>1. config' = config /\ hello_reply' = hello_reply
  BY DEF given
<1>2. UsedServers' = UsedServers
  BY <1>1 DEF UsedServers
<1>3. CollectDnsServers' = CollectDnsServers
  BY <1>2 DEF CollectDnsServers
<1>4. Connected' = Connected /\ Prefix' = Prefix
  BY <1>1 DEF Connected, Prefix
<1>5. CollectSearchDomains' = CollectSearchDomains
  BY <1>1 DEF CollectSearchDomains, AppendNewDomain, IsIgnored
<1>6. RangeSpecs' = RangeSpecs
  BY <1>1 DEF RangeSpecs
<1>7. CollectRouteSpecs' = CollectRouteSpecs
  BY <1>1, <1>2, <1>6 DEF CollectRouteSpecs, RoutesFromGateway, InfersSubnets, AppendDnsRoutes, AppendPrivateSubnets
<1> QED
  BY <1>2, <1>3, <1>4, <1>5, <1>6, <1>7

-----------------------------------------------------------------------------
(* The types.                                                              *)

Phases == {"created", "up", "link", "bypass", "default", "routes", "finish",
           "announced", "failed", "down"}

TypeOK ==
  /\ config \in Profiles
  /\ hello_reply \in Replies
  /\ before \in Tables
  /\ phase \in Phases
  /\ next \in Nat \ {0}
  /\ table \subseteq Routes
  /\ bypass \subseteq Routes
  /\ unconfirmed \subseteq Routes
  /\ announced \subseteq Blocks

\* The attempt begins well typed.
LEMMA TypeInit == Init => TypeOK
BY RoutesConstants DEF Init, TypeOK, Phases

\* Every line of the list is a specification.
LEMMA SpecType ==
  ASSUME TypeOK, NEW i \in DOMAIN CollectRouteSpecs
  PROVE  CollectRouteSpecs[i] \in Specs
BY CollectRouteSpecsAre, ElementOfSeq, LenProperties DEF TypeOK

\* A specification the kernel was given is a route.
LEMMA AcceptedSpecType ==
  ASSUME NEW spec \in Specs, ~RefusesSpec(spec)
  PROVE  /\ spec.dest \in Addresses
         /\ spec.num % 256 \in 0 .. Width
         /\ spec.dest = Network(spec.dest, spec.num % 256)
<1>1. spec.num \in Nat /\ spec.num % 256 \in Nat /\ spec.dest \in Texts
  BY DEF Specs
<1> QED
  BY <1>1, RangeConstants DEF RefusesSpec, KernelAccepts, Texts

RequestFailed == NetlinkFails \/ AddBypassRouteFails \/ AddRouteFails

\* What a request that failed leaves on the link was there before it, or is the
\* bypass route, which is then off the record.
LEMMA FailureLeaves ==
  ASSUME TypeOK, RequestFailed
  PROVE  /\ phase' = "failed"
         /\ UNCHANGED <<given, next, ip4_config>>
         /\ \/ UNCHANGED <<bypass, unconfirmed>>
            \/ phase = "bypass" /\ bypass' = {} /\ unconfirmed' = unconfirmed \cup bypass
         /\ \A r \in table' : /\ r.dev # "tun"
                              /\ \/ r \in table
                                 \/ phase = "bypass" /\ r \in bypass /\ r \in unconfirmed'
<1> USE DEF RequestFails, given, ip4_config
<1>1. \A d, p : \A r \in RouteAdded(TunRoute(d, p)) : r \in table \/ r.dev = "tun"
  BY DEF RouteAdded, TunRoute
<1>2. CASE NetlinkFails
  BY <1>1, <1>2 DEF NetlinkFails, WithoutTun
<1>3. CASE AddBypassRouteFails
  <2>1. \A r \in UNION {RouteAdded(b) : b \in bypass} : r \in table \/ r \in bypass
    BY DEF RouteAdded
  <2> QED
    BY <1>3, <2>1 DEF AddBypassRouteFails, WithoutTun
<1>4. CASE AddRouteFails
  BY <1>1, <1>4 DEF AddRouteFails, WithoutTun
<1> QED
  BY <1>2, <1>3, <1>4 DEF RequestFailed

\* What a teardown leaves on the link: the bypass route only unconfirmed.
LEMMA TeardownLeaves ==
  ASSUME TeardownTunnel
  PROVE  /\ phase' = "down" /\ bypass' = {}
         /\ UNCHANGED <<given, next, ip4_config>>
         /\ unconfirmed \subseteq unconfirmed' /\ unconfirmed' \subseteq unconfirmed \cup bypass
         /\ \A r \in table' : r \in table /\ r.dev # "tun" /\ (r \in bypass => r \in unconfirmed')
         /\ \A r \in table : r \in table' \/ r.dev = "tun" \/ r \in bypass
BY DEF TeardownTunnel, WithoutTun, given, ip4_config

\* No step makes a route that is malformed.
LEMMA TypeStep == TypeOK /\ [Next]_vars => TypeOK'
<1> SUFFICES ASSUME TypeOK, [Next]_vars PROVE TypeOK'
  OBVIOUS
<1> USE DEF Goes, given, ip4_config
<1>1. ASSUME UNCHANGED given
      PROVE  config' \in Profiles /\ hello_reply' \in Replies /\ before' \in Tables
  BY <1>1 DEF TypeOK
<1>2. CASE LinkUp
  BY <1>1, <1>2 DEF LinkUp, TypeOK, Phases
<1>3. CASE AddAddress
  <2>1. Connected \subseteq Routes
    BY <1>3, ConnectedType DEF AddAddress, TypeOK
  <2> QED
    BY <1>1, <1>3, <2>1 DEF AddAddress, TypeOK, Phases
<1>4. CASE RequestFailed
  BY <1>1, <1>4, FailureLeaves DEF TypeOK, Phases
<1>5. CASE LookUpGateway
  <2>1. RouteOf(Gateway) \in Routes
    BY <1>5, RouteOfIs DEF LookUpGateway, TypeOK, Matching
  <2>2. bypass' \subseteq Routes
    BY <1>5, <2>1, BypassRouteType DEF LookUpGateway
  <2> QED
    BY <1>1, <1>5, <2>2 DEF LookUpGateway, TypeOK, Phases
<1>6. CASE AddBypassRoute
  <2>1. table' \subseteq Routes
    BY <1>6 DEF AddBypassRoute, RouteAdded, TypeOK
  <2> QED
    BY <1>1, <1>6, <2>1 DEF AddBypassRoute, TypeOK, Phases
<1>7. CASE AddDefaultRoute
  <2>1. TunRoute(0, 0) \in Routes
    <3>1. 0 \in Addresses /\ 0 \in 0 .. Width
      BY SizeIsPositive, RangeConstants DEF Addresses, LastAddress
    <3> QED
      BY <3>1, TunRouteType
  <2>2. table' \subseteq Routes
    BY <1>7, <2>1 DEF AddDefaultRoute, RouteAdded, TypeOK
  <2> QED
    BY <1>1, <1>7, <2>2 DEF AddDefaultRoute, TypeOK, Phases
<1>8. CASE KeepDefaultRoute
  BY <1>1, <1>8 DEF KeepDefaultRoute, TypeOK, Phases
<1>9. CASE AddRouteFromSpec
  <2> DEFINE spec == CollectRouteSpecs[next]
  <2>1. spec \in Specs /\ ~RefusesSpec(spec)
    BY <1>9, SpecType DEF AddRouteFromSpec, AtSpec, RefusesSpec
  <2>2. TunRoute(spec.dest, spec.num % 256) \in Routes
    <3> HIDE DEF spec
    <3> QED
      BY <2>1, AcceptedSpecType, TunRouteType
  <2>3. table' = RouteAdded(TunRoute(spec.dest, spec.num % 256))
    BY <1>9 DEF AddRouteFromSpec
  <2> HIDE DEF spec
  <2>4. table' \subseteq Routes
    BY <2>2, <2>3 DEF RouteAdded, TypeOK
  <2> QED
    BY <1>1, <1>9, <2>4 DEF AddRouteFromSpec, TypeOK, Phases
<1>11. CASE Configured
  BY <1>1, <1>11 DEF Configured, TypeOK, Phases
<1>12. CASE FinishConnect
  <2>1. announced' \subseteq Blocks
    <3> SUFFICES ASSUME NEW i \in DOMAIN CollectRouteSpecs
                 PROVE  ParseRouteSpec(CollectRouteSpecs[i]) \in Blocks
      BY <1>12 DEF FinishConnect
    <3> DEFINE spec == CollectRouteSpecs[i]
    <3>1. spec \in Specs /\ ParsesSpec(spec)
      BY <1>12, SpecType DEF FinishConnect, CanAnnounce
    <3> HIDE DEF spec
    <3>2. spec.dest \in Addresses /\ spec.num \in 0 .. Width
      BY <3>1, RangeConstants DEF Specs, Texts, ParsesSpec
    <3>3. Network(spec.dest, spec.num) \in Addresses
      BY <3>2, NetworkType
    <3>4. ParseRouteSpec(spec) \in Blocks
      BY <3>2, <3>3 DEF ParseRouteSpec, Blocks
    <3> QED
      BY <3>4 DEF spec
  <2> QED
    BY <1>1, <1>12, <2>1 DEF FinishConnect, TypeOK, Phases
<1>13. ASSUME TeardownTunnel PROVE TypeOK'
  BY <1>1, <1>13, TeardownLeaves DEF TypeOK, Phases
<1>14. CASE UNCHANGED vars
  BY <1>14 DEF vars, TypeOK
<1> QED
  BY <1>2, <1>3, <1>4, <1>5, <1>6, <1>7, <1>8, <1>9, <1>11, <1>12, <1>13, <1>14
  DEF Next, RequestFailed, FinishConnectFails, Disconnect

\* No route is malformed: those of the kernel's table, the exception for the
\* gateway, and those announced have a destination and a prefix that exist.
THEOREM RoutesTypeCorrect == Spec => []TypeOK
<1> QED
  BY TypeInit, TypeStep, PTL DEF Spec

-----------------------------------------------------------------------------
(* The inductive invariant.                                                *)

Key(r) == [dest |-> r.dest, prefix |-> r.prefix]

Keys(routes) == {Key(r) : r \in routes}

GatewayKey == [dest |-> Gateway, prefix |-> Width]

DefaultKey == [dest |-> 0, prefix |-> 0]

\* What the kernel takes a specification for.
SpecKey(spec) == [dest |-> spec.dest, prefix |-> spec.num % 256]

InstalledKeys == {SpecKey(CollectRouteSpecs[i]) : i \in 1 .. next - 1}

ListedKeys == {SpecKey(spec) : spec \in SetOf(CollectRouteSpecs)}

OnTheTunnel == {r \in table : r.dev = "tun"}

GatewayIsInSubnet == config.default_route /\ Gateway \in Subnet

\* Until the first route is added by name, the attempt has only added the one
\* of its own subnet.
Beginning ==
  /\ phase \in {"created", "up"} => table = before
  /\ phase \in {"link", "bypass"} => table = before \cup Connected
  /\ phase \in {"link", "bypass", "default", "routes", "finish", "announced"} =>
       hello_reply.assigned_ip # NoAddress
  /\ phase \in {"created", "up", "link", "bypass", "default"} => next = 1

\* The exception for the gateway is a host route, kept on the link unless the
\* gateway is in the subnet of the tunnel.
Exception ==
  /\ phase \in {"created", "up", "link", "down"} => bypass = {}
  /\ phase \in {"bypass", "default"} => config.default_route
  /\ ~config.default_route => bypass = {}
  /\ phase \in {"bypass", "default", "routes", "finish", "announced"} /\ config.default_route =>
       bypass # {}
  /\ \A r, s \in bypass : r = s
  /\ \A r \in bypass : Key(r) = GatewayKey /\ (r.dev = "tun" => Gateway \in Subnet)

\* Only an attempt that failed or was torn down has a request that failed, and
\* such as matters was about a host route to the gateway.
Unconfirmed ==
  /\ phase \notin {"failed", "down"} => unconfirmed = {}
  /\ \A r \in unconfirmed : Key(r) = GatewayKey

\* The routes of the link are those of the host, the exception and one that was
\* not confirmed.
OfTheLink ==
  /\ \A r \in table : r.dev = "link" =>
       r \in before \/ (r \in bypass /\ phase # "bypass") \/ r \in unconfirmed
  /\ phase \in {"failed", "down"} => OnTheTunnel = {}

\* The host misses only what was replaced, by a request that may have failed.
Missing ==
  \A r \in before \ table :
    \/ config.default_route /\ Key(r) \in {DefaultKey, GatewayKey}
    \/ Key(r) \in ListedKeys

\* The kernel has taken every specification it was given, and no link route
\* keeps a place that one of them has taken.
Taken ==
  /\ \A i \in 1 .. next - 1 : i \in DOMAIN CollectRouteSpecs /\ ~RefusesSpec(CollectRouteSpecs[i])
  /\ phase \in {"finish", "announced"} => next > Len(CollectRouteSpecs)
  /\ \A r \in table : Key(r) \in InstalledKeys => r.dev = "tun"

\* The routes of the tunnel.
OfTheTunnel ==
  /\ phase = "default" /\ ~GatewayIsInSubnet => Keys(OnTheTunnel) = Keys(Connected)
  /\ phase \in {"routes", "finish", "announced"} /\ ~GatewayIsInSubnet =>
       Keys(OnTheTunnel) = Keys(Connected) \cup InstalledKeys
                             \cup IF config.default_route THEN {DefaultKey} ELSE {}

\* With the default route through the tunnel: no route of the link has its
\* place, and the exception stands unless a specification has taken it.
FullTunnel ==
  /\ phase \in {"routes", "finish", "announced"} /\ config.default_route =>
       /\ TunRoute(0, 0) \in table
       /\ \A r \in table : Key(r) = DefaultKey => r.dev = "tun"
  /\ phase \in {"default", "routes", "finish", "announced"} /\ config.default_route =>
       \/ GatewayKey \in InstalledKeys
       \/ bypass \subseteq table /\ \A r \in table : Key(r) = GatewayKey => r \in bypass

\* What NetworkManager was given.
Given ==
  phase = "announced" =>
    /\ CanAnnounce
    /\ announced = {ParseRouteSpec(spec) : spec \in SetOf(CollectRouteSpecs)}
    /\ servers = CollectDnsServers
    /\ domains = AnnouncedDomains

RoutesInv ==
  /\ TypeOK
  /\ Beginning
  /\ Exception
  /\ Unconfirmed
  /\ OfTheLink
  /\ Missing
  /\ Taken
  /\ OfTheTunnel
  /\ FullTunnel
  /\ Given

\* The keys of routes are compared by field.
LEMMA SameKey ==
  ASSUME NEW r, NEW s
  PROVE  Key(r) = Key(s) <=> r.dest = s.dest /\ r.prefix = s.prefix
BY DEF Key

\* A route that is added takes the place of those with its key.
LEMMA RouteAddedIs ==
  ASSUME NEW route, NEW r
  PROVE  r \in RouteAdded(route) <=> r = route \/ (r \in table /\ Key(r) # Key(route))
BY SameKey DEF RouteAdded

\* The key and the device of a route through the tunnel.
LEMMA TunRouteIs ==
  ASSUME NEW d, NEW p
  PROVE  Key(TunRoute(d, p)) = [dest |-> d, prefix |-> p] /\ TunRoute(d, p).dev = "tun"
BY DEF TunRoute, Key

\* The loop begins with none of the specifications.
LEMMA NothingInstalledYet == next = 1 => InstalledKeys = {} /\ 1 .. next - 1 = {}
<1>1. next = 1 => 1 .. next - 1 = {}
  OBVIOUS
<1> QED
  BY <1>1 DEF InstalledKeys

\* The specifications the kernel was given, as the loop proceeds.
LEMMA InstalledKeysGrow ==
  ASSUME TypeOK, UNCHANGED given
  PROVE  /\ next' = next => InstalledKeys' = InstalledKeys
         /\ next' = next + 1 =>
              InstalledKeys' = InstalledKeys \cup {SpecKey(CollectRouteSpecs[next])}
<1>1. CollectRouteSpecs' = CollectRouteSpecs
  BY GivenDecides
<1>2. next \in Nat \ {0}
  BY DEF TypeOK
<1>3. next' = next + 1 => 1 .. next' - 1 = (1 .. next - 1) \cup {next}
  BY <1>2
<1>4. InstalledKeys' = {SpecKey(CollectRouteSpecs[i]) : i \in 1 .. next' - 1}
  BY <1>1 DEF InstalledKeys, SpecKey
<1> QED
  BY <1>3, <1>4 DEF InstalledKeys

\* What the exception for the gateway is added to.
LEMMA BypassAdded ==
  ASSUME Exception, phase = "bypass"
  PROVE  /\ config.default_route
         /\ \E b : /\ bypass = {b} /\ Key(b) = GatewayKey
                  /\ UNION {RouteAdded(r) : r \in bypass} = RouteAdded(b)
<1>1. PICK b \in bypass : config.default_route
  BY DEF Exception
<1>2. bypass = {b} /\ Key(b) = GatewayKey
  BY <1>1 DEF Exception
<1> QED
  BY <1>1, <1>2

\* A request that failed removes a route of the link only by one that the kernel
\* has put in its place.
LEMMA FailureKeeps ==
  ASSUME TypeOK, Exception, RequestFailed, NEW r \in table \ table', r.dev # "tun"
  PROVE  \/ config.default_route /\ Key(r) \in {DefaultKey, GatewayKey}
         \/ Key(r) \in ListedKeys
<1> USE DEF RequestFails
<1>1. CASE NetlinkFails
  <2>1. phase = "default" /\ r \notin RouteAdded(TunRoute(0, 0))
    BY <1>1 DEF NetlinkFails, WithoutTun
  <2>2. Key(r) = DefaultKey
    BY <2>1, RouteAddedIs, TunRouteIs DEF DefaultKey
  <2> QED
    BY <2>1, <2>2 DEF Exception
<1>2. CASE AddBypassRouteFails
  <2>1. phase = "bypass" /\ r \notin UNION {RouteAdded(b) : b \in bypass}
    BY <1>2 DEF AddBypassRouteFails, WithoutTun
  <2>2. PICK b : Key(b) = GatewayKey /\ r \notin RouteAdded(b) /\ config.default_route
    BY <2>1, BypassAdded
  <2> QED
    BY <2>2, RouteAddedIs
<1>3. CASE AddRouteFails
  <2> DEFINE spec == CollectRouteSpecs[next]
  <2>1. spec \in SetOf(CollectRouteSpecs) /\ r \notin RouteAdded(TunRoute(spec.dest, spec.num % 256))
    BY <1>3 DEF AddRouteFails, AtSpec, WithoutTun, SetOf
  <2> HIDE DEF spec
  <2>2. Key(r) = SpecKey(spec)
    BY <2>1, RouteAddedIs, TunRouteIs DEF SpecKey
  <2> QED
    BY <2>1, <2>2 DEF ListedKeys
<1> QED
  BY <1>1, <1>2, <1>3 DEF RequestFailed

\* The invariant holds before the first request to the kernel.
LEMMA InvInit == Init => RoutesInv
<1> SUFFICES ASSUME Init PROVE RoutesInv
  OBVIOUS
<1>1. TypeOK
  BY TypeInit
<1>2. phase = "created" /\ table = before /\ next = 1 /\ bypass = {} /\ unconfirmed = {}
  BY DEF Init
<1>3. InstalledKeys = {} /\ 1 .. next - 1 = {}
  BY <1>2, NothingInstalledYet
<1>4. \A r \in table : r.dev = "link" /\ r \in before
  BY <1>1, <1>2, RoutesConstants DEF TypeOK
<1>5. Beginning /\ Exception /\ Unconfirmed /\ OfTheLink /\ Missing
  BY <1>2, <1>4 DEF Beginning, Exception, Unconfirmed, OfTheLink, Missing, OnTheTunnel
<1>6. Taken /\ OfTheTunnel /\ FullTunnel /\ Given
  BY <1>2, <1>3 DEF Taken, OfTheTunnel, FullTunnel, Given
<1> QED
  BY <1>1, <1>5, <1>6 DEF RoutesInv

\* Before the routes of the list, the table changes only by the subnet.
LEMMA BeginningStep == RoutesInv /\ [Next]_vars => Beginning'
<1> SUFFICES ASSUME RoutesInv, [Next]_vars PROVE Beginning'
  OBVIOUS
<1> USE DEF RoutesInv, Goes, given, ip4_config
<1>1. UNCHANGED given => Connected' = Connected
  BY GivenDecides
<1>2. CASE LinkUp
  BY <1>2 DEF LinkUp, Beginning
<1>3. CASE AddAddress
  BY <1>1, <1>3 DEF AddAddress, Beginning
<1>4. CASE LookUpGateway
  BY <1>1, <1>4 DEF LookUpGateway, Beginning
<1>5. CASE AddBypassRoute
  BY <1>5 DEF AddBypassRoute, Beginning
<1>6. CASE AddDefaultRoute \/ KeepDefaultRoute
  BY <1>6 DEF AddDefaultRoute, KeepDefaultRoute, Beginning
<1>7. CASE AddRouteFromSpec
  BY <1>7 DEF AddRouteFromSpec, AtSpec, Beginning
<1>8. CASE RequestFailed
  BY <1>8, FailureLeaves DEF Beginning
<1>9. CASE Configured \/ FinishConnect
  BY <1>9 DEF Configured, FinishConnect, Beginning
<1>10. CASE TeardownTunnel
  BY <1>10, TeardownLeaves DEF Beginning
<1>11. CASE UNCHANGED vars
  BY <1>1, <1>11 DEF vars, Beginning
<1> QED
  BY <1>2, <1>3, <1>4, <1>5, <1>6, <1>7, <1>8, <1>9, <1>10, <1>11
  DEF Next, FinishConnectFails, Disconnect, RequestFailed

\* The exception is made once, from the route the gateway had.
LEMMA ExceptionStep == RoutesInv /\ [Next]_vars => Exception'
<1> SUFFICES ASSUME RoutesInv, [Next]_vars PROVE Exception'
  OBVIOUS
<1> USE DEF RoutesInv, Goes, given, ip4_config
<1>1. UNCHANGED given => Subnet' = Subnet
  BY GivenDecides DEF Subnet
<1>2. CASE UNCHANGED <<given, phase, bypass>>
  BY <1>1, <1>2 DEF Exception, Key, GatewayKey
<1>3. CASE LinkUp \/ AddAddress \/ KeepDefaultRoute
  BY <1>1, <1>3 DEF LinkUp, AddAddress, KeepDefaultRoute, Exception, Key, GatewayKey
<1>4. CASE LookUpGateway
  <2> DEFINE route == RouteOf(Gateway)
             b == [route EXCEPT !.dest = Gateway, !.prefix = Width]
  <2>1. route \in Matching(Gateway)
    BY <1>4, RouteOfIs DEF LookUpGateway, TypeOK
  <2>2. route \in table /\ Gateway \in Covers(route) /\ route \in Routes
    BY <2>1 DEF Matching, TypeOK
  <2> HIDE DEF route
  <2>3. b.dest = Gateway /\ b.prefix = Width /\ b.dev = route.dev
    BY <2>2, BypassRouteType
  <2>4. route.dev = "tun" => Gateway \in Subnet
    <3>1. table = before \cup Connected
      BY <1>4 DEF LookUpGateway, Beginning
    <3>2. \A r \in before : r.dev = "link"
      BY RoutesConstants DEF TypeOK
    <3> QED
      BY <2>2, <3>1, <3>2 DEF Subnet
  <2>5. bypass' = {b} /\ phase' = "bypass" /\ config'.default_route
    BY <1>4 DEF LookUpGateway, route
  <2> HIDE DEF b
  <2> QED
    BY <1>1, <1>4, <2>3, <2>4, <2>5 DEF Exception, Key, GatewayKey, LookUpGateway
<1>5. CASE AddBypassRoute \/ AddDefaultRoute
  BY <1>1, <1>5 DEF AddBypassRoute, AddDefaultRoute, Exception, Key, GatewayKey
<1>6. CASE RequestFailed
  BY <1>1, <1>6, FailureLeaves DEF Exception, Key, GatewayKey
<1>7. CASE Configured \/ FinishConnect
  BY <1>1, <1>7 DEF Configured, FinishConnect, Exception, Key, GatewayKey
<1>8. CASE TeardownTunnel
  BY <1>8, TeardownLeaves DEF Exception
<1>9. AddRouteFromSpec \/ UNCHANGED vars => UNCHANGED <<given, phase, bypass>>
  BY DEF AddRouteFromSpec, vars
<1> QED
  BY <1>2, <1>3, <1>4, <1>5, <1>6, <1>7, <1>8, <1>9
  DEF Next, FinishConnectFails, Disconnect, RequestFailed

\* Only a request about the bypass route that fails is kept in mind.
LEMMA UnconfirmedStep == RoutesInv /\ [Next]_vars => Unconfirmed'
<1> SUFFICES ASSUME RoutesInv, [Next]_vars PROVE Unconfirmed'
  OBVIOUS
<1> USE DEF RoutesInv, Goes, given
<1>1. \A r \in unconfirmed \cup bypass : Key(r) = GatewayKey
  BY DEF Unconfirmed, Exception
<1>2. CASE RequestFailed
  BY <1>1, <1>2, FailureLeaves DEF Unconfirmed, Key, GatewayKey
<1>3. CASE TeardownTunnel
  BY <1>1, <1>3, TeardownLeaves DEF Unconfirmed, Key, GatewayKey
<1>4. CASE UNCHANGED <<phase, unconfirmed>> \/ (phase \notin {"failed", "down"} /\ UNCHANGED unconfirmed)
  BY <1>4 DEF Unconfirmed, Key, GatewayKey
<1>5. RequestFailed \/ TeardownTunnel \/ UNCHANGED <<phase, unconfirmed>>
        \/ (phase \notin {"failed", "down"} /\ UNCHANGED unconfirmed)
  BY DEF Next, LinkUp, AddAddress, LookUpGateway, AddBypassRoute, AddDefaultRoute,
         KeepDefaultRoute, AddRouteFromSpec, Configured, FinishConnect, FinishConnectFails,
         Disconnect, RequestFailed, vars
<1> QED
  BY <1>2, <1>3, <1>4, <1>5

\* No step but the adding of the exception puts a route on the link.
LEMMA OfTheLinkStep == RoutesInv /\ [Next]_vars => OfTheLink'
<1> SUFFICES ASSUME RoutesInv, [Next]_vars PROVE OfTheLink'
  OBVIOUS
<1> USE DEF RoutesInv, Goes, given, ip4_config
<1> DEFINE Old(r) == r \in before \/ (r \in bypass /\ phase # "bypass") \/ r \in unconfirmed
<1>1. \A r \in table : r.dev = "link" => Old(r)
  BY DEF OfTheLink
<1>2. CASE UNCHANGED <<before, table, bypass, unconfirmed>> /\ phase' \notin {"failed", "down"}
           /\ (phase' = "bypass" => phase = "bypass")
  BY <1>1, <1>2 DEF OfTheLink
<1>3. CASE AddAddress
  <2>1. \A r \in Connected : r.dev = "tun"
    BY <1>3, ConnectedType DEF AddAddress, TypeOK
  <2> QED
    BY <1>1, <1>3, <2>1 DEF AddAddress, OfTheLink
<1>4. CASE LookUpGateway
  <2>1. bypass = {}
    BY <1>4 DEF LookUpGateway, Exception
  <2> QED
    BY <1>1, <1>4, <2>1 DEF LookUpGateway, OfTheLink
<1>5. CASE AddBypassRoute
  <2>1. PICK b : bypass = {b} /\ Key(b) = GatewayKey /\ table' = RouteAdded(b)
    BY <1>5, BypassAdded DEF AddBypassRoute
  <2>2. \A r \in table' : r = b \/ r \in table
    BY <2>1, RouteAddedIs
  <2> QED
    BY <1>1, <1>5, <2>1, <2>2 DEF AddBypassRoute, OfTheLink
<1>6. CASE AddDefaultRoute
  <2>1. \A r \in table' : r.dev = "tun" \/ r \in table
    BY <1>6, RouteAddedIs, TunRouteIs DEF AddDefaultRoute
  <2> QED
    BY <1>1, <1>6, <2>1 DEF AddDefaultRoute, OfTheLink
<1>7. CASE AddRouteFromSpec
  <2>1. \A r \in table' : r.dev = "tun" \/ r \in table
    BY <1>7, RouteAddedIs, TunRouteIs DEF AddRouteFromSpec
  <2> QED
    BY <1>1, <1>7, <2>1 DEF AddRouteFromSpec, AtSpec, OfTheLink
<1>8. CASE RequestFailed
  BY <1>1, <1>8, FailureLeaves DEF OfTheLink, OnTheTunnel
<1>9. CASE TeardownTunnel
  <2>1. \A r \in table' : r.dev = "link" => r \in before \/ r \in unconfirmed'
    BY <1>1, <1>9, TeardownLeaves
  <2> QED
    BY <1>9, <2>1, TeardownLeaves DEF OfTheLink, OnTheTunnel
<1>10. CASE UNCHANGED vars
  BY <1>10 DEF OfTheLink, OnTheTunnel, vars
<1>11. LinkUp \/ KeepDefaultRoute \/ Configured \/ FinishConnect
         => UNCHANGED <<before, table, bypass, unconfirmed>> /\ phase' \notin {"failed", "down", "bypass"}
  BY DEF LinkUp, KeepDefaultRoute, Configured, FinishConnect
<1> QED
  BY <1>2, <1>3, <1>4, <1>5, <1>6, <1>7, <1>8, <1>9, <1>10, <1>11
  DEF Next, FinishConnectFails, Disconnect, RequestFailed

\* No step removes a route of the host but by putting one in its place.
LEMMA MissingStep == RoutesInv /\ [Next]_vars => Missing'
<1> SUFFICES ASSUME RoutesInv, [Next]_vars PROVE Missing'
  OBVIOUS
<1> USE DEF RoutesInv, Goes, given, ip4_config
<1> DEFINE Replaced(r) == \/ config.default_route /\ Key(r) \in {DefaultKey, GatewayKey}
                         \/ Key(r) \in ListedKeys
<1>1. \A r \in before \ table : Replaced(r)
  BY DEF Missing
<1>2. UNCHANGED given
  BY TeardownLeaves
  DEF Next, LinkUp, AddAddress, NetlinkFails, LookUpGateway, AddBypassRoute,
      AddBypassRouteFails, RequestFails, AddDefaultRoute, KeepDefaultRoute, AddRouteFromSpec,
      AddRouteFails, Configured, FinishConnect, FinishConnectFails, Disconnect, vars
<1>3. SUFFICES ASSUME NEW r \in before \cap table, r \notin table' PROVE Replaced(r)
  <2>1. CollectRouteSpecs' = CollectRouteSpecs
    BY <1>2, GivenDecides
  <2>2. ListedKeys' = ListedKeys
    BY <2>1 DEF ListedKeys, SetOf, SpecKey
  <2> QED
    BY <1>1, <1>2, <1>3, <2>2 DEF Missing, Key, DefaultKey, GatewayKey
<1>4. r.dev = "link"
  BY <1>3, RoutesConstants DEF TypeOK
<1>5. CASE UNCHANGED table
  BY <1>3, <1>5
<1>6. CASE AddAddress
  BY <1>3, <1>6 DEF AddAddress
<1>7. CASE AddBypassRoute
  BY <1>3, <1>7, BypassAdded, RouteAddedIs DEF AddBypassRoute
<1>8. CASE AddDefaultRoute
  <2>1. Key(TunRoute(0, 0)) = DefaultKey /\ config.default_route
    BY <1>8, TunRouteIs DEF Exception, AddDefaultRoute, DefaultKey
  <2> QED
    BY <1>3, <1>8, <2>1, RouteAddedIs DEF AddDefaultRoute
<1>9. CASE RequestFailed
  BY <1>3, <1>4, <1>9, FailureKeeps
<1>10. CASE TeardownTunnel
  BY <1>3, <1>4, <1>10, TeardownLeaves DEF Exception
<1>11. CASE AddRouteFromSpec
  <2> DEFINE spec == CollectRouteSpecs[next]
             route == TunRoute(spec.dest, spec.num % 256)
  <2>1. table' = RouteAdded(route) /\ spec \in SetOf(CollectRouteSpecs)
    BY <1>11 DEF AddRouteFromSpec, AtSpec, SetOf
  <2>2. Key(route) = SpecKey(spec)
    BY TunRouteIs DEF SpecKey
  <2> HIDE DEF route, spec
  <2>3. Key(r) = SpecKey(spec)
    BY <1>3, <2>1, <2>2, RouteAddedIs
  <2> QED
    BY <2>1, <2>3 DEF ListedKeys
<1>12. LinkUp \/ LookUpGateway \/ KeepDefaultRoute \/ Configured \/ FinishConnect
         \/ UNCHANGED vars => UNCHANGED table
  BY DEF LinkUp, LookUpGateway, KeepDefaultRoute, Configured, FinishConnect, vars
<1> QED
  BY <1>5, <1>6, <1>7, <1>8, <1>9, <1>10, <1>11, <1>12
  DEF Next, FinishConnectFails, Disconnect, RequestFailed

\* A route of a specification is one of the tunnel with its key.
LEMMA RouteFromSpecAdded ==
  ASSUME TypeOK, AddRouteFromSpec
  PROVE  LET spec  == CollectRouteSpecs[next]
             route == TunRoute(spec.dest, spec.num % 256)
         IN  /\ next \in DOMAIN CollectRouteSpecs
             /\ ~RefusesSpec(spec)
             /\ Key(route) = SpecKey(spec) /\ route.dev = "tun"
             /\ table' = RouteAdded(route)
             /\ next' = next + 1
             /\ InstalledKeys' = InstalledKeys \cup {SpecKey(spec)}
             /\ UNCHANGED <<given, phase, bypass, unconfirmed, ip4_config>>
<1>1. next' = next + 1 /\ UNCHANGED given
  BY DEF AddRouteFromSpec
<1>2. InstalledKeys' = InstalledKeys \cup {SpecKey(CollectRouteSpecs[next])}
  BY <1>1, InstalledKeysGrow
<1> QED
  BY <1>1, <1>2, TunRouteIs DEF AddRouteFromSpec, AtSpec, RefusesSpec, SpecKey

\* The loop goes on only behind a specification that the kernel took.
LEMMA TakenStep == RoutesInv /\ [Next]_vars => Taken'
<1> SUFFICES ASSUME RoutesInv, [Next]_vars PROVE Taken'
  OBVIOUS
<1> USE DEF RoutesInv, Goes, given, ip4_config
<1>1. ASSUME UNCHANGED <<given, next>>,
             \A r \in table' : r \in table \/ Key(r) \notin InstalledKeys \/ r.dev = "tun",
             phase' \in {"finish", "announced"} =>
               phase \in {"finish", "announced"} \/ next > Len(CollectRouteSpecs)
      PROVE  Taken'
  <2>1. InstalledKeys' = InstalledKeys /\ CollectRouteSpecs' = CollectRouteSpecs
    BY <1>1, InstalledKeysGrow, GivenDecides
  <2> QED
    BY <1>1, <2>1 DEF Taken, Key, RefusesSpec, KernelAccepts
<1>2. phase \in {"created", "up", "link", "bypass", "default"} => InstalledKeys = {}
  BY NothingInstalledYet DEF Beginning
<1>3. CASE LinkUp \/ AddAddress \/ KeepDefaultRoute \/ AddBypassRoute \/ LookUpGateway
             \/ AddDefaultRoute
  <2>1. InstalledKeys = {}
    BY <1>2, <1>3 DEF LinkUp, AddAddress, KeepDefaultRoute, AddBypassRoute, LookUpGateway,
                      AddDefaultRoute
  <2> QED
    BY <1>1, <1>3, <2>1 DEF LinkUp, AddAddress, KeepDefaultRoute, AddBypassRoute,
                            LookUpGateway, AddDefaultRoute
<1>4. CASE AddRouteFromSpec
  <2> DEFINE spec == CollectRouteSpecs[next]
             route == TunRoute(spec.dest, spec.num % 256)
  <2>1. /\ next \in DOMAIN CollectRouteSpecs /\ ~RefusesSpec(spec)
        /\ Key(route) = SpecKey(spec) /\ route.dev = "tun"
        /\ table' = RouteAdded(route) /\ next' = next + 1
        /\ InstalledKeys' = InstalledKeys \cup {SpecKey(spec)}
        /\ UNCHANGED given /\ phase' = "routes"
    BY <1>4, RouteFromSpecAdded DEF AddRouteFromSpec, AtSpec
  <2>2. CollectRouteSpecs' = CollectRouteSpecs
    BY <2>1, GivenDecides
  <2>3. \A i \in 1 .. next' - 1 : i \in 1 .. next - 1 \/ i = next
    BY <2>1 DEF TypeOK
  <2>4. \A i \in 1 .. next' - 1 :
          i \in DOMAIN CollectRouteSpecs /\ ~RefusesSpec(CollectRouteSpecs[i])
    BY <2>1, <2>3 DEF Taken
  <2> HIDE DEF route, spec
  <2>5. \A r \in table' : Key(r) \in InstalledKeys' => r.dev = "tun"
    BY <2>1, RouteAddedIs DEF Taken
  <2> QED
    BY <2>1, <2>2, <2>4, <2>5 DEF Taken, RefusesSpec, KernelAccepts, Key
<1>5. CASE RequestFailed
  <2>1. \A r \in table' : r \in table \/ InstalledKeys = {}
    BY <1>2, <1>5, FailureLeaves
  <2> QED
    BY <1>1, <1>5, <2>1, FailureLeaves
<1>6. CASE Configured \/ FinishConnect
  BY <1>1, <1>6 DEF Configured, FinishConnect
<1>7. CASE TeardownTunnel
  <2>1. \A r \in table' : r \in table
    BY <1>7, TeardownLeaves
  <2> QED
    BY <1>1, <1>7, <2>1, TeardownLeaves
<1>8. CASE UNCHANGED vars
  BY <1>1, <1>8 DEF vars
<1> QED
  BY <1>3, <1>4, <1>5, <1>6, <1>7, <1>8
  DEF Next, FinishConnectFails, Disconnect, RequestFailed

\* What is added to the tunnel is what the step was to add.
LEMMA OfTheTunnelStep == RoutesInv /\ [Next]_vars => OfTheTunnel'
<1> SUFFICES ASSUME RoutesInv, [Next]_vars PROVE OfTheTunnel'
  OBVIOUS
<1> USE DEF RoutesInv, Goes, given, ip4_config
<1> DEFINE Full == IF config.default_route THEN {DefaultKey} ELSE {}
<1>1. ASSUME UNCHANGED given
      PROVE  /\ Keys(Connected)' = Keys(Connected)
             /\ GatewayIsInSubnet' = GatewayIsInSubnet
             /\ Full' = Full
             /\ UNCHANGED next => InstalledKeys' = InstalledKeys
  BY <1>1, GivenDecides, InstalledKeysGrow DEF Keys, Key, GatewayIsInSubnet, Subnet, DefaultKey
<1>2. UNCHANGED table => Keys(OnTheTunnel)' = Keys(OnTheTunnel)
  BY DEF Keys, Key, OnTheTunnel
<1>3. CASE UNCHANGED <<given, next, phase, table>>
  BY <1>1, <1>2, <1>3 DEF OfTheTunnel
<1>4. CASE LinkUp \/ AddAddress \/ LookUpGateway
  BY <1>4 DEF LinkUp, AddAddress, LookUpGateway, OfTheTunnel
<1>5. phase \in {"link", "bypass"} => OnTheTunnel = Connected
  <2>1. \A r \in before : r.dev # "tun"
    BY RoutesConstants DEF TypeOK
  <2> QED
    BY <2>1, ConnectedType DEF Beginning, OnTheTunnel, TypeOK
<1>6. CASE KeepDefaultRoute
  <2>1. OnTheTunnel = Connected /\ InstalledKeys = {} /\ ~config.default_route
    BY <1>5, <1>6, NothingInstalledYet DEF KeepDefaultRoute, Beginning
  <2> QED
    BY <1>1, <1>2, <1>6, <2>1 DEF OfTheTunnel, KeepDefaultRoute
<1>7. CASE AddBypassRoute
  <2> SUFFICES ASSUME ~GatewayIsInSubnet PROVE Keys(OnTheTunnel)' = Keys(Connected)
    BY <1>1, <1>7 DEF AddBypassRoute, OfTheTunnel
  <2>1. PICK b : bypass = {b} /\ Key(b) = GatewayKey /\ table' = RouteAdded(b)
    BY <1>7, BypassAdded DEF AddBypassRoute
  <2>2. Key(b) = GatewayKey /\ b.dev # "tun"
    BY <1>7, <2>1 DEF Exception, AddBypassRoute, GatewayIsInSubnet
  <2>3. OnTheTunnel = Connected /\ \A r \in Connected : Key(r) # GatewayKey
    BY <1>5, <1>7, ConnectedType DEF AddBypassRoute, Beginning, TypeOK, Key, GatewayKey
  <2>4. OnTheTunnel' = OnTheTunnel
    BY <2>1, <2>2, <2>3, RouteAddedIs DEF OnTheTunnel
  <2> QED
    BY <2>3, <2>4 DEF Keys, Key
<1>8. ASSUME NEW route, route.dev = "tun", table' = RouteAdded(route)
      PROVE  Keys(OnTheTunnel)' = Keys(OnTheTunnel) \cup {Key(route)}
  <2>1. OnTheTunnel' = {r \in OnTheTunnel : Key(r) # Key(route)} \cup {route}
    BY <1>8, RouteAddedIs DEF OnTheTunnel
  <2>2. Keys(OnTheTunnel)' = {Key(r) : r \in OnTheTunnel'}
    BY DEF Keys, Key
  <2> HIDE DEF OnTheTunnel
  <2> QED
    BY <2>1, <2>2 DEF Keys
<1>9. CASE AddDefaultRoute
  <2>1. Keys(OnTheTunnel)' = Keys(OnTheTunnel) \cup {DefaultKey}
    BY <1>8, <1>9, TunRouteIs DEF AddDefaultRoute, DefaultKey
  <2>2. InstalledKeys = {} /\ config.default_route
    BY <1>9, NothingInstalledYet DEF AddDefaultRoute, Beginning, Exception
  <2> QED
    BY <1>1, <1>9, <2>1, <2>2 DEF AddDefaultRoute, OfTheTunnel
<1>10. CASE AddRouteFromSpec
  <2> DEFINE spec == CollectRouteSpecs[next]
  <2>1. /\ Keys(OnTheTunnel)' = Keys(OnTheTunnel) \cup {SpecKey(spec)}
        /\ InstalledKeys' = InstalledKeys \cup {SpecKey(spec)}
        /\ UNCHANGED given /\ phase = "routes" /\ phase' = "routes"
    BY <1>8, <1>10, RouteFromSpecAdded DEF AddRouteFromSpec, AtSpec
  <2> HIDE DEF spec
  <2> QED
    BY <1>1, <2>1 DEF OfTheTunnel
<1>11. CASE Configured \/ FinishConnect
  BY <1>1, <1>2, <1>11 DEF Configured, FinishConnect, OfTheTunnel
<1>12. CASE RequestFailed \/ TeardownTunnel
  BY <1>12, FailureLeaves, TeardownLeaves DEF OfTheTunnel
<1> QED
  BY <1>3, <1>4, <1>6, <1>7, <1>9, <1>10, <1>11, <1>12
  DEF Next, FinishConnectFails, Disconnect, RequestFailed, vars

\* Neither the default route nor the exception is lost to a later route.
LEMMA FullTunnelStep == RoutesInv /\ [Next]_vars => FullTunnel'
<1> SUFFICES ASSUME RoutesInv, [Next]_vars PROVE FullTunnel'
  OBVIOUS
<1> USE DEF RoutesInv, Goes, given, ip4_config
<1>1. DefaultKey # GatewayKey /\ DefaultKey' = DefaultKey /\ GatewayKey' = GatewayKey
  BY RangeConstants DEF DefaultKey, GatewayKey
<1>2. UNCHANGED <<given, next>> => InstalledKeys' = InstalledKeys
  BY InstalledKeysGrow
<1>3. CASE UNCHANGED <<given, next, phase, table, bypass>>
  BY <1>1, <1>2, <1>3 DEF FullTunnel, Key
<1>4. CASE LinkUp \/ AddAddress \/ LookUpGateway \/ RequestFailed \/ TeardownTunnel
  BY <1>4, FailureLeaves, TeardownLeaves DEF LinkUp, AddAddress, LookUpGateway, FullTunnel
<1>5. CASE KeepDefaultRoute
  BY <1>5 DEF KeepDefaultRoute, FullTunnel
<1>6. CASE AddBypassRoute
  <2>1. PICK b : bypass = {b} /\ Key(b) = GatewayKey /\ table' = RouteAdded(b)
    BY <1>6, BypassAdded DEF AddBypassRoute
  <2>2. Key(b) = GatewayKey
    BY <2>1 DEF Exception
  <2>3. bypass \subseteq table' /\ \A r \in table' : Key(r) = GatewayKey => r \in bypass
    BY <2>1, <2>2, RouteAddedIs
  <2> QED
    BY <1>1, <1>6, <2>3 DEF AddBypassRoute, FullTunnel, Key
<1>7. CASE AddDefaultRoute
  <2> DEFINE route == TunRoute(0, 0)
  <2>1. table' = RouteAdded(route) /\ Key(route) = DefaultKey /\ route.dev = "tun"
    BY <1>7, TunRouteIs DEF AddDefaultRoute, DefaultKey
  <2> HIDE DEF route
  <2>2. route \in table' /\ \A r \in table' : Key(r) = DefaultKey => r.dev = "tun"
    BY <2>1, RouteAddedIs
  <2>3. phase = "default" /\ phase' = "routes" /\ UNCHANGED <<given, next, bypass>>
    BY <1>7 DEF AddDefaultRoute
  <2>4. config.default_route =>
          \/ GatewayKey \in InstalledKeys
          \/ bypass \subseteq table /\ \A r \in table : Key(r) = GatewayKey => r \in bypass
    BY <2>3 DEF FullTunnel
  <2>5. \A r \in bypass : Key(r) = GatewayKey
    BY DEF Exception
  <2>6. config.default_route =>
          \/ GatewayKey \in InstalledKeys
          \/ bypass \subseteq table' /\ \A r \in table' : Key(r) = GatewayKey => r \in bypass
    BY <1>1, <2>1, <2>4, <2>5, RouteAddedIs
  <2> QED
    BY <1>1, <1>2, <2>2, <2>3, <2>6 DEF FullTunnel, Key, route
<1>8. CASE AddRouteFromSpec
  <2> DEFINE spec == CollectRouteSpecs[next]
             route == TunRoute(spec.dest, spec.num % 256)
  <2>1. /\ Key(route) = SpecKey(spec) /\ route.dev = "tun"
        /\ table' = RouteAdded(route)
        /\ InstalledKeys' = InstalledKeys \cup {SpecKey(spec)}
        /\ UNCHANGED <<given, phase, bypass>> /\ phase = "routes"
    BY <1>8, RouteFromSpecAdded DEF AddRouteFromSpec, AtSpec
  <2>2. Key(route) = DefaultKey => route = TunRoute(0, 0)
    BY DEF Key, TunRoute, DefaultKey
  <2> HIDE DEF route, spec
  <2>3. config.default_route =>
          /\ TunRoute(0, 0) \in table'
          /\ \A r \in table' : Key(r) = DefaultKey => r.dev = "tun"
    <3>1. Key(TunRoute(0, 0)) = DefaultKey
      BY TunRouteIs DEF DefaultKey
    <3> QED
      BY <2>1, <2>2, <3>1, RouteAddedIs DEF FullTunnel
  <2>4. \A r \in bypass : Key(r) = GatewayKey
    BY DEF Exception
  <2>5. config.default_route =>
          \/ GatewayKey \in InstalledKeys'
          \/ bypass \subseteq table' /\ \A r \in table' : Key(r) = GatewayKey => r \in bypass
    BY <2>1, <2>4, RouteAddedIs DEF FullTunnel
  <2> QED
    BY <1>1, <2>1, <2>3, <2>5 DEF FullTunnel, Key
<1>9. CASE Configured \/ FinishConnect
  BY <1>1, <1>2, <1>9 DEF Configured, FinishConnect, FullTunnel, Key
<1> QED
  BY <1>3, <1>4, <1>5, <1>6, <1>7, <1>8, <1>9
  DEF Next, FinishConnectFails, Disconnect, RequestFailed, vars

\* finish_connect() gives NetworkManager what configure_interface() used.
LEMMA GivenStep == RoutesInv /\ [Next]_vars => Given'
<1> SUFFICES ASSUME RoutesInv, [Next]_vars PROVE Given'
  OBVIOUS
<1> USE DEF RoutesInv, Goes, given, ip4_config
<1>1. ASSUME UNCHANGED given
      PROVE  /\ CollectRouteSpecs' = CollectRouteSpecs
             /\ CollectDnsServers' = CollectDnsServers
             /\ AnnouncedDomains' = AnnouncedDomains
             /\ CanAnnounce' = CanAnnounce
  BY <1>1, GivenDecides DEF AnnouncedDomains, CanAnnounce, ParsesSpec, NormalizeSearchDomain
<1>2. CASE FinishConnect
  BY <1>1, <1>2 DEF FinishConnect, Given, SetOf, ParseRouteSpec
<1>3. CASE UNCHANGED vars
  BY <1>1, <1>3 DEF Given, vars, SetOf, ParseRouteSpec
<1>4. CASE phase' # "announced"
  BY <1>4 DEF Given
<1>5. CASE AddRouteFromSpec
  BY <1>5 DEF AddRouteFromSpec, AtSpec, Given
<1>6. CASE RequestFailed \/ TeardownTunnel
  BY <1>6, FailureLeaves, TeardownLeaves DEF Given
<1> QED
  BY <1>2, <1>3, <1>4, <1>5, <1>6
  DEF Next, LinkUp, AddAddress, LookUpGateway, AddBypassRoute, AddDefaultRoute,
      KeepDefaultRoute, Configured, FinishConnectFails, Disconnect, RequestFailed

\* The inductive invariant holds of every attempt.
THEOREM RoutesInvariant == Spec => []RoutesInv
<1>1. RoutesInv /\ [Next]_vars => RoutesInv'
  BY TypeStep, BeginningStep, ExceptionStep, UnconfirmedStep, OfTheLinkStep, MissingStep, TakenStep,
     OfTheTunnelStep, FullTunnelStep, GivenStep DEF RoutesInv
<1> QED
  BY InvInit, <1>1, PTL DEF Spec

-----------------------------------------------------------------------------
(* What the invariant implies.                                             *)

\* With the device gone and the exception off the record, the routes of the link
\* that are left are the old ones and what was not confirmed.
LEMMA TeardownUndoes == RoutesInv => TeardownUndoesRoutes
<1> SUFFICES ASSUME RoutesInv, phase = "down" PROVE
      /\ \A r \in table \ before :
           r \in unconfirmed /\ r.dest = Gateway /\ r.prefix = Width /\ r.dev = "link"
      /\ \A r \in before \ table :
           \/ config.default_route /\ r.prefix = 0
           \/ config.default_route /\ r.dest = Gateway /\ r.prefix = Width
           \/ \E spec \in SetOf(CollectRouteSpecs) :
                spec.dest = r.dest /\ spec.num % 256 = r.prefix
  BY DEF TeardownUndoesRoutes
<1> USE DEF RoutesInv
<1>1. ASSUME NEW r \in table \ before
      PROVE  r \in unconfirmed /\ r.dest = Gateway /\ r.prefix = Width /\ r.dev = "link"
  <2>1. r.dev = "link" /\ bypass = {}
    BY DEF OfTheLink, Exception, OnTheTunnel, TypeOK, Routes
  <2>2. r \in unconfirmed
    BY <2>1 DEF OfTheLink
  <2>3. Key(r) = GatewayKey
    BY <2>2 DEF Unconfirmed
  <2> QED
    BY <2>1, <2>2, <2>3 DEF Key, GatewayKey
<1>2. ASSUME NEW r \in before \ table, Key(r) \in ListedKeys
      PROVE  \E spec \in SetOf(CollectRouteSpecs) :
               spec.dest = r.dest /\ spec.num % 256 = r.prefix
  BY <1>2 DEF ListedKeys, Key, SpecKey
<1>3. ASSUME NEW r \in before \ table, Key(r) \notin ListedKeys
      PROVE  config.default_route /\ (r.prefix = 0 \/ (r.dest = Gateway /\ r.prefix = Width))
  <2>1. config.default_route /\ Key(r) \in {DefaultKey, GatewayKey}
    BY <1>3 DEF Missing
  <2> QED
    BY <2>1 DEF Key, DefaultKey, GatewayKey
<1> QED
  BY <1>1, <1>2, <1>3

\* What NetworkManager is told of a specification is what the kernel took it
\* for, when both accept it.
LEMMA ReadersAgree ==
  ASSUME NEW spec \in Specs, ~RefusesSpec(spec), ParsesSpec(spec)
  PROVE  ParseRouteSpec(spec) = SpecKey(spec) /\ ParseRouteSpec(spec) \in Blocks
<1>1. spec.num \in 0 .. Width /\ Width \in Nat /\ Width < 256
  BY RangeConstants, RoutesConstants DEF Specs, ParsesSpec
<1>2. spec.num % 256 = spec.num
  BY <1>1
<1>3. spec.dest = Network(spec.dest, spec.num) /\ spec.dest \in Addresses
  BY <1>2, AcceptedSpecType
<1> QED
  BY <1>1, <1>2, <1>3 DEF ParseRouteSpec, SpecKey, Blocks

\* When the attempt is announced the loop has been through the whole list.
LEMMA AnnouncedIsInstalled ==
  ASSUME RoutesInv, phase = "announced"
  PROVE  /\ announced = InstalledKeys
         /\ \A spec \in SetOf(CollectRouteSpecs) :
              /\ spec \in Specs /\ ~RefusesSpec(spec) /\ ParsesSpec(spec)
              /\ ParseRouteSpec(spec) = SpecKey(spec)
              /\ ParseRouteSpec(spec) \in Blocks
<1> USE DEF RoutesInv
<1>1. CollectRouteSpecs \in Seq(Specs)
  BY CollectRouteSpecsAre DEF TypeOK
<1>2. Len(CollectRouteSpecs) \in Nat /\ DOMAIN CollectRouteSpecs = 1 .. Len(CollectRouteSpecs)
  BY <1>1, LenProperties
<1>3. DOMAIN CollectRouteSpecs = 1 .. next - 1
  <2>1. \A i \in 1 .. next - 1 : i \in DOMAIN CollectRouteSpecs
    BY DEF Taken
  <2>2. next > Len(CollectRouteSpecs) /\ next \in Nat
    BY DEF Taken, TypeOK
  <2>3. 1 .. Len(CollectRouteSpecs) \subseteq 1 .. next - 1
    BY <1>2, <2>2
  <2> QED
    BY <1>2, <2>1, <2>3
<1>4. ASSUME NEW i \in DOMAIN CollectRouteSpecs
      PROVE  /\ CollectRouteSpecs[i] \in Specs
             /\ ~RefusesSpec(CollectRouteSpecs[i]) /\ ParsesSpec(CollectRouteSpecs[i])
  BY <1>3, SpecType DEF Taken, Given, CanAnnounce
<1>5. \A spec \in SetOf(CollectRouteSpecs) :
        spec \in Specs /\ ~RefusesSpec(spec) /\ ParsesSpec(spec)
  BY <1>4 DEF SetOf
<1>6. InstalledKeys = {SpecKey(spec) : spec \in SetOf(CollectRouteSpecs)}
  BY <1>3 DEF InstalledKeys, SetOf
<1> QED
  BY <1>5, <1>6, ReadersAgree DEF Given

\* So both sides hold the same routes.
LEMMA KernelAgrees == RoutesInv => KernelAgreesWithNM
<1> SUFFICES ASSUME RoutesInv, phase = "announced", ~GatewayIsInSubnet
             PROVE  Keys(OnTheTunnel) = announced \cup Keys(Connected)
                      \cup IF config.default_route THEN {DefaultKey} ELSE {}
  <2>1. table \ WithoutTun(table) = OnTheTunnel
    BY DEF WithoutTun, OnTheTunnel
  <2> QED
    BY <2>1 DEF KernelAgreesWithNM, GatewayIsInSubnet, Keys, Key, DefaultKey
<1>1. Keys(OnTheTunnel) = Keys(Connected) \cup InstalledKeys
                            \cup IF config.default_route THEN {DefaultKey} ELSE {}
  BY DEF RoutesInv, OfTheTunnel
<1> QED
  BY <1>1, AnnouncedIsInstalled

\* The host route to an address covers it and nothing else.
LEMMA HostRouteCovers ==
  ASSUME NEW r, r.prefix = Width, r.dest \in Int
  PROVE  Covers(r) = {r.dest}
BY RangeConstants DEF Covers

\* The default route of the tunnel has the place of that of the link, and the
\* exception is the longest route to the gateway.
LEMMA FullTunnelExact == RoutesInv => FullTunnelIsExact
<1> SUFFICES ASSUME RoutesInv, phase = "announced", config.default_route,
                    GatewayKey \notin announced, Gateway \notin Subnet
             PROVE  Elsewhere \ {Gateway} \subseteq Tunnelled /\ Gateway \notin Tunnelled
  BY DEF FullTunnelIsExact, GatewayKey
<1> USE DEF RoutesInv
<1>1. /\ TunRoute(0, 0) \in table
      /\ \A r \in table : Key(r) = DefaultKey => r.dev = "tun"
  BY DEF FullTunnel
<1>2. bypass \subseteq table /\ \A r \in table : Key(r) = GatewayKey => r \in bypass
  BY AnnouncedIsInstalled DEF FullTunnel
<1>3. \A r \in bypass : /\ r.dest = Gateway /\ r.prefix = Width /\ r.dev = "link"
                       /\ Covers(r) = {Gateway}
  <2>1. \A r \in bypass : r.dest = Gateway /\ r.prefix = Width /\ r.dev = "link"
    BY DEF Exception, Key, GatewayKey, TypeOK, Routes
  <2>2. Gateway \in Int
    BY RoutesConstants, RangeConstants DEF Addresses, LastAddress
  <2> QED
    BY <2>1, <2>2, HostRouteCovers
<1>4. table \subseteq Routes
  BY DEF TypeOK
<1>5. ASSUME NEW a \in Elsewhere \ {Gateway} PROVE a \in Tunnelled
  <2>1. a \in Addresses /\ \A r \in before : a \in Covers(r) => r.prefix = 0
    BY DEF Elsewhere
  <2>2. TunRoute(0, 0) \in Matching(a)
    <3>1. a \in Covers(TunRoute(0, 0))
      BY <2>1, RangeConstants DEF Covers, TunRoute, Addresses, LastAddress
    <3> QED
      BY <1>1, <3>1 DEF Matching
  <2>3. RouteOf(a) \in Matching(a) /\ Matching(a) # {}
    BY <1>4, <2>2, RouteOfIs
  <2> DEFINE r == RouteOf(a)
  <2>4. r \in table /\ a \in Covers(r) /\ r \in Routes
    BY <1>4, <2>3 DEF Matching
  <2> HIDE DEF r
  <2>5. r.dev # "link"
    <3> SUFFICES ASSUME r.dev = "link" PROVE FALSE
      OBVIOUS
    <3>1. r \in before \/ r \in bypass
      BY <2>4 DEF OfTheLink, Unconfirmed
    <3>2. r \in before
      BY <1>3, <2>4, <3>1
    <3>3. r.prefix = 0 /\ r.dest = Network(r.dest, r.prefix)
      BY <2>1, <2>4, <3>2, RoutesConstants DEF TypeOK
    <3>4. Key(r) = DefaultKey
      BY <2>4, <3>3, DefaultRouteIsZero DEF Key, DefaultKey
    <3> QED
      BY <1>1, <2>4, <3>4
  <2> QED
    BY <2>1, <2>3, <2>4, <2>5 DEF Tunnelled, Routes, r
<1>6. Gateway \notin Tunnelled
  <2>1. PICK b : b \in bypass
    BY DEF Exception
  <2>2. b \in Matching(Gateway)
    BY <1>2, <1>3, <2>1 DEF Matching
  <2> DEFINE r == RouteOf(Gateway)
  <2>3. r \in Matching(Gateway) /\ b.prefix <= r.prefix
    BY <1>4, <2>2, RouteOfIs
  <2>4. r \in table /\ Gateway \in Covers(r) /\ r \in Routes
    BY <1>4, <2>3 DEF Matching
  <2> HIDE DEF r
  <2>5. r.prefix = Width /\ r.dest \in Int
    <3>1. r.prefix \in 0 .. Width /\ r.dest \in Addresses /\ b.prefix = Width
      BY <1>3, <2>1, <2>4 DEF Routes
    <3> QED
      BY <2>3, <3>1, AddressesAreNumbers, RangeConstants
  <2>6. r.dest = Gateway
    BY <2>4, <2>5, HostRouteCovers
  <2>7. r \in bypass
    BY <1>2, <2>4, <2>5, <2>6 DEF Key, GatewayKey
  <2> QED
    BY <1>3, <2>7 DEF Tunnelled, r
<1> QED
  BY <1>5, <1>6

SubnetAddresses ==
  UNION {Covers(subnet) : subnet \in
           {s \in PrivateSubnets : Covers(s) \cap SetOf(UsedServers) # {}}}

\* The blocks of the ranges cover the ranges and nothing else.
LEMMA RangesAreCovered ==
  ASSUME hello_reply \in Replies
  PROVE  UNION {Covers(b) : b \in CidrsOfRanges} = Ranges
<1> DEFINE ranges == SetOf(hello_reply.ranges)
<1>1. \A range \in ranges : range.from \in Addresses /\ range.to \in Addresses
  <2> DEFINE list == hello_reply.ranges
  <2>1. list \in Seq([from : Addresses, to : Addresses]) /\ ranges = SetOf(list)
    BY RoutesConstants
  <2> HIDE DEF list, ranges
  <2>2. \A i \in DOMAIN list : list[i] \in [from : Addresses, to : Addresses]
    BY <2>1, LenProperties, ElementOfSeq
  <2>3. \A range \in ranges : range \in [from : Addresses, to : Addresses]
    BY <2>1, <2>2 DEF SetOf
  <2> QED
    BY <2>3
<1> HIDE DEF ranges
<1>2. \A range \in ranges :
        UNION {Covers(b) : b \in Cidrs(range.from, range.to)} = range.from .. range.to
  BY <1>1, CidrsCoverExactly
<1>3. CidrsOfRanges = UNION {Cidrs(range.from, range.to) : range \in ranges}
  BY DEF CidrsOfRanges, ranges
<1>4. Ranges = UNION {range.from .. range.to : range \in ranges}
  BY DEF Ranges, ranges
<1>5. ASSUME NEW a PROVE a \in Ranges <=> \E b \in CidrsOfRanges : a \in Covers(b)
  <2>1. a \in Ranges <=> \E range \in ranges : a \in range.from .. range.to
    BY <1>4
  <2>2. \A range \in ranges : a \in range.from .. range.to <=>
                              \E b \in Cidrs(range.from, range.to) : a \in Covers(b)
    BY <1>2
  <2>3. \A b : b \in CidrsOfRanges <=> \E range \in ranges : b \in Cidrs(range.from, range.to)
    BY <1>3
  <2> HIDE DEF CidrsOfRanges, Ranges
  <2> QED
    BY <2>1, <2>2, <2>3
<1> QED
  BY <1>5

\* The subnets of the servers are the private subnets that hold one of them.
LEMMA SubnetsAreCovered ==
  UNION {Covers(PrivateSubnet(server)) : server \in SetOf(UsedServers) \cap PrivateAddresses}
    = SubnetAddresses
<1> DEFINE used == SetOf(UsedServers)
<1>1. ASSUME NEW server \in used, NEW subnet \in PrivateSubnets, server \in Covers(subnet)
      PROVE  PrivateSubnet(server) = subnet
  <2>1. /\ PrivateSubnet(server) \in PrivateSubnets
        /\ server \in Covers(PrivateSubnet(server))
    BY <1>1 DEF PrivateSubnet
  <2> QED
    BY <1>1, <2>1, RoutesConstants
<1>2. \A server \in used \cap PrivateAddresses :
        \E subnet \in PrivateSubnets : server \in Covers(subnet)
  BY DEF PrivateAddresses
<1>3. \A server, subnet : subnet \in PrivateSubnets /\ server \in Covers(subnet) =>
        server \in PrivateAddresses
  BY DEF PrivateAddresses
<1>4. ASSUME NEW a
      PROVE  a \in SubnetAddresses <=>
               \E server \in used \cap PrivateAddresses : a \in Covers(PrivateSubnet(server))
  <2>1. a \in SubnetAddresses <=>
          \E subnet \in PrivateSubnets : a \in Covers(subnet) /\
            \E server \in used : server \in Covers(subnet)
    BY DEF SubnetAddresses
  <2> HIDE DEF used
  <2> QED
    BY <1>1, <1>2, <1>3, <2>1
<1> QED
  BY <1>4

\* A specification the connection has written is read back as its block.
LEMMA WrittenIsRead ==
  ASSUME NEW d, NEW p, FormatSpec([dest |-> d, prefix |-> p]) \in Specs,
         ~RefusesSpec(FormatSpec([dest |-> d, prefix |-> p])),
         ParsesSpec(FormatSpec([dest |-> d, prefix |-> p]))
  PROVE  ParseRouteSpec(FormatSpec([dest |-> d, prefix |-> p])) = [dest |-> d, prefix |-> p]
<1> DEFINE spec == FormatSpec([dest |-> d, prefix |-> p])
<1>1. spec.dest = d /\ spec.num = p
  BY DEF FormatSpec
<1> HIDE DEF spec
<1>2. ParseRouteSpec(spec) = SpecKey(spec)
  BY ReadersAgree DEF spec
<1> QED
  BY <1>1, <1>2 DEF ParseRouteSpec, SpecKey, spec

\* What NetworkManager is told covers what the connection was to reach.
LEMMA AnnouncedCovers ==
  ASSUME RoutesInv, phase = "announced"
  PROVE  UNION {Covers(b) : b \in announced} =
           Added \cup
           IF RoutesFromGateway
             THEN Ranges \cup SetOf(UsedServers)
                    \cup (IF InfersSubnets THEN SubnetAddresses ELSE {})
             ELSE {}
<1> DEFINE specs == SetOf(CollectRouteSpecs)
           added == SetOf(config.add_routes)
           used  == SetOf(UsedServers)
           On(set) == UNION {Covers(ParseRouteSpec(spec)) : spec \in set}
<1> USE DEF RoutesInv
<1>1. announced = {ParseRouteSpec(spec) : spec \in specs}
  BY DEF Given
<1>2. \A d, p : FormatSpec([dest |-> d, prefix |-> p]) \in specs =>
        ParseRouteSpec(FormatSpec([dest |-> d, prefix |-> p])) = [dest |-> d, prefix |-> p]
  BY AnnouncedIsInstalled, WrittenIsRead
<1>3. \A b \in Blocks : FormatSpec(b) \in specs => ParseRouteSpec(FormatSpec(b)) = b
  <2> TAKE b \in Blocks
  <2>1. b = [dest |-> b.dest, prefix |-> b.prefix]
    BY DEF Blocks
  <2> QED
    BY <1>2, <2>1
<1>4. UNION {Covers(b) : b \in announced} = On(specs)
  BY <1>1
<1>5. On(added) = Added
  BY DEF Added
<1>6. specs = added \cup
                IF RoutesFromGateway
                  THEN {FormatSpec(b) : b \in CidrsOfRanges} \cup HostSpecs
                         \cup (IF InfersSubnets THEN SubnetSpecs ELSE {})
                  ELSE {}
  BY CollectRouteSpecsAre DEF TypeOK
<1> HIDE DEF specs, added
<1>7. ASSUME RoutesFromGateway PROVE On({FormatSpec(b) : b \in CidrsOfRanges}) = Ranges
  <2>1. \A b \in CidrsOfRanges : b \in Blocks /\ FormatSpec(b) \in specs
    BY <1>6, <1>7 DEF CidrsOfRanges, Cidrs
  <2>2. \A b \in CidrsOfRanges : ParseRouteSpec(FormatSpec(b)) = b
    BY <1>3, <2>1
  <2>3. On({FormatSpec(b) : b \in CidrsOfRanges}) = UNION {Covers(b) : b \in CidrsOfRanges}
    BY <2>2
  <2> QED
    BY <2>3, RangesAreCovered DEF TypeOK
<1>8. ASSUME RoutesFromGateway PROVE On(HostSpecs) = used
  <2> DEFINE Host(server) == [dest |-> server, prefix |-> Width]
  <2>1. \A server \in used : FormatSpec(Host(server)) \in specs
    BY <1>6, <1>8 DEF HostSpecs
  <2>2. \A server \in used : ParseRouteSpec(FormatSpec(Host(server))) = Host(server)
    BY <1>2, <2>1
  <2>3. \A server \in used : server \in Int
    BY UsedServersAre, LenProperties, ElementOfSeq, RangeConstants
    DEF SetOf, Texts, NoAddress, Addresses, LastAddress, TypeOK
  <2>4. \A server \in used : Covers(Host(server)) = {server}
    BY <2>3, HostRouteCovers
  <2>5. HostSpecs = {FormatSpec(Host(server)) : server \in used}
    BY DEF HostSpecs
  <2> HIDE DEF Host, used
  <2>6. On(HostSpecs) = UNION {{server} : server \in used}
    BY <2>2, <2>4, <2>5
  <2> QED
    BY <2>6
<1>9. ASSUME RoutesFromGateway, InfersSubnets PROVE On(SubnetSpecs) = SubnetAddresses
  <2> DEFINE private == used \cap PrivateAddresses
  <2>1. SubnetSpecs = {FormatSpec(PrivateSubnet(server)) : server \in private}
    BY DEF SubnetSpecs
  <2>2. \A server \in private : PrivateSubnet(server) \in Blocks
    BY RoutesConstants DEF PrivateSubnet, PrivateAddresses
  <2>3. \A server \in private : FormatSpec(PrivateSubnet(server)) \in specs
    BY <1>6, <1>9, <2>1
  <2>4. \A server \in private :
          ParseRouteSpec(FormatSpec(PrivateSubnet(server))) = PrivateSubnet(server)
    BY <1>3, <2>2, <2>3
  <2>5. UNION {Covers(PrivateSubnet(server)) : server \in private} = SubnetAddresses
    BY SubnetsAreCovered
  <2> HIDE DEF private
  <2>6. On(SubnetSpecs) = UNION {Covers(PrivateSubnet(server)) : server \in private}
    BY <2>1, <2>4
  <2> QED
    BY <2>5, <2>6
<1>10. \A s, t : On(s \cup t) = On(s) \cup On(t)
  OBVIOUS
<1>11. On({}) = {}
  OBVIOUS
<1> HIDE DEF On, used
<1>12. CASE ~RoutesFromGateway
  <2>1. specs = added
    BY <1>6, <1>12
  <2> QED
    BY <1>4, <1>5, <1>12, <2>1
<1>13. CASE RoutesFromGateway
  <2>1. On(IF InfersSubnets THEN SubnetSpecs ELSE {}) = IF InfersSubnets THEN SubnetAddresses ELSE {}
    BY <1>9, <1>11, <1>13
  <2> DEFINE blocks  == {FormatSpec(b) : b \in CidrsOfRanges}
             subnets == IF InfersSubnets THEN SubnetSpecs ELSE {}
  <2>2. specs = added \cup (blocks \cup HostSpecs \cup subnets)
    BY <1>6, <1>13
  <2>3. On(blocks) = Ranges /\ On(HostSpecs) = used
    BY <1>7, <1>8, <1>13
  <2> HIDE DEF blocks, subnets
  <2>4. On(specs) = On(added) \cup On(blocks \cup HostSpecs \cup subnets)
    BY <1>10, <2>2
  <2>5. On(blocks \cup HostSpecs \cup subnets) = On(blocks \cup HostSpecs) \cup On(subnets)
    BY <1>10
  <2>6. On(blocks \cup HostSpecs) = On(blocks) \cup On(HostSpecs)
    BY <1>10
  <2> QED
    BY <1>4, <1>5, <1>13, <2>1, <2>3, <2>4, <2>5, <2>6 DEF used, subnets
<1> QED
  BY <1>12, <1>13

\* An address with no route of its own on the link takes the route of the tunnel
\* that covers it, and one is there for each address that was meant.
LEMMA SplitTunnelCarries ==
  ASSUME RoutesInv, phase = "announced", ~config.default_route
  PROVE  LET gateways == Ranges \cup SetOf(UsedServers)
                           \cup IF InfersSubnets THEN SubnetAddresses ELSE {}
             meant    == Added \cup Subnet \cup IF config.no_routing THEN {} ELSE gateways
         IN  Tunnelled \cap Elsewhere = meant \cap Elsewhere
<1> DEFINE used     == SetOf(UsedServers)
           gateways == Ranges \cup used
                         \cup IF InfersSubnets THEN SubnetAddresses ELSE {}
           meant    == Added \cup Subnet \cup IF config.no_routing THEN {} ELSE gateways
<1> SUFFICES Tunnelled \cap Elsewhere = meant \cap Elsewhere
  OBVIOUS
<1> USE DEF RoutesInv
<1> DEFINE covered == UNION {Covers(b) : b \in announced}
<1>1. meant = covered \cup Subnet
  <2>1. RoutesFromGateway <=> ~config.no_routing
    BY RoutesConstants DEF RoutesFromGateway, TypeOK
  <2>2. covered = Added \cup IF config.no_routing THEN {} ELSE gateways
    BY <2>1, AnnouncedCovers
  <2> HIDE DEF gateways, covered
  <2> QED
    BY <2>2
<1> HIDE DEF meant
<1>2. Keys(OnTheTunnel) = Keys(Connected) \cup announced
  BY AnnouncedIsInstalled DEF OfTheTunnel, GatewayIsInSubnet
<1>3. table \subseteq Routes /\ bypass = {}
  BY DEF TypeOK, Exception
<1>4. \A r : Covers(r) = Covers(Key(r))
  BY DEF Covers, Key
<1>5. ASSUME NEW a PROVE a \in meant <=> \E r \in OnTheTunnel : a \in Covers(r)
  <2>1. /\ a \in Subnet <=> \E r \in Connected : a \in Covers(r)
        /\ a \in covered <=> \E b \in announced : a \in Covers(b)
    BY DEF Subnet
  <2>2. a \in meant <=> \/ \E b \in announced : a \in Covers(b)
                       \/ \E r \in Connected : a \in Covers(r)
    <3> HIDE DEF covered
    <3> QED
      BY <1>1, <2>1
  <2>3. (\E r \in Connected : a \in Covers(r)) <=> \E k \in Keys(Connected) : a \in Covers(k)
    BY <1>4 DEF Keys
  <2>4. (\E r \in OnTheTunnel : a \in Covers(r)) <=> \E k \in Keys(OnTheTunnel) : a \in Covers(k)
    BY <1>4 DEF Keys
  <2> QED
    BY <1>2, <2>2, <2>3, <2>4
<1>6. ASSUME NEW a \in Tunnelled PROVE a \in meant
  <2>1. RouteOf(a) \in Matching(a) /\ RouteOf(a).dev = "tun"
    BY <1>3, RouteOfIs DEF Tunnelled
  <2> QED
    BY <1>5, <2>1 DEF Matching, OnTheTunnel
<1>7. ASSUME NEW a \in meant \cap Elsewhere PROVE a \in Tunnelled
  <2>1. a \in Addresses /\ \A r \in before : a \in Covers(r) => r.prefix = 0
    BY DEF Elsewhere
  <2>2. PICK t \in OnTheTunnel : a \in Covers(t)
    BY <1>5
  <2>3. t \in Matching(a) /\ t \in Routes /\ t.dev = "tun"
    BY <1>3, <2>2 DEF Matching, OnTheTunnel
  <2> DEFINE r == RouteOf(a)
  <2>4. r \in Matching(a) /\ t.prefix <= r.prefix
    BY <1>3, <2>3, RouteOfIs
  <2>5. r \in table /\ a \in Covers(r) /\ r \in Routes
    BY <1>3, <2>4 DEF Matching
  <2> HIDE DEF r
  <2>6. r.dev # "link"
    <3> SUFFICES ASSUME r.dev = "link" PROVE FALSE
      OBVIOUS
    <3>1. r \in before
      BY <1>3, <2>5 DEF OfTheLink, Unconfirmed
    <3>2. r.prefix = 0 /\ r.dest = Network(r.dest, r.prefix)
      BY <2>1, <2>5, <3>1, RoutesConstants DEF TypeOK
    <3>3. r.dest = 0 /\ Key(r) = DefaultKey
      BY <2>5, <3>2, DefaultRouteIsZero DEF Key, DefaultKey
    <3>4. t.prefix = 0
      BY <2>3, <2>4, <3>2, RangeConstants DEF Routes
    <3>5. t.dest = 0
      <4>1. Key(t) \in Keys(Connected) \cup announced
        BY <1>2, <2>2 DEF Keys
      <4>2. CASE Key(t) \in announced
        <5>1. PICK spec \in SetOf(CollectRouteSpecs) : Key(t) = ParseRouteSpec(spec)
          BY <4>2 DEF Given
        <5>2. spec \in Specs /\ ~RefusesSpec(spec) /\ Key(t) = SpecKey(spec)
          BY <5>1, AnnouncedIsInstalled
        <5>3. spec.dest = Network(spec.dest, spec.num % 256)
          BY <5>2, AcceptedSpecType
        <5>4. t.dest = Network(t.dest, t.prefix)
          BY <5>2, <5>3 DEF Key, SpecKey
        <5> QED
          BY <2>3, <3>4, <5>4, DefaultRouteIsZero
      <4>3. CASE Key(t) \in Keys(Connected)
        <5>1. PICK c \in Connected : Key(t) = Key(c)
          BY <4>3 DEF Keys
        <5>2. c \in Routes /\ c.dest = Network(c.dest, c.prefix)
          BY <5>1, ConnectedType DEF TypeOK, Beginning
        <5>3. c.dest = t.dest /\ c.prefix = t.prefix
          BY <5>1, SameKey
        <5> QED
          BY <3>4, <5>2, <5>3, DefaultRouteIsZero
      <4> QED
        BY <4>1, <4>2, <4>3
    <3>6. Key(t) = DefaultKey /\ Key(t) \notin Keys(Connected)
      <4>1. \A c \in Connected : c.dest # 0
        BY ConnectedType DEF TypeOK, Beginning
      <4> QED
        BY <3>4, <3>5, <4>1 DEF Key, DefaultKey, Keys
    <3>7. DefaultKey \in InstalledKeys
      BY <1>2, <2>2, <3>6, AnnouncedIsInstalled DEF Keys
    <3> QED
      BY <2>5, <3>3, <3>7 DEF Taken
  <2> QED
    BY <2>1, <2>4, <2>5, <2>6 DEF Tunnelled, Routes, r
<1> QED
  BY <1>6, <1>7

\* The private subnets of the servers are those for which the gateway gives no
\* range and those left open.
LEMMA SplitTunnelExact == RoutesInv => SplitTunnelIsExact
<1> DEFINE carried  == Tunnelled \cap Elsewhere
           omitted  == UNION {Covers(s) : s \in OmittedSubnets}
           other    == UNION {Covers(s) : s \in ServedSubnets \ OmittedSubnets}
           inferred == IF InfersSubnets THEN SubnetAddresses ELSE {}
           Meant(more) == Added \cup Subnet
             \cup IF config.no_routing THEN {} ELSE Ranges \cup SetOf(UsedServers) \cup more
<1> SUFFICES ASSUME RoutesInv, phase = "announced", ~config.default_route
             PROVE  /\ Meant(omitted) \cap Elsewhere \subseteq carried
                    /\ carried \subseteq Meant(omitted) \cup IF config.no_routing THEN {} ELSE other
  BY DEF SplitTunnelIsExact
<1>1. inferred = omitted \cup other
  BY DEF OmittedSubnets, ServedSubnets, SubnetAddresses
<1>2. carried = Meant(inferred) \cap Elsewhere
  BY SplitTunnelCarries
<1> HIDE DEF carried, omitted, other, inferred
<1> QED
  BY <1>1, <1>2

-----------------------------------------------------------------------------
(* Search domains.                                                         *)

NamesOf(ds) == {d.name : d \in ds} \ {""}

\* No domain is there twice.
EachOnce(seq) == \A i, j \in DOMAIN seq : i # j => ~SameDomain(seq[i], seq[j])

\* One domain of the loop: its name is in unless it is ignored, and once.
LEMMA AppendNewDomainIs ==
  ASSUME NEW seq \in Seq(Domains), NEW domain \in Domains, EachOnce(seq)
  PROVE  LET result == AppendNewDomain(seq, domain)
         IN  /\ result \in Seq(Domains)
             /\ EachOnce(result)
             /\ SetOf(result) \subseteq SetOf(seq) \cup {domain}
             /\ NamesOf(SetOf(result)) =
                  NamesOf(SetOf(seq))
                    \cup (NamesOf({domain}) \ NamesOf(config.ignore_search_domains))
<1> DEFINE ignored == config.ignore_search_domains
           known   == \E i \in DOMAIN seq : SameDomain(seq[i], domain)
           longer  == Append(seq, domain)
<1>1. NamesOf({domain}) = {domain.name} \ {""}
  BY DEF NamesOf
<1>2. IsIgnored(domain) <=> domain.name \in NamesOf(ignored)
  BY DEF IsIgnored, SameDomain, NamesOf
<1>3. known <=> domain.name \in NamesOf(SetOf(seq))
  BY DEF SameDomain, NamesOf, SetOf
<1>4. CASE IsIgnored(domain) \/ known
  <2>1. AppendNewDomain(seq, domain) = seq
    BY <1>4 DEF AppendNewDomain
  <2> HIDE DEF ignored
  <2>2. NamesOf({domain}) \ NamesOf(ignored) \subseteq NamesOf(SetOf(seq))
    BY <1>1, <1>2, <1>3, <1>4
  <2> QED
    BY <2>1, <2>2 DEF ignored
<1>5. CASE ~IsIgnored(domain) /\ ~known
  <2>1. AppendNewDomain(seq, domain) = longer
    BY <1>5 DEF AppendNewDomain
  <2>2. /\ longer \in Seq(Domains) /\ DOMAIN longer = 1 .. Len(seq) + 1
        /\ DOMAIN seq = 1 .. Len(seq) /\ Len(seq) \in Nat
        /\ longer[Len(seq) + 1] = domain
        /\ \A i \in 1 .. Len(seq) : longer[i] = seq[i]
    BY AppendProperties, LenProperties
  <2> HIDE DEF longer
  <2>3. SetOf(longer) = SetOf(seq) \cup {domain}
    <3>1. \A i \in 1 .. Len(seq) + 1 : i \in 1 .. Len(seq) \/ i = Len(seq) + 1
      BY <2>2
    <3>2. \A i \in 1 .. Len(seq) : i \in 1 .. Len(seq) + 1
      BY <2>2
    <3>3. Len(seq) + 1 \in 1 .. Len(seq) + 1
      BY <2>2
    <3> QED
      BY <2>2, <3>1, <3>2, <3>3 DEF SetOf
  <2>4. NamesOf(SetOf(longer)) = NamesOf(SetOf(seq)) \cup NamesOf({domain})
    BY <2>3 DEF NamesOf
  <2>5. NamesOf({domain}) \ NamesOf(ignored) = NamesOf({domain})
    BY <1>1, <1>2, <1>5
  <2>6. EachOnce(longer)
    <3>1. ASSUME NEW i \in DOMAIN longer, NEW j \in DOMAIN longer, i # j
          PROVE  ~SameDomain(longer[i], longer[j])
      <4>1. CASE i \in DOMAIN seq /\ j \in DOMAIN seq
        BY <2>2, <3>1, <4>1 DEF EachOnce
      <4>2. CASE i \in DOMAIN seq /\ j = Len(seq) + 1
        BY <1>5, <2>2, <4>2
      <4>3. CASE i = Len(seq) + 1 /\ j \in DOMAIN seq
        BY <1>5, <2>2, <4>3 DEF SameDomain
      <4> QED
        BY <2>2, <3>1, <4>1, <4>2, <4>3
    <3> QED
      BY <3>1 DEF EachOnce
  <2> QED
    BY <2>1, <2>2, <2>3, <2>4, <2>5, <2>6
<1> QED
  BY <1>4, <1>5

WrittenDomains == hello_reply.search_domains \o config.search_domains

\* collect_search_domains(), domain by domain.
LEMMA CollectSearchDomainsUnfold ==
  ASSUME config \in Profiles, hello_reply \in Replies
  PROVE  \E f :
           /\ f[0] = <<>>
           /\ \A n \in 1 .. Len(WrittenDomains) :
                f[n] = AppendNewDomain(f[n - 1], WrittenDomains[n])
           /\ CollectSearchDomains = f[Len(WrittenDomains)]
<1> DEFINE all == WrittenDomains
           N == Len(all)
           Body(g) == [n \in 0 .. N |-> IF n = 0 THEN <<>> ELSE AppendNewDomain(g[n - 1], all[n])]
           step == [p \in Seq(Domains) \X (1 .. N) |-> AppendNewDomain(p[1], all[p[2]])]
           upTo == CHOOSE g : g = Body(g)
<1>1. N \in Nat /\ \A n \in 1 .. N : all[n] \in Domains
  <2>1. all \in Seq(Domains)
    BY RoutesConstants, ConcatIs DEF WrittenDomains
  <2> HIDE DEF all
  <2> QED
    BY <2>1, LenProperties, ElementOfSeq
<1>2. step \in [Seq(Domains) \X (1 .. N) -> Seq(Domains)] /\ <<>> \in Seq(Domains)
  <2>1. ASSUME NEW seq \in Seq(Domains), NEW domain \in Domains
        PROVE  AppendNewDomain(seq, domain) \in Seq(Domains)
    BY AppendProperties DEF AppendNewDomain
  <2> HIDE DEF N, all
  <2> QED
    BY <1>1, <2>1
<1>3. PICK f : Computes(f, Seq(Domains), <<>>, N, step)
  <2> HIDE DEF step, N, Body, upTo
  <2> QED
    BY <1>1, <1>2, RecursionExists
<1>4. ASSUME NEW n \in 1 .. N PROVE f[n] = AppendNewDomain(f[n - 1], all[n])
  <2>1. f[n - 1] \in Seq(Domains) /\ f[n] = step[<<f[n - 1], n>>]
    <3> HIDE DEF N, step
    <3>1. n - 1 \in 0 .. N
      BY <1>1
    <3> QED
      BY <1>3, <3>1 DEF Computes
  <2> QED
    BY <2>1
<1>5. f = Body(f)
  <2> HIDE DEF all
  <2> QED
    BY <1>1, <1>3, <1>4 DEF Computes
<1>6. upTo = Body(upTo)
  <2> HIDE DEF Body
  <2> QED
    BY <1>5
<1>7. CollectSearchDomains = upTo[N]
  BY DEF CollectSearchDomains, WrittenDomains
<1> HIDE DEF upTo
<1>8. upTo[0] = <<>> /\ \A n \in 1 .. N : upTo[n] = AppendNewDomain(upTo[n - 1], all[n])
  <2> HIDE DEF all
  <2> QED
    BY <1>1, <1>6
<1> QED
  BY <1>7, <1>8

\* Each name that is not ignored, once.
LEMMA CollectSearchDomainsAre ==
  ASSUME config \in Profiles, hello_reply \in Replies
  PROVE  /\ CollectSearchDomains \in Seq(Domains)
         /\ EachOnce(CollectSearchDomains)
         /\ SetOf(CollectSearchDomains) \subseteq SetOf(WrittenDomains)
         /\ NamesOf(SetOf(CollectSearchDomains)) =
              NamesOf(SetOf(WrittenDomains)) \ NamesOf(config.ignore_search_domains)
<1> DEFINE all == WrittenDomains
           N == Len(all)
           ignored == NamesOf(config.ignore_search_domains)
           First(n) == {all[k] : k \in 1 .. n}
<1>1. all \in Seq(Domains)
  BY RoutesConstants, ConcatIs DEF WrittenDomains
<1>2. PICK f : /\ f[0] = <<>>
               /\ \A n \in 1 .. N : f[n] = AppendNewDomain(f[n - 1], all[n])
               /\ CollectSearchDomains = f[N]
  BY CollectSearchDomainsUnfold
<1> HIDE DEF all
<1>3. N \in Nat /\ DOMAIN all = 1 .. N /\ \A k \in 1 .. N : all[k] \in Domains
  BY <1>1, LenProperties, ElementOfSeq
<1> HIDE DEF N
<1> DEFINE T == {n \in 0 .. N : /\ f[n] \in Seq(Domains)
                               /\ EachOnce(f[n])
                               /\ SetOf(f[n]) \subseteq First(n)
                               /\ NamesOf(SetOf(f[n])) = NamesOf(First(n)) \ ignored}
<1>4. 0 \in T
  <2>1. 0 \in 0 .. N
    BY <1>3
  <2>2. f[0] \in Seq(Domains) /\ DOMAIN f[0] = {}
    BY <1>2
  <2>3. SetOf(f[0]) = {} /\ First(0) = {} /\ NamesOf({}) = {}
    BY <2>2 DEF SetOf, NamesOf
  <2>4. EachOnce(f[0])
    BY <2>2 DEF EachOnce
  <2> HIDE DEF First, ignored
  <2>5. NamesOf(SetOf(f[0])) = NamesOf(First(0)) \ ignored
    BY <2>3
  <2> QED
    BY <2>1, <2>2, <2>3, <2>4, <2>5
<1>5. ASSUME NEW n \in 0 .. N - 1, n \in T PROVE n + 1 \in T
  <2> DEFINE new == all[n + 1]
  <2>1. n + 1 \in 1 .. N /\ n + 1 \in 0 .. N /\ (n + 1) - 1 = n
    BY <1>3
  <2>2. First(n + 1) = First(n) \cup {new}
    BY <1>3
  <2>3. f[n + 1] = AppendNewDomain(f[n], new) /\ new \in Domains
    BY <1>2, <1>3, <2>1
  <2>4. /\ f[n] \in Seq(Domains) /\ EachOnce(f[n]) /\ SetOf(f[n]) \subseteq First(n)
        /\ NamesOf(SetOf(f[n])) = NamesOf(First(n)) \ ignored
    BY <1>5
  <2> HIDE DEF new, First
  <2>5. /\ f[n + 1] \in Seq(Domains) /\ EachOnce(f[n + 1])
        /\ SetOf(f[n + 1]) \subseteq SetOf(f[n]) \cup {new}
        /\ NamesOf(SetOf(f[n + 1])) = NamesOf(SetOf(f[n])) \cup (NamesOf({new}) \ ignored)
    <3> DEFINE seq == f[n]
    <3>1. seq \in Seq(Domains) /\ EachOnce(seq)
      BY <2>4
    <3> HIDE DEF seq
    <3>2. LET result == AppendNewDomain(seq, new)
          IN  /\ result \in Seq(Domains)
              /\ EachOnce(result)
              /\ SetOf(result) \subseteq SetOf(seq) \cup {new}
              /\ NamesOf(SetOf(result)) = NamesOf(SetOf(seq)) \cup (NamesOf({new}) \ ignored)
      BY <2>3, <3>1, AppendNewDomainIs
    <3> QED
      BY <2>3, <3>2 DEF seq
  <2>6. NamesOf(First(n + 1)) = NamesOf(First(n)) \cup NamesOf({new})
    BY <2>2 DEF NamesOf
  <2> HIDE DEF ignored
  <2>7. NamesOf(SetOf(f[n + 1])) = NamesOf(First(n + 1)) \ ignored
    BY <2>4, <2>5, <2>6
  <2> QED
    BY <2>1, <2>2, <2>4, <2>5, <2>7
<1> HIDE DEF T
<1>6. N \in T
  <2>1. N \in Nat /\ N \in 0 .. N
    BY <1>3
  <2> QED
    BY <2>1, <1>4, <1>5, BoundedInduction
<1>7. First(N) = SetOf(all)
  BY <1>3 DEF SetOf
<1> HIDE DEF First
<1> QED
  BY <1>2, <1>6, <1>7 DEF T, all

\* Normalising the domains changes no name, and the empty ones have none.
LEMMA DomainsExact == RoutesInv => DomainsAreExact
<1> DEFINE written == SetOf(hello_reply.search_domains) \cup SetOf(config.search_domains)
           ignored == NamesOf(config.ignore_search_domains)
           chosen  == {d \in Domains : NamesADomain(d)}
           named   == Among(CollectSearchDomains, chosen)
           Says(d) == /\ d.dots = 0
                      /\ config.set_routing_domains => d.tilde
                      /\ d.tilde => \/ config.set_routing_domains
                                    \/ \E w \in written : w.name = d.name /\ w.tilde
<1> SUFFICES ASSUME RoutesInv, phase = "announced"
             PROVE  /\ NamesOf(SetOf(domains)) = NamesOf(written) \ ignored
                    /\ \A i, j \in DOMAIN domains :
                         domains[i].name = domains[j].name /\ domains[i].name # "" => i = j
                    /\ \A i \in DOMAIN domains : Says(domains[i])
  BY DEF DomainsAreExact, NamesOf
<1> USE DEF RoutesInv
<1>1. config \in Profiles /\ hello_reply \in Replies
  BY DEF TypeOK
<1>2. written = SetOf(WrittenDomains)
  BY <1>1, RoutesConstants, ConcatIs DEF WrittenDomains
<1>3. /\ CollectSearchDomains \in Seq(Domains) /\ EachOnce(CollectSearchDomains)
      /\ SetOf(CollectSearchDomains) \subseteq written
      /\ NamesOf(SetOf(CollectSearchDomains)) = NamesOf(written) \ ignored
  BY <1>1, <1>2, CollectSearchDomainsAre
<1> HIDE DEF written, ignored
<1>4. named \in Seq(Domains) /\ SetOf(named) = SetOf(CollectSearchDomains) \cap chosen
  BY <1>3, AmongIs
<1>5. EachOnce(named)
  <2> DEFINE alike == {p \in Domains \X Domains : SameDomain(p[1], p[2])}
  <2>1. \A c, d \in Domains : SameDomain(c, d) <=> <<c, d>> \in alike
    OBVIOUS
  <2>2. \A i \in DOMAIN CollectSearchDomains : CollectSearchDomains[i] \in Domains
    BY <1>3, LenProperties, ElementOfSeq
  <2>3. \A i, j \in DOMAIN CollectSearchDomains :
          i # j => <<CollectSearchDomains[i], CollectSearchDomains[j]>> \notin alike
    BY <1>3, <2>1, <2>2 DEF EachOnce
  <2> HIDE DEF alike, chosen
  <2>4. \A i, j \in DOMAIN named : i # j => <<named[i], named[j]>> \notin alike
    BY <1>3, <2>3, AmongKeepsApart
  <2> HIDE DEF named
  <2>5. \A i \in DOMAIN named : named[i] \in Domains
    BY <1>4, LenProperties, ElementOfSeq
  <2> QED
    BY <2>1, <2>4, <2>5 DEF EachOnce
<1>6. NamesOf(SetOf(named)) = NamesOf(SetOf(CollectSearchDomains))
  <2>1. \A d \in SetOf(CollectSearchDomains) : d \in Domains
    BY <1>3, LenProperties, ElementOfSeq DEF SetOf
  <2>2. \A d \in SetOf(CollectSearchDomains) : d.name # "" => d \in SetOf(named)
    BY <1>4, <2>1 DEF NamesADomain
  <2>3. SetOf(named) \subseteq SetOf(CollectSearchDomains)
    BY <1>4
  <2> HIDE DEF named
  <2> QED
    BY <2>2, <2>3 DEF NamesOf
<1>7. domains = [i \in DOMAIN named |-> NormalizeSearchDomain(named[i])]
  BY DEF Given, AnnouncedDomains
<1> HIDE DEF named, chosen
<1>8. ASSUME NEW d \in Domains
      PROVE  LET n == NormalizeSearchDomain(d)
             IN  /\ n.name = d.name
                 /\ n.dots = 0
                 /\ config.set_routing_domains => n.tilde
                 /\ ~config.set_routing_domains => n.tilde = d.tilde
  BY DEF NormalizeSearchDomain, NormalizeRoutingDomain, Domains
<1>9. ASSUME NEW i \in DOMAIN domains
      PROVE  /\ i \in DOMAIN named /\ named[i] \in Domains /\ named[i] \in written
             /\ domains[i] = NormalizeSearchDomain(named[i])
             /\ domains[i].name = named[i].name
  <2>1. i \in DOMAIN named /\ domains[i] = NormalizeSearchDomain(named[i])
    BY <1>7
  <2>2. named[i] \in Domains
    BY <1>4, <2>1, LenProperties, ElementOfSeq
  <2>3. named[i] \in SetOf(named)
    BY <2>1 DEF SetOf
  <2>4. named[i] \in written
    BY <1>3, <1>4, <2>3
  <2> QED
    BY <1>8, <2>1, <2>2, <2>4
<1>10. NamesOf(SetOf(domains)) = NamesOf(SetOf(named))
  <2>1. DOMAIN domains = DOMAIN named
    BY <1>7
  <2>2. {d.name : d \in SetOf(domains)} = {domains[i].name : i \in DOMAIN domains}
    BY DEF SetOf
  <2>3. {d.name : d \in SetOf(named)} = {named[i].name : i \in DOMAIN named}
    BY DEF SetOf
  <2>4. {domains[i].name : i \in DOMAIN domains} = {named[i].name : i \in DOMAIN named}
    BY <1>9, <2>1
  <2> QED
    BY <2>2, <2>3, <2>4 DEF NamesOf
<1>11. \A i, j \in DOMAIN domains :
         domains[i].name = domains[j].name /\ domains[i].name # "" => i = j
  BY <1>5, <1>9 DEF EachOnce, SameDomain
<1>12. \A i \in DOMAIN domains : Says(domains[i])
  <2> TAKE i \in DOMAIN domains
  <2> DEFINE d == named[i]
             n == domains[i]
  <2>1. d \in Domains /\ d \in written /\ n = NormalizeSearchDomain(d)
    BY <1>9
  <2> HIDE DEF d, n
  <2>2. /\ n.name = d.name /\ n.dots = 0
        /\ config.set_routing_domains => n.tilde
        /\ ~config.set_routing_domains => n.tilde = d.tilde
    BY <1>8, <2>1
  <2> QED
    BY <2>1, <2>2 DEF n
<1> QED
  BY <1>3, <1>6, <1>10, <1>11, <1>12

-----------------------------------------------------------------------------
(* The theorems.                                                           *)

\* The routing table of the kernel and the configuration given to
\* NetworkManager hold the same routes, for every profile, reply and table.
THEOREM KernelAndNMAgree == Spec => []KernelAgreesWithNM
BY RoutesInvariant, KernelAgrees, PTL

\* Without the default route, what the profile and the reply name goes through
\* the tunnel, every address of it, and nothing else but a private subnet of a
\* DNS server for which the gateway gives a range.
THEOREM SplitTunnelHolds == Spec => []SplitTunnelIsExact
BY RoutesInvariant, SplitTunnelExact, PTL

\* With the default route, everything but the gateway goes through the tunnel.
THEOREM FullTunnelHolds == Spec => []FullTunnelIsExact
BY RoutesInvariant, FullTunnelExact, PTL

\* A teardown, whatever step the attempt failed in, leaves no route behind but
\* the one to the gateway when a request about it was reported to have failed,
\* and takes none but those that were replaced.
THEOREM TeardownUndoesWhatItCan == Spec => []TeardownUndoesRoutes
BY RoutesInvariant, TeardownUndoes, PTL

\* NetworkManager is given each domain that is not ignored, once.
THEOREM DomainsAreGivenOnce == Spec => []DomainsAreExact
BY RoutesInvariant, DomainsExact, PTL
=============================================================================
