---------------------------- MODULE Codec_proofs ----------------------------
(***************************************************************************)
(* What the codec computes, for every input.  The texts: parameters        *)
(* rendered into any statement are read by the server as those values      *)
(* (ParametersBound), because the scanner of interpolateParams and the     *)
(* lexer of the server stay in agreement character by character, and the   *)
(* text that is sent follows the statement token by token.  The replies:   *)
(* any words are decoded as what they mean (ReadAsItIsMeant), because      *)
(* every decoder consumes exactly the words of the one split of them that  *)
(* means something.  Both are inductions over the positions of a sequence  *)
(* and the depth of nesting.                                               *)
(***************************************************************************)
EXTENDS MCCodec, SequenceTheorems, FiniteSetTheorems, TLAPS

-----------------------------------------------------------------------------
(* Induction over the numbers, with a set for the claim: the library's     *)
(* theorems take an operator.                                              *)

Less == {p \in Nat \X Nat : p[1] < p[2]}

LEMMA LessWellFounded == IsWellFoundedOn(Less, Nat)
BY NatLessThanWellFounded DEF OpToRel, Less

\* A set of numbers has a least one, unless it is empty.
LEMMA Least ==
  ASSUME NEW T \in SUBSET Nat, T # {}
  PROVE  \E m \in T : \A k \in T : m <= k
<1>1. PICK m \in T : \A y \in T : <<y, m>> \notin Less BY LessWellFounded, WFMin, Zenon
<1>2. \A k \in T : ~(k < m) BY <1>1 DEF Less
<1> QED BY <1>1, <1>2

\* A set that has 0, and with a number the next one, has all numbers up to n.
LEMMA UpTo ==
  ASSUME NEW n \in Nat, NEW S, 0 \in S, \A i \in 0..n : i < n /\ i \in S => i + 1 \in S
  PROVE  0..n \subseteq S
<1> DEFINE T == {i \in 0..n : i \notin S}
<1> SUFFICES ASSUME T # {} PROVE FALSE OBVIOUS
<1>1. T \in SUBSET Nat OBVIOUS
<1>2. PICK m \in T : \A k \in T : m <= k BY <1>1, Least
<1>3. m # 0 /\ m \in 0..n /\ m \notin S OBVIOUS
<1>4. m - 1 \in 0..n /\ m - 1 < n /\ ~(m <= m - 1) BY <1>3
<1>5. m - 1 \in S BY <1>2, <1>4
<1>6. (m - 1) + 1 \in S BY <1>4, <1>5
<1> QED BY <1>3, <1>6

-----------------------------------------------------------------------------
(* The functions that read a sequence are what their definitions say.      *)

\* Joined, unfolded.
LEMMA JoinedDef ==
  ASSUME NEW pieces, Len(pieces) \in Nat
  PROVE  \E f : /\ f = [k \in 0..Len(pieces) |->
                          IF k = 0 THEN <<>> ELSE f[k - 1] \o pieces[k]]
                /\ Joined(pieces) = f[Len(pieces)]
<1> DEFINE n == Len(pieces)
           Is(f, m) == f = [k \in 0..m |-> IF k = 0 THEN <<>> ELSE f[k - 1] \o pieces[k]]
           S == {m \in 0..n : \E f : Is(f, m)}
<1>1. 0 \in S
  <2> DEFINE f == [k \in 0..0 |-> <<>>]
  <2>1. Is(f, 0) OBVIOUS
  <2>2. \E h : Is(h, 0) BY <2>1
  <2>3. 0 \in 0..n OBVIOUS
  <2> QED BY <2>2, <2>3
<1>2. ASSUME NEW m \in 0..n, m < n, m \in S
      PROVE  m + 1 \in S
  <2>1. PICK f : Is(f, m) BY <1>2
  <2> DEFINE g == [k \in 0..(m + 1) |-> IF k = m + 1 THEN f[m] \o pieces[m + 1] ELSE f[k]]
  <2>2. \A k \in 0..(m + 1) : g[k] = IF k = 0 THEN <<>> ELSE g[k - 1] \o pieces[k]
    <3> SUFFICES ASSUME NEW k \in 0..(m + 1)
                 PROVE  g[k] = IF k = 0 THEN <<>> ELSE g[k - 1] \o pieces[k]
      OBVIOUS
    <3>1. CASE k = m + 1 BY <3>1
    <3>2. CASE k # m + 1
      <4>1. m \in Nat /\ k \in 0..m BY <3>2
      <4>2. f[k] = IF k = 0 THEN <<>> ELSE f[k - 1] \o pieces[k] BY <2>1, <4>1
      <4>3. k # 0 => k - 1 \in 0..(m + 1) /\ k - 1 # m + 1 BY <3>2, <4>1
      <4> QED BY <3>2, <4>1, <4>2, <4>3
    <3> QED BY <3>1, <3>2
  <2>3. Is(g, m + 1) BY <2>2
  <2>4. m + 1 \in 0..n BY <1>2
  <2> QED BY <2>3, <2>4
<1> HIDE DEF S
<1>3. n \in S
  <2>1. 0..n \subseteq S BY <1>1, <1>2, UpTo
  <2> QED BY <2>1
<1>4. \E f : Is(f, n) BY <1>3 DEF S
<1> DEFINE c == CHOOSE f : Is(f, n)
<1>5. Is(c, n) BY <1>4
<1>6. Joined(pieces) = c[n] BY DEF Joined
<1> QED BY <1>5, <1>6

\* The loop of InterpolateParams, unfolded.
LEMMA InterpolateDef ==
  ASSUME NEW text, NEW params, NEW mode \in BOOLEAN, Len(text) \in Nat
  PROVE  \E f : /\ f = [k \in 0..Len(text) |->
                          IF k = 0 THEN Start ELSE TakeChar(f[k - 1], text[k], At(text, k + 1), params, mode)]
                /\ InterpolateParams(text, params, mode) = f[Len(text)]
<1> DEFINE n == Len(text)
           Is(f, m) == f = [k \in 0..m |-> IF k = 0 THEN Start ELSE TakeChar(f[k - 1], text[k], At(text, k + 1), params, mode)]
           S == {m \in 0..n : \E f : Is(f, m)}
<1>1. 0 \in S
  <2> DEFINE f == [k \in 0..0 |-> Start]
  <2>1. Is(f, 0) OBVIOUS
  <2>2. \E h : Is(h, 0) BY <2>1
  <2>3. 0 \in 0..n OBVIOUS
  <2> QED BY <2>2, <2>3
<1>2. ASSUME NEW m \in 0..n, m < n, m \in S
      PROVE  m + 1 \in S
  <2>1. PICK f : Is(f, m) BY <1>2
  <2> DEFINE g == [k \in 0..(m + 1) |-> IF k = m + 1 THEN TakeChar(f[m], text[m + 1], At(text, m + 1 + 1), params, mode) ELSE f[k]]
  <2>2. \A k \in 0..(m + 1) : g[k] = IF k = 0 THEN Start ELSE TakeChar(g[k - 1], text[k], At(text, k + 1), params, mode)
    <3> SUFFICES ASSUME NEW k \in 0..(m + 1)
                 PROVE  g[k] = IF k = 0 THEN Start ELSE TakeChar(g[k - 1], text[k], At(text, k + 1), params, mode)
      OBVIOUS
    <3>1. CASE k = m + 1 BY <3>1
    <3>2. CASE k # m + 1
      <4>1. m \in Nat /\ k \in 0..m BY <3>2
      <4>2. f[k] = IF k = 0 THEN Start ELSE TakeChar(f[k - 1], text[k], At(text, k + 1), params, mode) BY <2>1, <4>1
      <4>3. k # 0 => k - 1 \in 0..(m + 1) /\ k - 1 # m + 1 BY <3>2, <4>1
      <4> QED BY <3>2, <4>1, <4>2, <4>3
    <3> QED BY <3>1, <3>2
  <2>3. Is(g, m + 1) BY <2>2
  <2>4. m + 1 \in 0..n BY <1>2
  <2> QED BY <2>3, <2>4
<1> HIDE DEF S
<1>3. n \in S
  <2>1. 0..n \subseteq S BY <1>1, <1>2, UpTo
  <2> QED BY <2>1
<1>4. \E f : Is(f, n) BY <1>3 DEF S
<1> DEFINE c == CHOOSE f : Is(f, n)
<1>5. Is(c, n) BY <1>4
<1>6. InterpolateParams(text, params, mode) = c[n] BY DEF InterpolateParams
<1> QED BY <1>5, <1>6

\* The lexer of the server, unfolded.
LEMMA ReadingDef ==
  ASSUME NEW lexer, NEW text, NEW mode, Len(text) \in Nat
  PROVE  \E f : /\ f = [k \in 0..Len(text) |->
                          IF k = 0 THEN lexer ELSE ReadChar(f[k - 1], text[k], mode)]
                /\ Reading(lexer, text, mode) = f
<1> DEFINE n == Len(text)
           Is(f, m) == f = [k \in 0..m |-> IF k = 0 THEN lexer ELSE ReadChar(f[k - 1], text[k], mode)]
           S == {m \in 0..n : \E f : Is(f, m)}
<1>1. 0 \in S
  <2> DEFINE f == [k \in 0..0 |-> lexer]
  <2>1. Is(f, 0) OBVIOUS
  <2>2. \E h : Is(h, 0) BY <2>1
  <2>3. 0 \in 0..n OBVIOUS
  <2> QED BY <2>2, <2>3
<1>2. ASSUME NEW m \in 0..n, m < n, m \in S
      PROVE  m + 1 \in S
  <2>1. PICK f : Is(f, m) BY <1>2
  <2> DEFINE g == [k \in 0..(m + 1) |-> IF k = m + 1 THEN ReadChar(f[m], text[m + 1], mode) ELSE f[k]]
  <2>2. \A k \in 0..(m + 1) : g[k] = IF k = 0 THEN lexer ELSE ReadChar(g[k - 1], text[k], mode)
    <3> SUFFICES ASSUME NEW k \in 0..(m + 1)
                 PROVE  g[k] = IF k = 0 THEN lexer ELSE ReadChar(g[k - 1], text[k], mode)
      OBVIOUS
    <3>1. CASE k = m + 1 BY <3>1
    <3>2. CASE k # m + 1
      <4>1. m \in Nat /\ k \in 0..m BY <3>2
      <4>2. f[k] = IF k = 0 THEN lexer ELSE ReadChar(f[k - 1], text[k], mode) BY <2>1, <4>1
      <4>3. k # 0 => k - 1 \in 0..(m + 1) /\ k - 1 # m + 1 BY <3>2, <4>1
      <4> QED BY <3>2, <4>1, <4>2, <4>3
    <3> QED BY <3>1, <3>2
  <2>3. Is(g, m + 1) BY <2>2
  <2>4. m + 1 \in 0..n BY <1>2
  <2> QED BY <2>3, <2>4
<1> HIDE DEF S
<1>3. n \in S
  <2>1. 0..n \subseteq S BY <1>1, <1>2, UpTo
  <2> QED BY <2>1
<1>4. \E f : Is(f, n) BY <1>3 DEF S
<1> DEFINE c == CHOOSE f : Is(f, n)
<1>5. Is(c, n) BY <1>4
<1>6. Reading(lexer, text, mode) = c BY DEF Reading
<1> QED BY <1>5, <1>6

\* Bound, unfolded.
LEMMA BoundDef ==
  ASSUME NEW tokens, NEW params, Len(tokens) \in Nat
  PROVE  \E f : /\ f = [k \in 0..Len(tokens) |->
                          IF k = 0 THEN [tokens |-> <<>>, count |-> 0] ELSE BindToken(f[k - 1], tokens[k], params)]
                /\ Bound(tokens, params) = f[Len(tokens)]
<1> DEFINE n == Len(tokens)
           Is(f, m) == f = [k \in 0..m |-> IF k = 0 THEN [tokens |-> <<>>, count |-> 0] ELSE BindToken(f[k - 1], tokens[k], params)]
           S == {m \in 0..n : \E f : Is(f, m)}
<1>1. 0 \in S
  <2> DEFINE f == [k \in 0..0 |-> [tokens |-> <<>>, count |-> 0]]
  <2>1. Is(f, 0) OBVIOUS
  <2>2. \E h : Is(h, 0) BY <2>1
  <2>3. 0 \in 0..n OBVIOUS
  <2> QED BY <2>2, <2>3
<1>2. ASSUME NEW m \in 0..n, m < n, m \in S
      PROVE  m + 1 \in S
  <2>1. PICK f : Is(f, m) BY <1>2
  <2> DEFINE g == [k \in 0..(m + 1) |-> IF k = m + 1 THEN BindToken(f[m], tokens[m + 1], params) ELSE f[k]]
  <2>2. \A k \in 0..(m + 1) : g[k] = IF k = 0 THEN [tokens |-> <<>>, count |-> 0] ELSE BindToken(g[k - 1], tokens[k], params)
    <3> SUFFICES ASSUME NEW k \in 0..(m + 1)
                 PROVE  g[k] = IF k = 0 THEN [tokens |-> <<>>, count |-> 0] ELSE BindToken(g[k - 1], tokens[k], params)
      OBVIOUS
    <3>1. CASE k = m + 1 BY <3>1
    <3>2. CASE k # m + 1
      <4>1. m \in Nat /\ k \in 0..m BY <3>2
      <4>2. f[k] = IF k = 0 THEN [tokens |-> <<>>, count |-> 0] ELSE BindToken(f[k - 1], tokens[k], params) BY <2>1, <4>1
      <4>3. k # 0 => k - 1 \in 0..(m + 1) /\ k - 1 # m + 1 BY <3>2, <4>1
      <4> QED BY <3>2, <4>1, <4>2, <4>3
    <3> QED BY <3>1, <3>2
  <2>3. Is(g, m + 1) BY <2>2
  <2>4. m + 1 \in 0..n BY <1>2
  <2> QED BY <2>3, <2>4
<1> HIDE DEF S
<1>3. n \in S
  <2>1. 0..n \subseteq S BY <1>1, <1>2, UpTo
  <2> QED BY <2>1
<1>4. \E f : Is(f, n) BY <1>3 DEF S
<1> DEFINE c == CHOOSE f : Is(f, n)
<1>5. Is(c, n) BY <1>4
<1>6. Bound(tokens, params) = c[n] BY DEF Bound
<1> QED BY <1>5, <1>6

\* The loops of the decoder, unfolded.
LEMMA ReadAllDef ==
  ASSUME NEW next, NEW from, NEW count \in Nat
  PROVE  \E f : /\ f[0] = Ok(<<>>, from)
                /\ \A k \in 1..count : f[k] = And(f[k - 1], next[k][f[k - 1].at])
                /\ ReadAll(next, count, from) = f[count]
<1> DEFINE n == count
           Is(f, m) == f = [k \in 0..m |-> IF k = 0 THEN Ok(<<>>, from) ELSE And(f[k - 1], next[k][f[k - 1].at])]
           S == {m \in 0..n : \E f : Is(f, m)}
<1>1. 0 \in S
  <2> DEFINE f == [k \in 0..0 |-> Ok(<<>>, from)]
  <2>1. Is(f, 0) OBVIOUS
  <2>2. \E h : Is(h, 0) BY <2>1
  <2>3. 0 \in 0..n OBVIOUS
  <2> QED BY <2>2, <2>3
<1>2. ASSUME NEW m \in 0..n, m < n, m \in S
      PROVE  m + 1 \in S
  <2>1. PICK f : Is(f, m) BY <1>2
  <2> DEFINE g == [k \in 0..(m + 1) |-> IF k = m + 1 THEN And(f[m], next[m + 1][f[m].at]) ELSE f[k]]
  <2>2. \A k \in 0..(m + 1) : g[k] = IF k = 0 THEN Ok(<<>>, from) ELSE And(g[k - 1], next[k][g[k - 1].at])
    <3> SUFFICES ASSUME NEW k \in 0..(m + 1)
                 PROVE  g[k] = IF k = 0 THEN Ok(<<>>, from) ELSE And(g[k - 1], next[k][g[k - 1].at])
      OBVIOUS
    <3>1. CASE k = m + 1 BY <3>1
    <3>2. CASE k # m + 1
      <4>1. m \in Nat /\ k \in 0..m BY <3>2
      <4>2. f[k] = IF k = 0 THEN Ok(<<>>, from) ELSE And(f[k - 1], next[k][f[k - 1].at]) BY <2>1, <4>1
      <4>3. k # 0 => k - 1 \in 0..(m + 1) /\ k - 1 # m + 1 BY <3>2, <4>1
      <4> QED BY <3>2, <4>1, <4>2, <4>3
    <3> QED BY <3>1, <3>2
  <2>3. Is(g, m + 1) BY <2>2
  <2>4. m + 1 \in 0..n BY <1>2
  <2> QED BY <2>3, <2>4
<1>0. n \in Nat OBVIOUS
<1> HIDE DEF S, n
<1>3. n \in S
  <2>1. 0..n \subseteq S BY <1>0, <1>1, <1>2, UpTo, Zenon
  <2>2. n \in 0..n BY <1>0
  <2> QED BY <2>1, <2>2
<1>4. \E f : Is(f, n) BY <1>3 DEF S
<1> DEFINE c == CHOOSE f : Is(f, n)
<1>5. Is(c, n) BY <1>4
<1>6. ReadAll(next, count, from) = c[n] BY DEF ReadAll, n
<1>7. c[0] = Ok(<<>>, from)
  <2>1. 0 \in 0..n BY <1>0
  <2> QED BY <1>5, <2>1
<1>8. \A k \in 1..n : c[k] = And(c[k - 1], next[k][c[k - 1].at])
  <2>1. \A k \in 1..n : k \in 0..n /\ k # 0 BY <1>0
  <2> QED BY <1>5, <2>1
<1> HIDE DEF c
<1> QED BY <1>6, <1>7, <1>8 DEF n

\* The splits of the format, unfolded.
LEMMA SplitsDef ==
  ASSUME NEW means, NEW from, NEW to, NEW count, count \in Nat
  PROVE  \E f : /\ f[0] = FirstSplit(from, to)
                /\ \A k \in 1..count : f[k] = NextSplit(f[k - 1], means[k], from, to)
                /\ Splits(means, count, from, to) = f[count]
<1> DEFINE n == count
           Is(f, m) == f = [k \in 0..m |-> IF k = 0 THEN FirstSplit(from, to) ELSE NextSplit(f[k - 1], means[k], from, to)]
           S == {m \in 0..n : \E f : Is(f, m)}
<1>1. 0 \in S
  <2> DEFINE f == [k \in 0..0 |-> FirstSplit(from, to)]
  <2>1. Is(f, 0) OBVIOUS
  <2>2. \E h : Is(h, 0) BY <2>1
  <2>3. 0 \in 0..n OBVIOUS
  <2> QED BY <2>2, <2>3
<1>2. ASSUME NEW m \in 0..n, m < n, m \in S
      PROVE  m + 1 \in S
  <2>1. PICK f : Is(f, m) BY <1>2
  <2> DEFINE g == [k \in 0..(m + 1) |-> IF k = m + 1 THEN NextSplit(f[m], means[m + 1], from, to) ELSE f[k]]
  <2>2. \A k \in 0..(m + 1) : g[k] = IF k = 0 THEN FirstSplit(from, to) ELSE NextSplit(g[k - 1], means[k], from, to)
    <3> SUFFICES ASSUME NEW k \in 0..(m + 1)
                 PROVE  g[k] = IF k = 0 THEN FirstSplit(from, to) ELSE NextSplit(g[k - 1], means[k], from, to)
      OBVIOUS
    <3>1. CASE k = m + 1 BY <3>1
    <3>2. CASE k # m + 1
      <4>1. m \in Nat /\ k \in 0..m BY <3>2
      <4>2. f[k] = IF k = 0 THEN FirstSplit(from, to) ELSE NextSplit(f[k - 1], means[k], from, to) BY <2>1, <4>1
      <4>3. k # 0 => k - 1 \in 0..(m + 1) /\ k - 1 # m + 1 BY <3>2, <4>1
      <4> QED BY <3>2, <4>1, <4>2, <4>3
    <3> QED BY <3>1, <3>2
  <2>3. Is(g, m + 1) BY <2>2
  <2>4. m + 1 \in 0..n BY <1>2
  <2> QED BY <2>3, <2>4
<1>0. n \in Nat OBVIOUS
<1> HIDE DEF S, n
<1>3. n \in S
  <2>1. 0..n \subseteq S BY <1>0, <1>1, <1>2, UpTo, Zenon
  <2>2. n \in 0..n BY <1>0
  <2> QED BY <2>1, <2>2
<1>4. \E f : Is(f, n) BY <1>3 DEF S
<1> DEFINE c == CHOOSE f : Is(f, n)
<1>5. Is(c, n) BY <1>4
<1>6. Splits(means, count, from, to) = c[n] BY DEF Splits, FirstSplit, NextSplit, n
<1>7. c[0] = FirstSplit(from, to)
  <2>1. 0 \in 0..n BY <1>0
  <2> QED BY <1>5, <2>1
<1>8. \A k \in 1..n : c[k] = NextSplit(c[k - 1], means[k], from, to)
  <2>1. \A k \in 1..n : k \in 0..n /\ k # 0 BY <1>0
  <2> QED BY <1>5, <2>1
<1> HIDE DEF c
<1> QED BY <1>6, <1>7, <1>8 DEF n

\* The decoder of nested collections, unfolded.
LEMMA NestedDef ==
  ASSUME NEW words, Len(words) \in Nat
  PROVE  \E f : /\ f[0] = <<>>
                /\ \A k \in 1..Len(words) : f[k] = AtDepth(f[k - 1], words)
                /\ Nested(words) = f[Len(words)]
<1> DEFINE n == Len(words)
           Is(f, m) == f = [k \in 0..m |-> IF k = 0 THEN <<>> ELSE AtDepth(f[k - 1], words)]
           S == {m \in 0..n : \E f : Is(f, m)}
<1>1. 0 \in S
  <2> DEFINE f == [k \in 0..0 |-> <<>>]
  <2>1. Is(f, 0) OBVIOUS
  <2>2. \E h : Is(h, 0) BY <2>1
  <2>3. 0 \in 0..n OBVIOUS
  <2> QED BY <2>2, <2>3
<1>2. ASSUME NEW m \in 0..n, m < n, m \in S
      PROVE  m + 1 \in S
  <2>1. PICK f : Is(f, m) BY <1>2
  <2> DEFINE g == [k \in 0..(m + 1) |-> IF k = m + 1 THEN AtDepth(f[m], words) ELSE f[k]]
  <2>2. \A k \in 0..(m + 1) : g[k] = IF k = 0 THEN <<>> ELSE AtDepth(g[k - 1], words)
    <3> SUFFICES ASSUME NEW k \in 0..(m + 1)
                 PROVE  g[k] = IF k = 0 THEN <<>> ELSE AtDepth(g[k - 1], words)
      OBVIOUS
    <3>1. CASE k = m + 1 BY <3>1
    <3>2. CASE k # m + 1
      <4>1. m \in Nat /\ k \in 0..m BY <3>2
      <4>2. f[k] = IF k = 0 THEN <<>> ELSE AtDepth(f[k - 1], words) BY <2>1, <4>1
      <4>3. k # 0 => k - 1 \in 0..(m + 1) /\ k - 1 # m + 1 BY <3>2, <4>1
      <4> QED BY <3>2, <4>1, <4>2, <4>3
    <3> QED BY <3>1, <3>2
  <2>3. Is(g, m + 1) BY <2>2
  <2>4. m + 1 \in 0..n BY <1>2
  <2> QED BY <2>3, <2>4
<1>0. n \in Nat OBVIOUS
<1> HIDE DEF S, n
<1>3. n \in S
  <2>1. 0..n \subseteq S BY <1>0, <1>1, <1>2, UpTo, Zenon
  <2>2. n \in 0..n BY <1>0
  <2> QED BY <2>1, <2>2
<1>4. \E f : Is(f, n) BY <1>3 DEF S
<1> DEFINE c == CHOOSE f : Is(f, n)
<1>5. Is(c, n) BY <1>4
<1>6. Nested(words) = c[n] BY DEF Nested, AtDepth, n
<1>7. c[0] = <<>>
  <2>1. 0 \in 0..n BY <1>0
  <2> QED BY <1>5, <2>1
<1>8. \A k \in 1..n : c[k] = AtDepth(c[k - 1], words)
  <2>1. \A k \in 1..n : k \in 0..n /\ k # 0 BY <1>0
  <2> QED BY <1>5, <2>1
<1> HIDE DEF c
<1> QED BY <1>6, <1>7, <1>8 DEF n

\* The format of nested collections, unfolded.
LEMMA NestedPayloadsDef ==
  ASSUME NEW words, Len(words) \in Nat
  PROVE  \E f : /\ f[0] = <<>>
                /\ \A k \in 1..Len(words) : f[k] = PayloadsAtDepth(f[k - 1], words)
                /\ NestedPayloads(words) = f[Len(words)]
<1> DEFINE n == Len(words)
           Is(f, m) == f = [k \in 0..m |-> IF k = 0 THEN <<>> ELSE PayloadsAtDepth(f[k - 1], words)]
           S == {m \in 0..n : \E f : Is(f, m)}
<1>1. 0 \in S
  <2> DEFINE f == [k \in 0..0 |-> <<>>]
  <2>1. Is(f, 0) OBVIOUS
  <2>2. \E h : Is(h, 0) BY <2>1
  <2>3. 0 \in 0..n OBVIOUS
  <2> QED BY <2>2, <2>3
<1>2. ASSUME NEW m \in 0..n, m < n, m \in S
      PROVE  m + 1 \in S
  <2>1. PICK f : Is(f, m) BY <1>2
  <2> DEFINE g == [k \in 0..(m + 1) |-> IF k = m + 1 THEN PayloadsAtDepth(f[m], words) ELSE f[k]]
  <2>2. \A k \in 0..(m + 1) : g[k] = IF k = 0 THEN <<>> ELSE PayloadsAtDepth(g[k - 1], words)
    <3> SUFFICES ASSUME NEW k \in 0..(m + 1)
                 PROVE  g[k] = IF k = 0 THEN <<>> ELSE PayloadsAtDepth(g[k - 1], words)
      OBVIOUS
    <3>1. CASE k = m + 1 BY <3>1
    <3>2. CASE k # m + 1
      <4>1. m \in Nat /\ k \in 0..m BY <3>2
      <4>2. f[k] = IF k = 0 THEN <<>> ELSE PayloadsAtDepth(f[k - 1], words) BY <2>1, <4>1
      <4>3. k # 0 => k - 1 \in 0..(m + 1) /\ k - 1 # m + 1 BY <3>2, <4>1
      <4> QED BY <3>2, <4>1, <4>2, <4>3
    <3> QED BY <3>1, <3>2
  <2>3. Is(g, m + 1) BY <2>2
  <2>4. m + 1 \in 0..n BY <1>2
  <2> QED BY <2>3, <2>4
<1>0. n \in Nat OBVIOUS
<1> HIDE DEF S, n
<1>3. n \in S
  <2>1. 0..n \subseteq S BY <1>0, <1>1, <1>2, UpTo, Zenon
  <2>2. n \in 0..n BY <1>0
  <2> QED BY <2>1, <2>2
<1>4. \E f : Is(f, n) BY <1>3 DEF S
<1> DEFINE c == CHOOSE f : Is(f, n)
<1>5. Is(c, n) BY <1>4
<1>6. NestedPayloads(words) = c[n] BY DEF NestedPayloads, PayloadsAtDepth, n
<1>7. c[0] = <<>>
  <2>1. 0 \in 0..n BY <1>0
  <2> QED BY <1>5, <2>1
<1>8. \A k \in 1..n : c[k] = PayloadsAtDepth(c[k - 1], words)
  <2>1. \A k \in 1..n : k \in 0..n /\ k # 0 BY <1>0
  <2> QED BY <1>5, <2>1
<1> HIDE DEF c
<1> QED BY <1>6, <1>7, <1>8 DEF n

\* What the lexer may be; a mark stands for the quote of a string or the first
\* character of a comment.
States == {"sql", "seen", "block", "star", "line", "string", "escaped", "quote"}

-----------------------------------------------------------------------------
(* The server reads a text one character after another, and one part after *)
(* another.                                                                *)

\* What a lexer is made of.
Marks == Alphabet \cup {""}
Kinds == States \cup {"character", "literal"}
Tokens == [kind : Kinds, mark : Marks, string : Seq(Alphabet)]
Lexers == [tokens : Seq(Tokens), string : Seq(Alphabet), state : States, mark : Marks]

\* The lexer behind a text.
Read(lexer, text, mode) == Reading(lexer, text, mode)[Len(text)]

\* The token that flushing adds, when it adds one.
Ending(lexer) ==
  CASE lexer.state = "seen" -> Character(lexer.mark)
    [] lexer.state = "quote" -> Token("literal", lexer.mark, lexer.string)
    [] OTHER -> Token(lexer.state, lexer.mark, lexer.string)

\* Flushed adds at most one token.
LEMMA FlushedEnding ==
  ASSUME NEW lexer
  PROVE  Flushed(lexer) = IF lexer.state = "sql" THEN lexer.tokens
                                                 ELSE Append(lexer.tokens, Ending(lexer))
BY DEF Flushed, Ending

\* That token is no placeholder.
LEMMA EndingType ==
  ASSUME NEW lexer \in Lexers
  PROVE  /\ Ending(lexer) \in Tokens
         /\ (lexer.state = "seen" => lexer.mark # "?") => Ending(lexer) # Character("?")
<1>1. /\ lexer.string \in Seq(Alphabet) /\ lexer.state \in States /\ lexer.mark \in Marks
      /\ <<>> \in Seq(Alphabet)
  BY DEF Lexers
<1>2. \A kind \in Kinds, string \in Seq(Alphabet) :
        /\ Token(kind, lexer.mark, string) \in Tokens
        /\ kind # "character" \/ lexer.mark # "?" => Token(kind, lexer.mark, string) # Character("?")
  BY <1>1 DEF Tokens, Token, Character
<1>3. lexer.state \in Kinds /\ lexer.state # "character" BY <1>1 DEF States, Kinds
<1>4. "character" \in Kinds /\ "literal" \in Kinds BY DEF Kinds
<1>5. CASE lexer.state = "seen"
  <2>1. Ending(lexer) = Token("character", lexer.mark, <<>>) BY <1>5 DEF Ending, Character
  <2> QED BY <1>1, <1>2, <1>4, <1>5, <2>1
<1>6. CASE lexer.state = "quote"
  <2>1. Ending(lexer) = Token("literal", lexer.mark, lexer.string) BY <1>6 DEF Ending
  <2> QED BY <1>1, <1>2, <1>4, <2>1
<1>7. CASE lexer.state # "seen" /\ lexer.state # "quote"
  <2>1. Ending(lexer) = Token(lexer.state, lexer.mark, lexer.string) BY <1>7 DEF Ending
  <2> QED BY <1>1, <1>2, <1>3, <2>1
<1> QED BY <1>5, <1>6, <1>7

\* Flushed yields tokens.
LEMMA FlushedType ==
  ASSUME NEW lexer \in Lexers
  PROVE  Flushed(lexer) \in Seq(Tokens)
<1>1. lexer.tokens \in Seq(Tokens) BY DEF Lexers
<1>2. Ending(lexer) \in Tokens BY EndingType
<1>3. Append(lexer.tokens, Ending(lexer)) \in Seq(Tokens) BY <1>1, <1>2
<1> QED BY <1>1, <1>3, FlushedEnding

\* ReadSql yields a lexer.
LEMMA ReadSqlType ==
  ASSUME NEW tokens \in Seq(Tokens), NEW ch \in Alphabet
  PROVE  ReadSql(tokens, ch) \in Lexers
<1>1. Character(ch) \in Tokens
  <2>1. ch \in Marks BY DEF Marks
  <2>2. "character" \in Kinds BY DEF Kinds
  <2>3. <<>> \in Seq(Alphabet) OBVIOUS
  <2> QED BY <2>1, <2>2, <2>3 DEF Character, Token, Tokens
<1>2. Append(tokens, Character(ch)) \in Seq(Tokens) /\ <<>> \in Seq(Alphabet) BY <1>1
<1> QED BY <1>2 DEF ReadSql, Lexer, Lexers, States, Marks

\* ReadChar yields a lexer.
LEMMA ReadCharType ==
  ASSUME NEW lexer \in Lexers, NEW ch \in Alphabet, NEW mode \in BOOLEAN
  PROVE  ReadChar(lexer, ch, mode) \in Lexers
<1>1. /\ lexer.tokens \in Seq(Tokens) /\ lexer.string \in Seq(Alphabet) /\ lexer.state \in States
      /\ Append(lexer.string, ch) \in Seq(Alphabet)
  BY DEF Lexers
<1>2. /\ ReadSql(lexer.tokens, ch) \in Lexers
      /\ ReadSql(Flushed(lexer), ch) \in Lexers
  BY <1>1, FlushedType, ReadSqlType
<1>3. /\ \A s \in States : [lexer EXCEPT !.state = s] \in Lexers
      /\ [lexer EXCEPT !.state = "string", !.string = Append(@, ch)] \in Lexers
  BY <1>1 DEF Lexers, States
<1> QED BY <1>1, <1>2, <1>3 DEF ReadChar, States

\* The lexer starts as it is and reads one character at a time.
LEMMA ReadingOf ==
  ASSUME NEW lexer, NEW text \in Seq(Alphabet), NEW mode \in BOOLEAN
  PROVE  /\ Reading(lexer, text, mode)[0] = lexer
         /\ \A i \in 1..Len(text) :
              Reading(lexer, text, mode)[i] = ReadChar(Reading(lexer, text, mode)[i - 1], text[i], mode)
<1>1. Len(text) \in Nat OBVIOUS
<1> DEFINE r == Reading(lexer, text, mode)
<1>2. r = [k \in 0..Len(text) |-> IF k = 0 THEN lexer ELSE ReadChar(r[k - 1], text[k], mode)]
  BY <1>1, ReadingDef
<1> HIDE DEF r
<1>3. r[0] = lexer BY <1>1, <1>2
<1>4. \A i \in 1..Len(text) : r[i] = ReadChar(r[i - 1], text[i], mode) BY <1>1, <1>2
<1> QED BY <1>3, <1>4 DEF r

\* What is read on the way is a lexer.
LEMMA ReadingType ==
  ASSUME NEW lexer \in Lexers, NEW text \in Seq(Alphabet), NEW mode \in BOOLEAN
  PROVE  \A i \in 0..Len(text) : Reading(lexer, text, mode)[i] \in Lexers
<1> DEFINE r == Reading(lexer, text, mode)
           S == {i \in 0..Len(text) : r[i] \in Lexers}
<1>0. /\ r[0] = lexer
      /\ \A i \in 1..Len(text) : r[i] = ReadChar(r[i - 1], text[i], mode)
  BY ReadingOf
<1> HIDE DEF r
<1>1. 0 \in S BY <1>0
<1>2. ASSUME NEW i \in 0..Len(text), i < Len(text), i \in S
      PROVE  i + 1 \in S
  <2>1. text[i + 1] \in Alphabet /\ i + 1 \in 1..Len(text) /\ (i + 1) - 1 = i BY <1>2
  <2>2. r[i + 1] = ReadChar(r[i], text[i + 1], mode) BY <1>0, <2>1
  <2> QED BY <1>2, <2>1, <2>2, ReadCharType
<1> HIDE DEF S
<1>3. 0..Len(text) \subseteq S BY <1>1, <1>2, UpTo
<1> QED BY <1>3 DEF S, r

\* The last character of a text is the last one of its second part.
LEMMA AppendConcat ==
  \A a, b \in Seq(Tokens), x \in Tokens : Append(b, x) \in Seq(Tokens) /\ Append(a \o b, x) = a \o Append(b, x)
OBVIOUS

\* A text in two parts is read one part after the other.
LEMMA ReadConcat ==
  ASSUME NEW lexer, NEW a \in Seq(Alphabet), NEW b \in Seq(Alphabet), NEW mode \in BOOLEAN
  PROVE  /\ \A i \in 0..Len(a) : Reading(lexer, a \o b, mode)[i] = Reading(lexer, a, mode)[i]
         /\ \A i \in 0..Len(b) :
              Reading(lexer, a \o b, mode)[Len(a) + i] = Reading(Read(lexer, a, mode), b, mode)[i]
         /\ Read(lexer, a \o b, mode) = Read(Read(lexer, a, mode), b, mode)
<1> DEFINE ab == a \o b
           r == Reading(lexer, ab, mode)
           ra == Reading(lexer, a, mode)
           rb == Reading(Read(lexer, a, mode), b, mode)
           S == {i \in 0..Len(a) : r[i] = ra[i]}
           T == {i \in 0..Len(b) : r[Len(a) + i] = rb[i]}
<1>1. /\ ab \in Seq(Alphabet) /\ Len(ab) = Len(a) + Len(b)
      /\ \A i \in 1..Len(a) : ab[i] = a[i]
      /\ \A i \in 1..Len(b) : ab[Len(a) + i] = b[i]
  OBVIOUS
<1> HIDE DEF ab
<1>2. /\ r[0] = lexer /\ ra[0] = lexer /\ rb[0] = ra[Len(a)]
      /\ \A i \in 1..Len(ab) : r[i] = ReadChar(r[i - 1], ab[i], mode)
      /\ \A i \in 1..Len(a) : ra[i] = ReadChar(ra[i - 1], a[i], mode)
      /\ \A i \in 1..Len(b) : rb[i] = ReadChar(rb[i - 1], b[i], mode)
  <2>1. /\ r[0] = lexer
        /\ \A i \in 1..Len(ab) : r[i] = ReadChar(r[i - 1], ab[i], mode)
    <3>1. ab \in Seq(Alphabet) BY <1>1
    <3> QED BY <3>1, ReadingOf
  <2>2. /\ ra[0] = lexer
        /\ \A i \in 1..Len(a) : ra[i] = ReadChar(ra[i - 1], a[i], mode)
    BY ReadingOf
  <2>3. /\ rb[0] = Read(lexer, a, mode)
        /\ \A i \in 1..Len(b) : rb[i] = ReadChar(rb[i - 1], b[i], mode)
    BY ReadingOf
  <2> QED BY <2>1, <2>2, <2>3 DEF Read
<1> HIDE DEF r, ra, rb
<1>3. 0 \in S BY <1>2
<1>4. ASSUME NEW i \in 0..Len(a), i < Len(a), i \in S
      PROVE  i + 1 \in S
  <2>1. i + 1 \in 1..Len(a) /\ i + 1 \in 1..Len(ab) /\ (i + 1) - 1 = i BY <1>1, <1>4
  <2>2. r[i + 1] = ReadChar(r[i], ab[i + 1], mode) /\ ra[i + 1] = ReadChar(ra[i], a[i + 1], mode)
    BY <1>2, <2>1
  <2> QED BY <1>1, <1>4, <2>1, <2>2
<1>5. 0..Len(a) \subseteq S
  <2>1. Len(a) \in Nat OBVIOUS
  <2> HIDE DEF S
  <2> QED BY <1>3, <1>4, <2>1, UpTo
<1>6. r[Len(a)] = ra[Len(a)] BY <1>5
<1>7. 0 \in T BY <1>2, <1>6
<1>8. ASSUME NEW i \in 0..Len(b), i < Len(b), i \in T
      PROVE  i + 1 \in T
  <2>1. /\ i + 1 \in 1..Len(b) /\ Len(a) + (i + 1) \in 1..Len(ab)
        /\ (i + 1) - 1 = i /\ (Len(a) + (i + 1)) - 1 = Len(a) + i
    BY <1>1, <1>8
  <2>2. /\ r[Len(a) + (i + 1)] = ReadChar(r[Len(a) + i], ab[Len(a) + (i + 1)], mode)
        /\ rb[i + 1] = ReadChar(rb[i], b[i + 1], mode)
    BY <1>2, <2>1
  <2> QED BY <1>1, <1>8, <2>1, <2>2
<1>9. 0..Len(b) \subseteq T
  <2>1. Len(b) \in Nat OBVIOUS
  <2> HIDE DEF T
  <2> QED BY <1>7, <1>8, <2>1, UpTo
<1>10. r[Len(ab)] = rb[Len(b)]
  <2>1. Len(b) \in T
    <3>1. Len(b) \in 0..Len(b) OBVIOUS
    <3> QED BY <1>9, <3>1, Zenon
  <2>2. r[Len(a) + Len(b)] = rb[Len(b)] BY <2>1
  <2>3. Len(ab) = Len(a) + Len(b) BY <1>1
  <2> QED BY <2>2, <2>3
<1> QED BY <1>5, <1>9, <1>10 DEF ab, r, ra, rb, Read

LEMMA ReadInParts ==
  \A lexer : \A a, b \in Seq(Alphabet), mode \in BOOLEAN :
    Read(lexer, a \o b, mode) = Read(Read(lexer, a, mode), b, mode)
<1> SUFFICES ASSUME NEW lexer, NEW a \in Seq(Alphabet), NEW b \in Seq(Alphabet), NEW mode \in BOOLEAN
             PROVE  Read(lexer, a \o b, mode) = Read(Read(lexer, a, mode), b, mode)
  OBVIOUS
<1> QED BY ReadConcat

\* A text of one character.
LEMMA ReadOne ==
  ASSUME NEW lexer, NEW ch \in Alphabet, NEW mode \in BOOLEAN
  PROVE  Read(lexer, <<ch>>, mode) = ReadChar(lexer, ch, mode)
<1>1. <<ch>> \in Seq(Alphabet) /\ Len(<<ch>>) = 1 /\ <<ch>>[1] = ch OBVIOUS
<1> DEFINE text == <<ch>>
<1> HIDE DEF text
<1>2. /\ Reading(lexer, text, mode)[0] = lexer
      /\ \A i \in 1..Len(text) :
           Reading(lexer, text, mode)[i] = ReadChar(Reading(lexer, text, mode)[i - 1], text[i], mode)
  <2>1. text \in Seq(Alphabet) BY <1>1 DEF text
  <2> QED BY <2>1, ReadingOf
<1>3. Len(text) = 1 /\ text[1] = ch /\ 1 \in 1..Len(text) /\ 1 - 1 = 0 BY <1>1 DEF text
<1>4. Read(lexer, text, mode) = ReadChar(lexer, ch, mode) BY <1>2, <1>3 DEF Read
<1> QED BY <1>4 DEF text

\* A text and one more character.
LEMMA ReadMore ==
  ASSUME NEW lexer, NEW text \in Seq(Alphabet), NEW ch \in Alphabet, NEW mode \in BOOLEAN
  PROVE  Read(lexer, Append(text, ch), mode) = ReadChar(Read(lexer, text, mode), ch, mode)
<1>1. Append(text, ch) = text \o <<ch>> /\ <<ch>> \in Seq(Alphabet) OBVIOUS
<1>2. Read(lexer, text \o <<ch>>, mode) = Read(Read(lexer, text, mode), <<ch>>, mode)
  BY <1>1, ReadConcat
<1>3. Read(Read(lexer, text, mode), <<ch>>, mode) = ReadChar(Read(lexer, text, mode), ch, mode)
  BY ReadOne
<1> QED BY <1>1, <1>2, <1>3

\* A text is read into a lexer.
LEMMA ReadType ==
  ASSUME NEW lexer \in Lexers, NEW text \in Seq(Alphabet), NEW mode \in BOOLEAN
  PROVE  Read(lexer, text, mode) \in Lexers
BY ReadingType DEF Read

\* The empty text.
LEMMA ReadNone ==
  ASSUME NEW lexer, NEW mode \in BOOLEAN
  PROVE  Read(lexer, <<>>, mode) = lexer
<1>1. <<>> \in Seq(Alphabet) /\ Len(<<>>) = 0 OBVIOUS
<1> QED BY <1>1, ReadingOf DEF Read

\* A text of two characters.
LEMMA ReadTwo ==
  ASSUME NEW lexer, NEW a \in Alphabet, NEW b \in Alphabet, NEW mode \in BOOLEAN
  PROVE  Read(lexer, <<a, b>>, mode) = ReadChar(ReadChar(lexer, a, mode), b, mode)
<1> DEFINE text == <<a, b>>
<1>1. text \in Seq(Alphabet) /\ Len(text) = 2 /\ text[1] = a /\ text[2] = b OBVIOUS
<1> HIDE DEF text
<1> DEFINE r == Reading(lexer, text, mode)
<1>2. r[0] = lexer /\ \A i \in 1..Len(text) : r[i] = ReadChar(r[i - 1], text[i], mode)
  BY <1>1, ReadingOf
<1> HIDE DEF r
<1>3. 1 \in 1..Len(text) /\ 2 \in 1..Len(text) /\ 1 - 1 = 0 /\ 2 - 1 = 1 BY <1>1
<1>4. r[1] = ReadChar(lexer, a, mode) /\ r[2] = ReadChar(r[1], b, mode) BY <1>1, <1>2, <1>3
<1> QED BY <1>1, <1>4 DEF Read, r, text

-----------------------------------------------------------------------------
(* The server reads a value of formatValue as that value.                  *)

\* Inside a string in single quotes, behind some tokens.
InString(tokens, string) == Lexer(tokens, string, "string", "'")

\* It is a lexer.
LEMMA InStringType ==
  ASSUME NEW tokens \in Seq(Tokens), NEW string \in Seq(Alphabet)
  PROVE  InString(tokens, string) \in Lexers
BY AlphabetAssumption DEF InString, Lexer, Lexers, States, Marks

\* escapeString writes each character as the server reads it back, in both modes.
LEMMA ReadEscaped ==
  ASSUME NEW tokens, NEW string \in Seq(Alphabet), NEW ch \in Alphabet, NEW mode \in BOOLEAN
  PROVE  /\ Escaped(ch, mode) \in Seq(Alphabet)
         /\ Read(InString(tokens, string), Escaped(ch, mode), mode) = InString(tokens, Append(string, ch))
<1> DEFINE lexer == InString(tokens, string)
<1>1. "'" \in Alphabet /\ "\\" \in Alphabet BY AlphabetAssumption
<1>2. CASE ch = "'"
  <2>1. Escaped(ch, mode) = <<"'", "'">> BY <1>2 DEF Escaped
  <2>2. Read(lexer, <<"'", "'">>, mode) = ReadChar(ReadChar(lexer, "'", mode), "'", mode)
    BY <1>1, ReadTwo
  <2>3. ReadChar(lexer, "'", mode) = [lexer EXCEPT !.state = "quote"]
    BY DEF ReadChar, InString, Lexer
  <2>4. ReadChar(ReadChar(lexer, "'", mode), "'", mode) = InString(tokens, Append(string, "'"))
    <3>1. ReadChar(lexer, "'", mode) = Lexer(tokens, string, "quote", "'")
      BY <2>3 DEF InString, Lexer
    <3>2. ReadChar(Lexer(tokens, string, "quote", "'"), "'", mode)
          = InString(tokens, Append(string, "'"))
      BY DEF ReadChar, InString, Lexer
    <3> QED BY <3>1, <3>2, Zenon
  <2>5. <<"'", "'">> \in Seq(Alphabet) BY <1>1
  <2> QED BY <1>2, <2>1, <2>2, <2>4, <2>5
<1>3. CASE ch # "'" /\ ~mode /\ ch \in {"\\", "nl"}
  <2>1. Escaped(ch, mode) = <<"\\", ch>> BY <1>3 DEF Escaped
  <2>2. Read(lexer, <<"\\", ch>>, mode) = ReadChar(ReadChar(lexer, "\\", mode), ch, mode)
    BY <1>1, ReadTwo
  <2>3. ReadChar(lexer, "\\", mode) = [lexer EXCEPT !.state = "escaped"]
    BY <1>3 DEF ReadChar, InString, Lexer
  <2>4. ReadChar(ReadChar(lexer, "\\", mode), ch, mode) = InString(tokens, Append(string, ch))
    <3>1. ReadChar(lexer, "\\", mode) = Lexer(tokens, string, "escaped", "'")
      BY <2>3 DEF InString, Lexer
    <3>2. ReadChar(Lexer(tokens, string, "escaped", "'"), ch, mode)
          = InString(tokens, Append(string, ch))
      BY DEF ReadChar, InString, Lexer
    <3> QED BY <3>1, <3>2, Zenon
  <2> QED BY <1>1, <2>1, <2>2, <2>4
<1>4. CASE ch # "'" /\ ~(~mode /\ ch \in {"\\", "nl"})
  <2>1. Escaped(ch, mode) = <<ch>> BY <1>4 DEF Escaped
  <2>2. ReadChar(lexer, ch, mode) = InString(tokens, Append(string, ch))
    BY <1>4 DEF ReadChar, InString, Lexer
  <2> QED BY <2>1, <2>2, ReadOne
<1> QED BY <1>2, <1>3, <1>4

\* The characters of a string, escaped, are its characters again.
LEMMA ReadEscapes ==
  ASSUME NEW tokens, NEW string \in Seq(Alphabet), NEW mode \in BOOLEAN
  PROVE  LET escapes == Joined([i \in 1..Len(string) |-> Escaped(string[i], mode)])
         IN /\ escapes \in Seq(Alphabet)
            /\ Read(InString(tokens, <<>>), escapes, mode) = InString(tokens, string)
<1> DEFINE pieces == [i \in 1..Len(string) |-> Escaped(string[i], mode)]
           n == Len(string)
           Upto(i) == [k \in 1..i |-> string[k]]
<1>1. n \in Nat /\ Len(pieces) = n OBVIOUS
<1>2. \A i \in 1..n : pieces[i] = Escaped(string[i], mode) OBVIOUS
<1> HIDE DEF pieces
<1>3. PICK f : /\ f = [k \in 0..n |-> IF k = 0 THEN <<>> ELSE f[k - 1] \o pieces[k]]
               /\ Joined(pieces) = f[n]
  BY <1>1, JoinedDef
<1> DEFINE S == {i \in 0..n : /\ f[i] \in Seq(Alphabet)
                             /\ Read(InString(tokens, <<>>), f[i], mode) = InString(tokens, Upto(i))}
<1>4. 0 \in S
  <2>1. f[0] = <<>> /\ 0 \in 0..n BY <1>1, <1>3
  <2>2. Upto(0) = <<>> OBVIOUS
  <2>3. <<>> \in Seq(Alphabet) OBVIOUS
  <2> QED BY <2>1, <2>2, <2>3, ReadNone
<1>5. ASSUME NEW i \in 0..n, i < n, i \in S
      PROVE  i + 1 \in S
  <2>1. i + 1 \in 1..n /\ i + 1 \in 0..n /\ i + 1 # 0 /\ (i + 1) - 1 = i BY <1>5
  <2>2. string[i + 1] \in Alphabet BY <2>1
  <2>3. f[i + 1] = f[i] \o Escaped(string[i + 1], mode) BY <1>2, <1>3, <2>1
  <2>4. /\ Upto(i) \in Seq(Alphabet)
        /\ Append(Upto(i), string[i + 1]) = Upto(i + 1)
    <3>1. \A k \in 1..i : string[k] \in Alphabet BY <1>5
    <3>2. i \in Nat BY <1>5
    <3>3. Upto(i) \in Seq(Alphabet) BY <3>1, <3>2
    <3>4. Len(Upto(i)) = i BY <3>2
    <3> QED BY <3>2, <3>3, <3>4
  <2>5. /\ Escaped(string[i + 1], mode) \in Seq(Alphabet)
        /\ Read(InString(tokens, Upto(i)), Escaped(string[i + 1], mode), mode)
             = InString(tokens, Append(Upto(i), string[i + 1]))
    <3> HIDE DEF Upto
    <3> QED BY <2>2, <2>4, ReadEscaped
  <2> HIDE DEF Upto
  <2>6. f[i + 1] \in Seq(Alphabet) BY <1>5, <2>3, <2>5
  <2>7. Read(InString(tokens, <<>>), f[i + 1], mode)
          = Read(Read(InString(tokens, <<>>), f[i], mode), Escaped(string[i + 1], mode), mode)
    <3>1. f[i] \in Seq(Alphabet) BY <1>5
    <3>2. Escaped(string[i + 1], mode) \in Seq(Alphabet) BY <2>5
    <3>3. Read(InString(tokens, <<>>), f[i] \o Escaped(string[i + 1], mode), mode)
            = Read(Read(InString(tokens, <<>>), f[i], mode), Escaped(string[i + 1], mode), mode)
      BY <3>1, <3>2, ReadInParts, Zenon
    <3> QED BY <2>3, <3>3
  <2> QED BY <1>5, <2>1, <2>4, <2>5, <2>6, <2>7
<1>6. 0..n \subseteq S
  <2> HIDE DEF S
  <2> QED BY <1>1, <1>4, <1>5, UpTo
<1>7. n \in S BY <1>1, <1>6
<1>8. Upto(n) = string OBVIOUS
<1> HIDE DEF Upto
<1>9. Joined(pieces) \in Seq(Alphabet)
      /\ Read(InString(tokens, <<>>), Joined(pieces), mode) = InString(tokens, string)
  BY <1>3, <1>7, <1>8
<1> QED BY <1>9 DEF pieces

\* Characters that need no escape.
LEMMA ReadRaw ==
  ASSUME NEW tokens, NEW string \in Seq(Alphabet), NEW mode \in BOOLEAN,
         \A i \in 1..Len(string) : string[i] \notin {"'", "\\"}
  PROVE  Read(InString(tokens, <<>>), string, mode) = InString(tokens, string)
<1> DEFINE n == Len(string)
           Upto(i) == [k \in 1..i |-> string[k]]
           r == Reading(InString(tokens, <<>>), string, mode)
           S == {i \in 0..n : r[i] = InString(tokens, Upto(i))}
<1>1. /\ r[0] = InString(tokens, <<>>)
      /\ \A i \in 1..n : r[i] = ReadChar(r[i - 1], string[i], mode)
  BY ReadingOf
<1> HIDE DEF r
<1>2. 0 \in S
  <2>1. Upto(0) = <<>> OBVIOUS
  <2> QED BY <1>1, <2>1
<1>3. ASSUME NEW i \in 0..n, i < n, i \in S
      PROVE  i + 1 \in S
  <2>1. i + 1 \in 1..n /\ i + 1 \in 0..n /\ (i + 1) - 1 = i BY <1>3
  <2>2. r[i + 1] = ReadChar(InString(tokens, Upto(i)), string[i + 1], mode) BY <1>1, <1>3, <2>1
  <2>3. Append(Upto(i), string[i + 1]) = Upto(i + 1)
    <3>1. \A k \in 1..i : string[k] \in Alphabet BY <1>3
    <3>2. i \in Nat BY <1>3
    <3>3. Upto(i) \in Seq(Alphabet) BY <3>1, <3>2
    <3>4. Len(Upto(i)) = i BY <3>2
    <3> QED BY <3>2, <3>3, <3>4
  <2> HIDE DEF Upto
  <2>4. ReadChar(InString(tokens, Upto(i)), string[i + 1], mode)
          = InString(tokens, Append(Upto(i), string[i + 1]))
    BY <2>1 DEF ReadChar, InString, Lexer
  <2> QED BY <2>1, <2>2, <2>3, <2>4
<1>4. n \in S
  <2>1. n \in Nat OBVIOUS
  <2> HIDE DEF S
  <2>2. 0..n \subseteq S BY <1>2, <1>3, <2>1, UpTo
  <2> QED BY <2>1, <2>2
<1>5. Upto(n) = string OBVIOUS
<1> QED BY <1>4, <1>5 DEF r, Read

\* Where a value may be: nothing before it runs on into its literal.
ReadsSql(lexer) == lexer.state \in {"sql", "seen"} \/ (lexer.state = "quote" /\ lexer.mark = "\"")

\* In SQL a single quote begins a string, whatever the lexer has seen.
LEMMA ReadQuoteMark ==
  ASSUME NEW lexer, ReadsSql(lexer), NEW mode \in BOOLEAN
  PROVE  ReadChar(lexer, "'", mode) = InString(Flushed(lexer), <<>>)
<1>1. lexer.state = "sql" => Flushed(lexer) = lexer.tokens BY DEF Flushed
<1>2. ReadSql(Flushed(lexer), "'") = InString(Flushed(lexer), <<>>) BY DEF ReadSql, InString, Quotes
<1>3. ReadChar(lexer, "'", mode) = ReadSql(Flushed(lexer), "'") BY <1>1 DEF ReadChar, ReadsSql
<1> QED BY <1>2, <1>3

\* A string in single quotes is one literal, if its characters stay in it.
LEMMA ReadLiteral ==
  ASSUME NEW lexer \in Lexers, ReadsSql(lexer), NEW escapes \in Seq(Alphabet), NEW string, NEW mode \in BOOLEAN,
         Read(InString(Flushed(lexer), <<>>), escapes, mode) = InString(Flushed(lexer), string)
  PROVE  /\ <<"'">> \o escapes \o <<"'">> \in Seq(Alphabet)
         /\ Read(lexer, <<"'">> \o escapes \o <<"'">>, mode) = Lexer(Flushed(lexer), string, "quote", "'")
<1> DEFINE mark == <<"'">>
           a == mark \o escapes
<1>1. "'" \in Alphabet BY AlphabetAssumption
<1>2. mark \in Seq(Alphabet) BY <1>1
<1>3. Read(lexer, mark, mode) = InString(Flushed(lexer), <<>>) BY <1>1, ReadOne, ReadQuoteMark
<1>4. \A l : Read(l, mark, mode) = ReadChar(l, "'", mode) BY <1>1, ReadOne
<1> HIDE DEF mark
<1>5. a \in Seq(Alphabet) /\ Read(lexer, a, mode) = InString(Flushed(lexer), string)
  <2>1. a \in Seq(Alphabet) BY <1>2
  <2>2. Read(lexer, mark \o escapes, mode) = Read(Read(lexer, mark, mode), escapes, mode)
    BY <1>2, ReadConcat
  <2> QED BY <1>3, <2>1, <2>2
<1> HIDE DEF a
<1>6. a \o mark \in Seq(Alphabet) /\ Read(lexer, a \o mark, mode) = Read(Read(lexer, a, mode), mark, mode)
  <2>1. a \o mark \in Seq(Alphabet) BY <1>2, <1>5
  <2>2. Read(lexer, a \o mark, mode) = Read(Read(lexer, a, mode), mark, mode)
    BY <1>2, <1>5, ReadConcat
  <2> QED BY <2>1, <2>2
<1>7. ReadChar(InString(Flushed(lexer), string), "'", mode) = Lexer(Flushed(lexer), string, "quote", "'")
  BY DEF ReadChar, InString, Lexer
<1> QED BY <1>4, <1>5, <1>6, <1>7 DEF a, mark

\* The fields of a lexer.
LEMMA LexerFields ==
  ASSUME NEW tokens, NEW string, NEW state, NEW mark
  PROVE  /\ Lexer(tokens, string, state, mark).tokens = tokens
         /\ Lexer(tokens, string, state, mark).string = string
         /\ Lexer(tokens, string, state, mark).state = state
         /\ Lexer(tokens, string, state, mark).mark = mark
BY DEF Lexer

\* A plain value or a prefix: it begins no string and no comment.
PlainText(text) ==
  /\ text \in Seq(Alphabet) \ {<<>>}
  /\ text[1] # "*"
  /\ \A i \in 1..Len(text) :
       /\ text[i] \notin Quotes \cup {"/"}
       /\ text[i] = "-" => i < Len(text) /\ text[i + 1] # "-"

\* A plain text, token by token.
AsCharacters(text) == [i \in 1..Len(text) |-> Character(text[i])]

\* They are tokens.
LEMMA CharactersType ==
  ASSUME NEW text \in Seq(Alphabet)
  PROVE  AsCharacters(text) \in Seq(Tokens) /\ Len(AsCharacters(text)) = Len(text)
<1>1. \A ch \in Alphabet : Character(ch) \in Tokens
  <2> TAKE ch \in Alphabet
  <2>1. ch \in Marks BY DEF Marks
  <2>2. "character" \in Kinds BY DEF Kinds
  <2>3. <<>> \in Seq(Alphabet) OBVIOUS
  <2> QED BY <2>1, <2>2, <2>3 DEF Character, Token, Tokens
<1>2. Len(text) \in Nat /\ \A i \in 1..Len(text) : Character(text[i]) \in Tokens BY <1>1
<1> QED BY <1>2 DEF AsCharacters

\* A plain text in SQL is read as its characters, unless it completes a double minus.
LEMMA ReadPlain ==
  ASSUME NEW lexer \in Lexers, ReadsSql(lexer), NEW text, PlainText(text), NEW mode \in BOOLEAN,
         ~(lexer.state = "seen" /\ lexer.mark = "-" /\ text[1] = "-")
  PROVE  Read(lexer, text, mode) = Lexer(Flushed(lexer) \o AsCharacters(text), <<>>, "sql", "")
<1> DEFINE n == Len(text)
           F == Flushed(lexer)
           Upto(i) == [k \in 1..i |-> Character(text[k])]
           r == Reading(lexer, text, mode)
           At_(i) == IF text[i] = "-" THEN Lexer(F \o Upto(i - 1), <<>>, "seen", "-")
                                     ELSE Lexer(F \o Upto(i), <<>>, "sql", "")
           S == {i \in 0..n : i = 0 \/ r[i] = At_(i)}
<1>1. /\ r[0] = lexer
      /\ \A i \in 1..n : r[i] = ReadChar(r[i - 1], text[i], mode)
  BY ReadingOf DEF PlainText
<1>2. /\ n \in Nat /\ n # 0
      /\ \A i \in 1..n : text[i] \in Alphabet /\ text[i] \notin Quotes \cup {"/"}
      /\ text[1] # "*"
      /\ \A i \in 1..n : text[i] = "-" => i < n /\ text[i + 1] # "-"
  BY DEF PlainText
<1>3. F \in Seq(Tokens) BY FlushedType
<1>4. \A i \in 0..n : Upto(i) \in Seq(Tokens) /\ Len(Upto(i)) = i
  <2> TAKE i \in 0..n
  <2>1. \A k \in 1..i : Character(text[k]) \in Tokens
    <3> TAKE k \in 1..i
    <3>1. text[k] \in Alphabet BY <1>2
    <3>2. text[k] \in Marks BY <3>1 DEF Marks
    <3>3. "character" \in Kinds BY DEF Kinds
    <3>4. <<>> \in Seq(Alphabet) OBVIOUS
    <3> QED BY <3>2, <3>3, <3>4 DEF Character, Token, Tokens
  <2>2. i \in Nat BY <1>2
  <2> QED BY <2>1, <2>2
<1>5. \A i \in 1..n : F \o Upto(i) = Append(F \o Upto(i - 1), Character(text[i]))
  <2> TAKE i \in 1..n
  <2>1. i - 1 \in 0..n /\ i \in 0..n BY <1>2
  <2>2. Upto(i) \in Seq(Tokens) /\ Len(Upto(i)) = i /\ Upto(i - 1) \in Seq(Tokens) /\ Len(Upto(i - 1)) = i - 1
    BY <1>4, <2>1
  <2>3. \A k \in 1..i : Upto(i)[k] = Character(text[k]) OBVIOUS
  <2>4. \A k \in 1..(i - 1) : Upto(i - 1)[k] = Character(text[k]) OBVIOUS
  <2>5. Character(text[i]) \in Tokens BY <2>2, <2>3
  <2> HIDE DEF Upto, F
  <2>6. Upto(i) = Append(Upto(i - 1), Character(text[i])) BY <2>2, <2>3, <2>4, <2>5
  <2> QED BY <1>3, <2>2, <2>5, <2>6
<1>6. F \o Upto(0) = F BY <1>3
<1> HIDE DEF r, Upto, F
<1>7. \A l, ch : ch \in Alphabet /\ ch \notin Quotes \cup {"/"} =>
        ReadSql(l, ch) = IF ch = "-" THEN Lexer(l, <<>>, "seen", "-")
                         ELSE Lexer(Append(l, Character(ch)), <<>>, "sql", "")
  BY DEF ReadSql
<1>8. 0 \in S BY <1>2
<1>9. ASSUME NEW i \in 0..n, i < n, i \in S
      PROVE  i + 1 \in S
  <2>0. i = 0 \/ r[i] = At_(i) BY <1>9
  <2> HIDE DEF S, n
  <2>1. i + 1 \in 1..n /\ i + 1 \in 0..n /\ (i + 1) - 1 = i BY <1>2, <1>9
  <2>2. r[i + 1] = ReadChar(r[i], text[i + 1], mode) BY <1>1, <2>1
  <2>3. F \o Upto(i + 1) = Append(F \o Upto(i), Character(text[i + 1])) BY <1>5, <2>1
  <2>4. ReadSql(F \o Upto(i), text[i + 1]) = At_(i + 1) BY <1>2, <1>7, <2>1, <2>3
  <2>5. ReadChar(r[i], text[i + 1], mode) = ReadSql(F \o Upto(i), text[i + 1])
    <3>1. CASE i = 0
      <4>1. r[i] = lexer /\ F \o Upto(i) = Flushed(lexer) BY <1>1, <1>6, <3>1 DEF F
      <4>2. text[i + 1] # "*" /\ text[i + 1] \notin Quotes \cup {"/"} BY <1>2, <2>1, <3>1
      <4>3. ~(lexer.state = "seen" /\ lexer.mark = "-" /\ text[i + 1] = "-") BY <3>1
      <4>4. lexer.state = "sql" => Flushed(lexer) = lexer.tokens BY DEF Flushed
      <4>5. CASE lexer.state = "sql" BY <4>1, <4>4, <4>5 DEF ReadChar
      <4>6. CASE lexer.state = "seen" BY <4>1, <4>2, <4>3, <4>6 DEF ReadChar
      <4>7. CASE lexer.state = "quote"
        <5>1. text[i + 1] # lexer.mark BY <4>2, <4>7 DEF ReadsSql, Quotes
        <5> QED BY <4>1, <4>7, <5>1 DEF ReadChar
      <4> QED BY <4>5, <4>6, <4>7 DEF ReadsSql
    <3>2. CASE i # 0 /\ text[i] = "-"
      <4>1. i \in 1..n /\ text[i + 1] # "-" BY <1>2, <2>1, <3>2
      <4>2. r[i] = Lexer(F \o Upto(i - 1), <<>>, "seen", "-") BY <2>0, <3>2
      <4>4. F \o Upto(i) = Append(F \o Upto(i - 1), Character("-")) BY <1>5, <3>2, <4>1
      <4>3. Flushed(r[i]) = F \o Upto(i) BY <4>2, <4>4 DEF Flushed, Lexer
      <4>5. r[i].state = "seen" /\ r[i].mark = "-" BY <4>2 DEF Lexer
      <4> QED BY <4>1, <4>3, <4>5 DEF ReadChar
    <3>3. CASE i # 0 /\ text[i] # "-"
      <4> DEFINE here == r[i]
      <4>1. here = Lexer(F \o Upto(i), <<>>, "sql", "") BY <2>0, <3>3
      <4> HIDE DEF here
      <4>2. here.state = "sql" /\ here.tokens = F \o Upto(i) BY <4>1 DEF Lexer
      <4>3. ReadChar(here, text[i + 1], mode) = ReadSql(F \o Upto(i), text[i + 1])
        BY <4>2 DEF ReadChar
      <4> QED BY <4>3 DEF here
    <3> QED BY <3>1, <3>2, <3>3
  <2> QED BY <2>1, <2>2, <2>4, <2>5 DEF S
<1>10. n \in S
  <2> HIDE DEF S
  <2>1. 0..n \subseteq S BY <1>2, <1>8, <1>9, UpTo
  <2> QED BY <1>2, <2>1
<1>11. r[n] = Lexer(F \o Upto(n), <<>>, "sql", "")
  <2>1. r[n] = At_(n) BY <1>2, <1>10
  <2>2. text[n] # "-" BY <1>2
  <2> QED BY <2>1, <2>2
<1> QED BY <1>11 DEF r, F, Upto, AsCharacters, Read

\* A value as formatValue meets it: the prefix is plain, and what is quoted without
\* escapes needs none.
ProperValue(value) ==
  /\ value.type \in {"string", "quoted", "plain"}
  /\ value.prefix \in Seq(Alphabet) /\ value.text \in Seq(Alphabet)
  /\ IF value.type = "string" THEN value.prefix = <<>> ELSE PlainText(value.prefix)
  /\ value.type = "quoted" => \A i \in 1..Len(value.text) : value.text[i] \notin {"'", "\\"}

\* A string in single quotes.
Literal(string) == Token("literal", "'", string)

\* It is a token.
LEMMA LiteralType ==
  ASSUME NEW string \in Seq(Alphabet)
  PROVE  Literal(string) \in Tokens
<1>1. "literal" \in Kinds BY DEF Kinds
<1>2. "'" \in Marks BY AlphabetAssumption DEF Marks
<1> QED BY <1>1, <1>2 DEF Literal, Token, Tokens

\* A literal that ends a text is one of its tokens.
LEMMA FlushedQuote ==
  ASSUME NEW tokens, NEW string
  PROVE  /\ Flushed(Lexer(tokens, string, "quote", "'")) = Append(tokens, Literal(string))
         /\ Lexer(tokens, string, "quote", "'").state = "quote"
         /\ Lexer(tokens, string, "quote", "'").mark = "'"
BY DEF Flushed, Lexer, Literal

\* The server reads a formatted value as the tokens of the value, whatever stands in
\* front of it in SQL.
LEMMA ReadsValue ==
  ASSUME NEW lexer \in Lexers, ReadsSql(lexer), NEW value, ProperValue(value), NEW mode \in BOOLEAN,
         ~(lexer.state = "seen" /\ lexer.mark = "-" /\ At(value.prefix, 1) = "-")
  PROVE  LET read == Read(lexer, FormatValue(value, mode), mode)
         IN /\ FormatValue(value, mode) \in Seq(Alphabet)
            /\ ValueTokens(value) \in Seq(Tokens)
            /\ Flushed(read) = Flushed(lexer) \o ValueTokens(value)
            /\ IF value.type = "plain"
               THEN read = Lexer(Flushed(lexer) \o ValueTokens(value), <<>>, "sql", "")
               ELSE read.state = "quote" /\ read.mark = "'"
<1> DEFINE F == Flushed(lexer)
           pre == value.prefix
           txt == value.text
<1>1. F \in Seq(Tokens) BY FlushedType
<1>2. AsCharacters(pre) \in Seq(Tokens) /\ ValueTokens(value) = AsCharacters(pre) \o (IF value.type = "plain" THEN <<>> ELSE <<Literal(txt)>>)
  BY CharactersType DEF ProperValue, ValueTokens, AsCharacters, Literal
<1>3. txt \in Seq(Alphabet) /\ Literal(txt) \in Tokens BY LiteralType DEF ProperValue
<1> DEFINE literal == <<Literal(txt)>>
<1>4. /\ literal \in Seq(Tokens)
      /\ \A s \in Seq(Tokens) : s \o literal = Append(s, Literal(txt))
  BY <1>3
<1>5. CASE value.type = "string"
  <2> DEFINE escapes == Joined([i \in 1..Len(txt) |-> Escaped(txt[i], mode)])
  <2>1. escapes \in Seq(Alphabet) /\ Read(InString(F, <<>>), escapes, mode) = InString(F, txt)
    BY <1>3, ReadEscapes
  <2>2. FormatValue(value, mode) = <<"'">> \o escapes \o <<"'">> BY <1>5 DEF FormatValue, EscapeString
  <2> HIDE DEF escapes
  <2>3. /\ FormatValue(value, mode) \in Seq(Alphabet)
        /\ Read(lexer, FormatValue(value, mode), mode) = Lexer(F, txt, "quote", "'")
    BY <2>1, <2>2, ReadLiteral
  <2>4. ValueTokens(value) = literal
    <3>1. pre = <<>> /\ AsCharacters(pre) = <<>> BY <1>5 DEF ProperValue, AsCharacters
    <3>2. ValueTokens(value) = AsCharacters(pre) \o literal BY <1>2, <1>5
    <3> HIDE DEF literal
    <3>3. <<>> \o literal = literal BY <1>4, ConcatEmptySeq
    <3> QED BY <3>1, <3>2, <3>3
  <2>5. F \o ValueTokens(value) = Append(F, Literal(txt))
    <3> HIDE DEF literal, F, txt
    <3> QED BY <1>1, <1>4, <2>4
  <2>6. ValueTokens(value) \in Seq(Tokens)
    <3> HIDE DEF literal
    <3> QED BY <1>4, <2>4
  <2> HIDE DEF F, txt, literal
  <2> DEFINE read == Read(lexer, FormatValue(value, mode), mode)
  <2>7. read = Lexer(F, txt, "quote", "'") BY <2>3
  <2>8. Flushed(read) = Append(F, Literal(txt)) /\ read.state = "quote" /\ read.mark = "'"
    <3> HIDE DEF read
    <3> QED BY <2>7, FlushedQuote
  <2> QED BY <1>5, <2>3, <2>5, <2>6, <2>8 DEF F
<1>6. CASE value.type = "plain"
  <2>1. PlainText(pre) /\ pre \in Seq(Alphabet) /\ At(pre, 1) = pre[1]
    <3>1. PlainText(pre) BY <1>6 DEF ProperValue
    <3>2. pre \in Seq(Alphabet) /\ pre # <<>> BY <3>1 DEF PlainText
    <3>3. 1 \in 1..Len(pre)
      <4> HIDE DEF pre
      <4> QED BY <3>2
    <3> QED BY <3>1, <3>2, <3>3 DEF At
  <2>2. Read(lexer, pre, mode) = Lexer(F \o AsCharacters(pre), <<>>, "sql", "") BY <2>1, ReadPlain
  <2>3. FormatValue(value, mode) = pre BY <1>6 DEF FormatValue
  <2>4. ValueTokens(value) = AsCharacters(pre) BY <1>2, <1>6
  <2>5. \A t : Flushed(Lexer(t, <<>>, "sql", "")) = t BY DEF Flushed, Lexer
  <2>6. Read(lexer, FormatValue(value, mode), mode) = Lexer(F \o ValueTokens(value), <<>>, "sql", "")
    BY <2>2, <2>3, <2>4
  <2>7. FormatValue(value, mode) \in Seq(Alphabet) /\ ValueTokens(value) \in Seq(Tokens)
    BY <1>2, <2>1, <2>3, <2>4
  <2> QED BY <1>6, <2>5, <2>6, <2>7
<1>7. CASE value.type = "quoted"
  <2>1. PlainText(pre) /\ pre \in Seq(Alphabet) /\ At(pre, 1) = pre[1]
    <3>1. PlainText(pre) BY <1>7 DEF ProperValue
    <3>2. pre \in Seq(Alphabet) /\ pre # <<>> BY <3>1 DEF PlainText
    <3>3. 1 \in 1..Len(pre)
      <4> HIDE DEF pre
      <4> QED BY <3>2
    <3> QED BY <3>1, <3>2, <3>3 DEF At
  <2> DEFINE behind == Lexer(F \o AsCharacters(pre), <<>>, "sql", "")
             mark == <<"'">>
             quoted == mark \o txt \o mark
  <2>2. Read(lexer, pre, mode) = behind BY <2>1, ReadPlain
  <2>3. FormatValue(value, mode) = pre \o quoted
    <3>1. FormatValue(value, mode) = pre \o mark \o txt \o mark BY <1>7 DEF FormatValue
    <3>3. "'" \in Alphabet BY AlphabetAssumption
    <3>2. mark \in Seq(Alphabet) BY <3>3
    <3> HIDE DEF mark, pre, txt
    <3> QED BY <1>3, <2>1, <3>1, <3>2
  <2>4. behind \in Lexers /\ ReadsSql(behind) /\ Flushed(behind) = F \o AsCharacters(pre)
    <3>1. F \o AsCharacters(pre) \in Seq(Tokens) BY <1>1, <1>2
    <3>2. <<>> \in Seq(Alphabet) /\ "sql" \in States /\ "" \in Marks BY DEF States, Marks
    <3> DEFINE tokens == F \o AsCharacters(pre)
    <3> HIDE DEF tokens
    <3>3. Lexer(tokens, <<>>, "sql", "") \in Lexers BY <3>1, <3>2 DEF Lexer, Lexers, tokens
    <3>4. ReadsSql(Lexer(tokens, <<>>, "sql", "")) /\ Flushed(Lexer(tokens, <<>>, "sql", "")) = tokens
      BY DEF ReadsSql, Flushed, Lexer
    <3> QED BY <3>3, <3>4 DEF tokens
  <2> HIDE DEF behind
  <2>5. Read(InString(Flushed(behind), <<>>), txt, mode) = InString(Flushed(behind), txt)
    BY <1>3, <1>7, ReadRaw DEF ProperValue
  <2>6. quoted \in Seq(Alphabet) /\ Read(behind, quoted, mode) = Lexer(F \o AsCharacters(pre), txt, "quote", "'")
    <3>1. /\ quoted \in Seq(Alphabet)
          /\ Read(behind, quoted, mode) = Lexer(Flushed(behind), txt, "quote", "'")
      BY <1>3, <2>4, <2>5, ReadLiteral
    <3> QED BY <2>4, <3>1
  <2> HIDE DEF quoted
  <2>7. FormatValue(value, mode) \in Seq(Alphabet) BY <2>1, <2>3, <2>6
  <2>8. Read(lexer, FormatValue(value, mode), mode) = Lexer(F \o AsCharacters(pre), txt, "quote", "'")
    <3>2. pre \in Seq(Alphabet) /\ quoted \in Seq(Alphabet) BY <2>1, <2>6
    <3> HIDE DEF pre
    <3>1. Read(lexer, pre \o quoted, mode) = Read(Read(lexer, pre, mode), quoted, mode)
      BY <3>2, ReadConcat
    <3> QED BY <2>2, <2>3, <2>6, <3>1
  <2>9. ValueTokens(value) \in Seq(Tokens) /\ Append(F \o AsCharacters(pre), Literal(txt)) = F \o ValueTokens(value)
    <3> DEFINE chars == AsCharacters(pre)
    <3>1. chars \in Seq(Tokens) /\ ValueTokens(value) = Append(chars, Literal(txt)) BY <1>2, <1>4, <1>7
    <3> DEFINE token == Literal(txt)
    <3>2. token \in Tokens BY <1>3
    <3> HIDE DEF F, chars, token
    <3>3. Append(chars, token) \in Seq(Tokens) /\ Append(F \o chars, token) = F \o Append(chars, token)
      BY <1>1, <3>1, <3>2, AppendConcat, Zenon
    <3> QED BY <3>1, <3>3 DEF chars, token
  <2> DEFINE read == Read(lexer, FormatValue(value, mode), mode)
             tokens == F \o AsCharacters(pre)
  <2>10. read = Lexer(tokens, txt, "quote", "'") BY <2>8
  <2>11. Flushed(read) = Append(tokens, Literal(txt)) /\ read.state = "quote" /\ read.mark = "'"
    <3> HIDE DEF read, tokens, txt
    <3> QED BY <2>10, FlushedQuote
  <2> QED BY <1>7, <2>7, <2>9, <2>11
<1> QED BY <1>5, <1>6, <1>7 DEF ProperValue

\* One more token is bound behind the others.
LEMMA BoundMore ==
  ASSUME NEW tokens \in Seq(Tokens), NEW token \in Tokens, NEW params
  PROVE  Bound(Append(tokens, token), params) = BindToken(Bound(tokens, params), token, params)
<1> DEFINE n == Len(tokens)
           more == Append(tokens, token)
           start == [tokens |-> <<>>, count |-> 0]
<1>1. n \in Nat /\ Len(more) = n + 1 /\ more[n + 1] = token /\ \A k \in 1..n : more[k] = tokens[k]
  OBVIOUS
<1> HIDE DEF n, more
<1>2. PICK f : /\ f = [k \in 0..n |-> IF k = 0 THEN start ELSE BindToken(f[k - 1], tokens[k], params)]
               /\ Bound(tokens, params) = f[n]
  BY <1>1, BoundDef DEF n
<1>3. PICK g : /\ g = [k \in 0..Len(more) |-> IF k = 0 THEN start ELSE BindToken(g[k - 1], more[k], params)]
               /\ Bound(more, params) = g[Len(more)]
  <2>1. Len(more) \in Nat BY <1>1
  <2> QED BY <2>1, BoundDef
<1> HIDE DEF start
<1> DEFINE S == {k \in 0..n : g[k] = f[k]}
<1>4. 0 \in S BY <1>1, <1>2, <1>3
<1>5. ASSUME NEW k \in 0..n, k < n, k \in S
      PROVE  k + 1 \in S
  <2>1. k + 1 \in 1..n /\ k + 1 \in 0..n /\ k + 1 \in 0..Len(more) /\ k + 1 # 0 /\ (k + 1) - 1 = k
    BY <1>1, <1>5
  <2>2. f[k + 1] = BindToken(f[k], tokens[k + 1], params) BY <1>2, <2>1
  <2>3. g[k + 1] = BindToken(g[k], more[k + 1], params) BY <1>3, <2>1
  <2> QED BY <1>1, <1>5, <2>1, <2>2, <2>3
<1>6. n \in S
  <2> HIDE DEF S
  <2>1. 0..n \subseteq S BY <1>1, <1>4, <1>5, UpTo
  <2> QED BY <1>1, <2>1
<1>7. n + 1 \in 0..Len(more) /\ n + 1 # 0 /\ (n + 1) - 1 = n BY <1>1
<1>8. g[n + 1] = BindToken(g[n], more[n + 1], params) BY <1>3, <1>7
<1> QED BY <1>1, <1>2, <1>3, <1>6, <1>8 DEF more

\* No tokens have no placeholders.
LEMMA BoundNone ==
  ASSUME NEW params
  PROVE  Bound(<<>>, params) = [tokens |-> <<>>, count |-> 0]
<1>1. PICK f : /\ f = [k \in 0..Len(<<>>) |->
                          IF k = 0 THEN [tokens |-> <<>>, count |-> 0]
                          ELSE BindToken(f[k - 1], <<>>[k], params)]
               /\ Bound(<<>>, params) = f[Len(<<>>)]
  BY BoundDef
<1> QED BY <1>1

-----------------------------------------------------------------------------
(* The scanner of interpolateParams and the server, over one statement.    *)

\* The scanner of the client and the lexer of the server agree, with the character that
\* comes next: when the scanner has taken it as well, and when it has not.
AgreesTaken(place, state, mark, next) ==
  \/ place \in Quotes /\ mark = place /\ (state = "escaped" \/ (state = "quote" /\ next = place))
  \/ place = "block" /\ state = "seen" /\ mark = "/" /\ next = "*"
  \/ place = "line" /\ state = "seen" /\ mark = "-" /\ next = "-"
  \/ place = "sql" /\ state = "star" /\ next = "/"

\* The same, when the scanner is about to look at the next character.
AgreesAt(place, state, mark, next) ==
  \/ place \in Quotes /\ mark = place /\ (state = "string" \/ (state = "escaped" /\ next = ""))
  \/ place = "block" /\ (state = "block" \/ (state = "star" /\ next # "/"))
  \/ place = "line" /\ state = "line"
  \/ place = "sql" /\ \/ state = "sql"
                      \/ state = "seen" /\ mark = "/" /\ next # "*"
                      \/ state = "seen" /\ mark = "-" /\ next # "-"
                      \/ state = "quote" /\ mark \in Quotes /\ next # mark

\* Where the scanner is and where the server is, with the next character to come.
Agrees(scan, lexer, next) ==
  IF scan.taken THEN AgreesTaken(scan.place, lexer.state, lexer.mark, next)
                ELSE AgreesAt(scan.place, lexer.state, lexer.mark, next)

\* Where a scanner can be.
Scans == [place : Quotes \cup {"sql", "block", "line"}, taken : BOOLEAN]

\* The scanner behind a character, as TakeChar moves it.
Moved(scan, ch, next) == IF scan.taken THEN To(scan.place, FALSE) ELSE Scan(scan.place, ch, next)

\* Agrees, for what Scan yields.
LEMMA AgreesTo ==
  ASSUME NEW place, NEW lexer, NEW next
  PROVE  /\ AgreesTaken(place, lexer.state, lexer.mark, next) => Agrees(To(place, TRUE), lexer, next)
         /\ AgreesAt(place, lexer.state, lexer.mark, next) => Agrees(To(place, FALSE), lexer, next)
<1>1. To(place, TRUE).taken = TRUE /\ To(place, TRUE).place = place BY DEF To
<1>2. To(place, FALSE).taken = FALSE /\ To(place, FALSE).place = place BY DEF To
<1> QED BY <1>1, <1>2 DEF Agrees

\* A scanner moves to a place of a scanner.
LEMMA MovedType ==
  ASSUME NEW scan \in Scans, NEW ch, NEW next
  PROVE  Moved(scan, ch, next) \in Scans
<1>1. \A p \in Quotes \cup {"sql", "block", "line"} : To(p, TRUE) \in Scans /\ To(p, FALSE) \in Scans
  BY DEF To, Scans
<1>2. scan.place \in Quotes \cup {"sql", "block", "line"} /\ scan.taken \in BOOLEAN BY DEF Scans
<1>3. Scan(scan.place, ch, next) \in Scans
  <2> DEFINE place == scan.place
  <2>1. CASE place \in Quotes BY <1>1, <2>1 DEF Scan, Quotes
  <2>2. CASE place = "block" BY <1>1, <2>2 DEF Scan, Quotes
  <2>3. CASE place = "line" BY <1>1, <2>3 DEF Scan, Quotes
  <2>4. CASE place = "sql"
    <3> HIDE DEF place
    <3>1. ch \in Quotes => To(ch, FALSE) \in Scans BY <1>1
    <3>2. Scan(place, ch, next) \in Scans BY <1>1, <2>4, <3>1 DEF Scan, Quotes
    <3> QED BY <3>2 DEF place
  <2> QED BY <1>2, <2>1, <2>2, <2>3, <2>4
<1> QED BY <1>1, <1>2, <1>3 DEF Moved

\* Where the server is behind a character of SQL.
LEMMA ReadSqlFields ==
  ASSUME NEW tokens, NEW ch
  PROVE  /\ ReadSql(tokens, ch).state
              = IF ch \in Quotes THEN "string" ELSE IF ch \in {"/", "-"} THEN "seen" ELSE "sql"
         /\ ReadSql(tokens, ch).mark = IF ch \in Quotes \cup {"/", "-"} THEN ch ELSE ""
BY DEF ReadSql, Lexer

\* Names for these two.
SqlState(ch) == IF ch \in Quotes THEN "string" ELSE IF ch \in {"/", "-"} THEN "seen" ELSE "sql"
SqlMark(ch) == IF ch \in Quotes \cup {"/", "-"} THEN ch ELSE ""

\* Where the server is behind any character.
LEMMA ReadCharFields ==
  ASSUME NEW lexer \in Lexers, NEW ch, NEW mode \in BOOLEAN
  PROVE  LET read == ReadChar(lexer, ch, mode)
         IN CASE lexer.state = "sql" -> read.state = SqlState(ch) /\ read.mark = SqlMark(ch)
              [] lexer.state = "seen" ->
                   IF lexer.mark = "/" /\ ch = "*" THEN read.state = "block"
                   ELSE IF lexer.mark = "-" /\ ch = "-" THEN read.state = "line"
                   ELSE read.state = SqlState(ch) /\ read.mark = SqlMark(ch)
              [] lexer.state = "block" -> read.state = IF ch = "*" THEN "star" ELSE "block"
              [] lexer.state = "star" ->
                   read.state = IF ch = "/" THEN "sql" ELSE IF ch = "*" THEN "star" ELSE "block"
              [] lexer.state = "line" -> read.state = IF ch = "nl" THEN "sql" ELSE "line"
              [] lexer.state = "escaped" -> read.state = "string" /\ read.mark = lexer.mark
              [] lexer.state = "string" ->
                   /\ read.mark = lexer.mark
                   /\ read.state = IF ch = "\\" /\ ~mode THEN "escaped"
                                   ELSE IF ch = lexer.mark THEN "quote" ELSE "string"
              [] OTHER ->
                   IF ch = lexer.mark THEN read.state = "string" /\ read.mark = lexer.mark
                   ELSE read.state = SqlState(ch) /\ read.mark = SqlMark(ch)
<1>1. \A tokens : ReadSql(tokens, ch).state = SqlState(ch) /\ ReadSql(tokens, ch).mark = SqlMark(ch)
  BY ReadSqlFields DEF SqlState, SqlMark
<1>2. lexer.state \in States BY DEF Lexers
<1>3. /\ \A s : [lexer EXCEPT !.state = s].state = s /\ [lexer EXCEPT !.state = s].mark = lexer.mark
      /\ [lexer EXCEPT !.state = "string", !.string = Append(@, ch)].state = "string"
      /\ [lexer EXCEPT !.state = "string", !.string = Append(@, ch)].mark = lexer.mark
  BY DEF Lexers
<1> QED BY <1>1, <1>2, <1>3 DEF ReadChar, States

\* A character of the statement keeps the two in agreement, and one takes it for a
\* placeholder exactly if the other does.  In literal mode it is no backslash.
LEMMA AgreesStep ==
  ASSUME NEW scan \in Scans, NEW lexer \in Lexers, NEW ch \in Alphabet, NEW next, NEW mode \in BOOLEAN,
         mode => ch # "\\", Agrees(scan, lexer, ch)
  PROVE  /\ Agrees(Moved(scan, ch, next), ReadChar(lexer, ch, mode), next)
         /\ IsPlaceholder(scan, ch) <=> ch = "?" /\ lexer.state \in {"sql", "seen", "quote"}
         /\ ReadChar(lexer, ch, mode).state \in {"seen", "quote"} => ReadChar(lexer, ch, mode).mark = ch
<1> DEFINE read == ReadChar(lexer, ch, mode)
           moved == Moved(scan, ch, next)
           place == scan.place
<1>1. /\ ch # "" /\ scan.taken \in BOOLEAN /\ place \in Quotes \cup {"sql", "block", "line"}
      /\ lexer.state \in States
  BY AlphabetAssumption DEF Scans, Lexers
<1>2. IsPlaceholder(scan, ch) <=> ch = "?" /\ lexer.state \in {"sql", "seen", "quote"}
  BY <1>1 DEF IsPlaceholder, Agrees, AgreesTaken, AgreesAt, Quotes
<1>3. \A s, m : AgreesAt(place, s, m, next) \/ AgreesTaken(place, s, m, next) => TRUE OBVIOUS
<1>4. CASE scan.taken
  <2>1. moved = To(place, FALSE) BY <1>4 DEF Moved
  <2>2. AgreesTaken(place, lexer.state, lexer.mark, ch) BY <1>4 DEF Agrees
  <2>3. AgreesAt(place, read.state, read.mark, next) /\ read.state \notin {"seen", "quote"}
    <3> HIDE DEF read, place
    <3>1. CASE lexer.state = "escaped"
      <4>1. read.state = "string" /\ read.mark = lexer.mark BY <3>1, ReadCharFields DEF read
      <4> QED BY <2>2, <3>1, <4>1 DEF AgreesTaken, AgreesAt
    <3>2. CASE lexer.state = "quote"
      <4>1. ch = lexer.mark BY <2>2, <3>2 DEF AgreesTaken
      <4>2. read.state = "string" /\ read.mark = lexer.mark BY <3>2, <4>1, ReadCharFields DEF read
      <4> QED BY <2>2, <3>2, <4>2 DEF AgreesTaken, AgreesAt
    <3>3. CASE lexer.state = "seen"
      <4>1. read.state = place /\ place \in {"block", "line"} BY <2>2, <3>3, ReadCharFields DEF read, AgreesTaken
      <4> QED BY <4>1 DEF AgreesAt
    <3>4. CASE lexer.state = "star"
      <4>1. read.state = "sql" /\ place = "sql" BY <2>2, <3>4, ReadCharFields DEF read, AgreesTaken
      <4> QED BY <4>1 DEF AgreesAt
    <3> QED BY <2>2, <3>1, <3>2, <3>3, <3>4 DEF AgreesTaken
  <2> HIDE DEF read, place
  <2>4. Agrees(moved, read, next) BY <2>1, <2>3, AgreesTo
  <2> QED BY <1>2, <2>3, <2>4 DEF read
<1>5. CASE ~scan.taken
  <2>1. moved = Scan(place, ch, next) BY <1>5 DEF Moved
  <2>2. AgreesAt(place, lexer.state, lexer.mark, ch) BY <1>5 DEF Agrees
  <2> HIDE DEF read, place, moved
  <2>3. CASE lexer.state = "string" \/ lexer.state = "escaped"
    <3>1. lexer.state = "string" /\ place \in Quotes /\ lexer.mark = place
      BY <1>1, <2>2, <2>3 DEF AgreesAt
    <3>2. /\ read.mark = place
          /\ read.state = IF ch = "\\" /\ ~mode THEN "escaped" ELSE IF ch = place THEN "quote" ELSE "string"
      BY <3>1, ReadCharFields DEF read
    <3>3. moved = IF next # "" /\ (ch = "\\" \/ (ch = place /\ next = place)) THEN To(place, TRUE)
                  ELSE IF ch = place THEN To("sql", FALSE) ELSE To(place, FALSE)
      BY <2>1, <3>1 DEF Scan, Quotes
    <3>4. place # "\\" /\ place # "" BY <3>1 DEF Quotes
    <3>5. Agrees(moved, read, next)
      <4>1. CASE ch = "\\"
        BY <3>1, <3>2, <3>3, <3>4, <4>1, AgreesTo DEF AgreesAt, AgreesTaken
      <4>2. CASE ch = place
        BY <3>1, <3>2, <3>3, <3>4, <4>2, AgreesTo DEF AgreesAt, AgreesTaken
      <4>3. CASE ch # "\\" /\ ch # place
        BY <3>1, <3>2, <3>3, <3>4, <4>3, AgreesTo DEF AgreesAt, AgreesTaken
      <4> QED BY <4>1, <4>2, <4>3
    <3>6. read.state \in {"seen", "quote"} => read.mark = ch BY <3>2
    <3> QED BY <1>2, <3>5, <3>6 DEF read, moved
  <2>4. CASE lexer.state = "block" \/ lexer.state = "star"
    <3>1. place = "block" /\ (lexer.state = "star" => ch # "/") BY <2>2, <2>4 DEF AgreesAt
    <3>2. read.state = IF ch = "*" THEN "star" ELSE "block" BY <2>4, <3>1, ReadCharFields DEF read
    <3>3. moved = IF ch = "*" /\ next = "/" THEN To("sql", TRUE) ELSE To("block", FALSE)
      BY <2>1, <3>1 DEF Scan, Quotes
    <3>4. Agrees(moved, read, next) BY <3>2, <3>3, AgreesTo DEF AgreesAt, AgreesTaken
    <3>5. read.state \notin {"seen", "quote"} BY <3>2
    <3> QED BY <1>2, <3>4, <3>5 DEF read, moved
  <2>5. CASE lexer.state = "line"
    <3>1. place = "line" BY <2>2, <2>5 DEF AgreesAt
    <3>2. read.state = IF ch = "nl" THEN "sql" ELSE "line" BY <2>5, ReadCharFields DEF read
    <3>3. moved = IF ch = "nl" THEN To("sql", FALSE) ELSE To("line", FALSE)
      BY <2>1, <3>1 DEF Scan, Quotes
    <3>4. Agrees(moved, read, next) BY <3>2, <3>3, AgreesTo DEF AgreesAt, AgreesTaken
    <3>5. read.state \notin {"seen", "quote"} BY <3>2
    <3> QED BY <1>2, <3>4, <3>5 DEF read, moved
  <2>6. CASE lexer.state \in {"sql", "seen", "quote"}
    <3>1. /\ place = "sql"
          /\ ~(lexer.state = "seen" /\ lexer.mark = "/" /\ ch = "*")
          /\ ~(lexer.state = "seen" /\ lexer.mark = "-" /\ ch = "-")
          /\ ~(lexer.state = "quote" /\ ch = lexer.mark)
      BY <2>2, <2>6 DEF AgreesAt, Quotes
    <3>2. read.state = SqlState(ch) /\ read.mark = SqlMark(ch) BY <2>6, <3>1, ReadCharFields DEF read
    <3>3. moved = IF ch \in Quotes THEN To(ch, FALSE)
                  ELSE IF ch = "/" /\ next = "*" THEN To("block", TRUE)
                  ELSE IF ch = "-" /\ next = "-" THEN To("line", TRUE) ELSE To("sql", FALSE)
      BY <2>1, <3>1 DEF Scan, Quotes
    <3>4. Agrees(moved, read, next)
      <4>1. CASE ch \in Quotes
        BY <3>2, <3>3, <4>1, AgreesTo DEF AgreesAt, AgreesTaken, SqlState, SqlMark
      <4>2. CASE ch = "/"
        BY <3>2, <3>3, <4>2, AgreesTo DEF AgreesAt, AgreesTaken, SqlState, SqlMark, Quotes
      <4>3. CASE ch = "-"
        BY <3>2, <3>3, <4>3, AgreesTo DEF AgreesAt, AgreesTaken, SqlState, SqlMark, Quotes
      <4>4. CASE ch \notin Quotes /\ ch # "/" /\ ch # "-"
        BY <3>2, <3>3, <4>4, AgreesTo DEF AgreesAt, AgreesTaken, SqlState, SqlMark
      <4> QED BY <4>1, <4>2, <4>3, <4>4
    <3>5. read.state \in {"seen", "quote"} => read.mark = ch BY <3>2 DEF SqlState, SqlMark, Quotes
    <3> QED BY <1>2, <3>4, <3>5 DEF read, moved
  <2> QED BY <1>1, <2>3, <2>4, <2>5, <2>6 DEF States
<1> QED BY <1>1, <1>4, <1>5

-----------------------------------------------------------------------------
(* The text that is sent and the statement it is made of, as the server    *)
(* reads them.                                                             *)

\* One lexer has read what another has, with the parameters in place.
Follows(t, s, params) ==
  /\ t.state = s.state /\ t.mark = s.mark /\ t.string = s.string
  /\ t.tokens = Bound(s.tokens, params).tokens

\* A token that is no placeholder stays as it is.
LEMMA BoundOther ==
  ASSUME NEW tokens \in Seq(Tokens), NEW token \in Tokens, token # Character("?"), NEW params
  PROVE  /\ Bound(Append(tokens, token), params).tokens = Append(Bound(tokens, params).tokens, token)
         /\ Bound(Append(tokens, token), params).count = Bound(tokens, params).count
<1>1. Bound(Append(tokens, token), params) = BindToken(Bound(tokens, params), token, params) BY BoundMore
<1> QED BY <1>1 DEF BindToken

\* A text that follows another still does when both end.
LEMMA FlushedFollows ==
  ASSUME NEW s \in Lexers, NEW t \in Lexers, NEW params, Follows(t, s, params),
         s.state = "seen" => s.mark # "?"
  PROVE  /\ Flushed(t) = Bound(Flushed(s), params).tokens
         /\ Bound(Flushed(s), params).count = Bound(s.tokens, params).count
<1>1. Ending(t) = Ending(s) BY DEF Follows, Ending
<1>2. Ending(s) \in Tokens /\ Ending(s) # Character("?") BY EndingType
<1>3. s.tokens \in Seq(Tokens) BY DEF Lexers
<1>4. /\ Bound(Append(s.tokens, Ending(s)), params).tokens = Append(Bound(s.tokens, params).tokens, Ending(s))
      /\ Bound(Append(s.tokens, Ending(s)), params).count = Bound(s.tokens, params).count
  BY <1>2, <1>3, BoundOther
<1> QED BY <1>1, <1>4, FlushedEnding DEF Follows

\* The same character of SQL keeps it following.
LEMMA ReadSqlFollows ==
  ASSUME NEW tokens \in Seq(Tokens), NEW ch \in Alphabet \ {"?"}, NEW params
  PROVE  /\ Follows(ReadSql(Bound(tokens, params).tokens, ch), ReadSql(tokens, ch), params)
         /\ Bound(ReadSql(tokens, ch).tokens, params).count = Bound(tokens, params).count
<1>1. Character(ch) \in Tokens /\ Character(ch) # Character("?")
  <2>1. ch \in Marks BY DEF Marks
  <2>2. "character" \in Kinds BY DEF Kinds
  <2>3. <<>> \in Seq(Alphabet) OBVIOUS
  <2>4. Character(ch) \in Tokens BY <2>1, <2>2, <2>3 DEF Character, Token, Tokens
  <2>5. Character(ch).mark = ch /\ Character("?").mark = "?" BY DEF Character, Token
  <2> QED BY <2>4, <2>5
<1>2. /\ Bound(Append(tokens, Character(ch)), params).tokens = Append(Bound(tokens, params).tokens, Character(ch))
      /\ Bound(Append(tokens, Character(ch)), params).count = Bound(tokens, params).count
  BY <1>1, BoundOther
<1> DEFINE bound == Bound(tokens, params).tokens
           more == Append(tokens, Character(ch))
           moreBound == Append(bound, Character(ch))
<1>3. \A l, string, state, mark :
        /\ Lexer(l, string, state, mark).tokens = l /\ Lexer(l, string, state, mark).string = string
        /\ Lexer(l, string, state, mark).state = state /\ Lexer(l, string, state, mark).mark = mark
  BY LexerFields
<1>4. CASE ch \in Quotes
  <2>1. ReadSql(tokens, ch) = Lexer(tokens, <<>>, "string", ch) /\ ReadSql(bound, ch) = Lexer(bound, <<>>, "string", ch)
    BY <1>4 DEF ReadSql
  <2> QED BY <1>3, <2>1 DEF Follows
<1>5. CASE ch \notin Quotes /\ ch \in {"/", "-"}
  <2>1. ReadSql(tokens, ch) = Lexer(tokens, <<>>, "seen", ch) /\ ReadSql(bound, ch) = Lexer(bound, <<>>, "seen", ch)
    BY <1>5 DEF ReadSql
  <2> QED BY <1>3, <2>1 DEF Follows
<1>6. CASE ch \notin Quotes /\ ch \notin {"/", "-"}
  <2> DEFINE rs == ReadSql(tokens, ch)
             rt == ReadSql(bound, ch)
  <2>1. rs = Lexer(more, <<>>, "sql", "") /\ rt = Lexer(moreBound, <<>>, "sql", "") BY <1>6 DEF ReadSql
  <2>2. Bound(more, params).tokens = moreBound /\ Bound(more, params).count = Bound(tokens, params).count
    BY <1>2
  <2> HIDE DEF more, moreBound, bound, rs, rt
  <2>3. rs.tokens = more /\ rs.string = <<>> /\ rs.state = "sql" /\ rs.mark = "" BY <2>1 DEF Lexer
  <2>4. rt.tokens = moreBound /\ rt.string = <<>> /\ rt.state = "sql" /\ rt.mark = "" BY <2>1 DEF Lexer
  <2>5. Follows(rt, rs, params) /\ Bound(rs.tokens, params).count = Bound(tokens, params).count
    BY <2>2, <2>3, <2>4 DEF Follows
  <2> QED BY <2>5 DEF rs, rt, bound
<1> QED BY <1>4, <1>5, <1>6

\* Any character that is no placeholder keeps it following.
LEMMA ReadCharFollows ==
  ASSUME NEW s \in Lexers, NEW t \in Lexers, NEW params, Follows(t, s, params),
         NEW ch \in Alphabet, NEW mode \in BOOLEAN,
         s.state = "seen" => s.mark # "?",
         ~(ch = "?" /\ s.state \in {"sql", "seen", "quote"})
  PROVE  /\ Follows(ReadChar(t, ch, mode), ReadChar(s, ch, mode), params)
         /\ Bound(ReadChar(s, ch, mode).tokens, params).count = Bound(s.tokens, params).count
<1> DEFINE rs == ReadChar(s, ch, mode)
           rt == ReadChar(t, ch, mode)
<1>1. /\ t.state = s.state /\ t.mark = s.mark /\ t.string = s.string /\ s.state \in States
      /\ t.tokens = Bound(s.tokens, params).tokens /\ s.tokens \in Seq(Tokens)
  BY DEF Follows, Lexers
<1>2. CASE s.state = "sql" /\ ch # "?"
  <2>1. rs = ReadSql(s.tokens, ch) /\ rt = ReadSql(t.tokens, ch) BY <1>1, <1>2 DEF ReadChar
  <2> QED BY <1>1, <1>2, <2>1, ReadSqlFollows
<1>3. CASE s.state \in {"seen", "quote"} /\ rs = ReadSql(Flushed(s), ch)
        /\ rt = ReadSql(Flushed(t), ch) /\ ch # "?"
  <2>1. Flushed(t) = Bound(Flushed(s), params).tokens /\ Bound(Flushed(s), params).count = Bound(s.tokens, params).count
    BY FlushedFollows
  <2>2. Flushed(s) \in Seq(Tokens) BY FlushedType
  <2> QED BY <1>3, <2>1, <2>2, ReadSqlFollows
<1>4. \A x \in {"block", "line", "star", "sql", "escaped", "quote"} :
        /\ Follows([t EXCEPT !.state = x], [s EXCEPT !.state = x], params)
        /\ [s EXCEPT !.state = x].tokens = s.tokens
  BY <1>1 DEF Follows, Lexers
<1>5. /\ Follows([t EXCEPT !.state = "string", !.string = Append(@, ch)],
                 [s EXCEPT !.state = "string", !.string = Append(@, ch)], params)
      /\ [s EXCEPT !.state = "string", !.string = Append(@, ch)].tokens = s.tokens
  BY <1>1 DEF Follows, Lexers
<1>6. CASE s.state = "seen" /\ ch # "?"
  <2>1. CASE s.mark = "/" /\ ch = "*"
    <3>1. rs = [s EXCEPT !.state = "block"] /\ rt = [t EXCEPT !.state = "block"] BY <1>1, <1>6, <2>1 DEF ReadChar
    <3> QED BY <1>4, <3>1
  <2>2. CASE s.mark = "-" /\ ch = "-"
    <3>1. rs = [s EXCEPT !.state = "line"] /\ rt = [t EXCEPT !.state = "line"] BY <1>1, <1>6, <2>2 DEF ReadChar
    <3> QED BY <1>4, <3>1
  <2>3. CASE ~(s.mark = "/" /\ ch = "*") /\ ~(s.mark = "-" /\ ch = "-")
    <3>1. rs = ReadSql(Flushed(s), ch) /\ rt = ReadSql(Flushed(t), ch) BY <1>1, <1>6, <2>3 DEF ReadChar
    <3> QED BY <1>3, <1>6, <3>1
  <2> QED BY <2>1, <2>2, <2>3
<1>7. CASE s.state = "quote" /\ ch # "?"
  <2>1. CASE ch = s.mark
    <3>1. /\ rs = [s EXCEPT !.state = "string", !.string = Append(@, ch)]
          /\ rt = [t EXCEPT !.state = "string", !.string = Append(@, ch)]
      BY <1>1, <1>7, <2>1 DEF ReadChar
    <3> QED BY <1>5, <3>1
  <2>2. CASE ch # s.mark
    <3>1. rs = ReadSql(Flushed(s), ch) /\ rt = ReadSql(Flushed(t), ch) BY <1>1, <1>7, <2>2 DEF ReadChar
    <3> QED BY <1>3, <1>7, <3>1
  <2> QED BY <2>1, <2>2
<1>8. CASE s.state = "block"
  <2>1. IF ch = "*" THEN rs = [s EXCEPT !.state = "star"] /\ rt = [t EXCEPT !.state = "star"] ELSE rs = s /\ rt = t
    BY <1>1, <1>8 DEF ReadChar
  <2> QED BY <1>4, <2>1
<1>9. CASE s.state = "star"
  <2>1. IF ch = "/" THEN rs = [s EXCEPT !.state = "sql"] /\ rt = [t EXCEPT !.state = "sql"]
        ELSE IF ch = "*" THEN rs = s /\ rt = t
        ELSE rs = [s EXCEPT !.state = "block"] /\ rt = [t EXCEPT !.state = "block"]
    BY <1>1, <1>9 DEF ReadChar
  <2> QED BY <1>4, <2>1
<1>10. CASE s.state = "line"
  <2>1. IF ch = "nl" THEN rs = [s EXCEPT !.state = "sql"] /\ rt = [t EXCEPT !.state = "sql"] ELSE rs = s /\ rt = t
    BY <1>1, <1>10 DEF ReadChar
  <2> QED BY <1>4, <2>1
<1>11. CASE s.state = "escaped"
  <2>1. /\ rs = [s EXCEPT !.state = "string", !.string = Append(@, ch)]
        /\ rt = [t EXCEPT !.state = "string", !.string = Append(@, ch)]
    BY <1>1, <1>11 DEF ReadChar
  <2> QED BY <1>5, <2>1
<1>12. CASE s.state = "string"
  <2>1. IF ch = "\\" /\ ~mode THEN rs = [s EXCEPT !.state = "escaped"] /\ rt = [t EXCEPT !.state = "escaped"]
        ELSE IF ch = s.mark THEN rs = [s EXCEPT !.state = "quote"] /\ rt = [t EXCEPT !.state = "quote"]
        ELSE /\ rs = [s EXCEPT !.state = "string", !.string = Append(@, ch)]
             /\ rt = [t EXCEPT !.state = "string", !.string = Append(@, ch)]
    BY <1>1, <1>12 DEF ReadChar
  <2> QED BY <1>4, <1>5, <2>1
<1> HIDE DEF rs, rt
<1> QED BY <1>1, <1>2, <1>6, <1>7, <1>8, <1>9, <1>10, <1>11, <1>12 DEF States, rs, rt

-----------------------------------------------------------------------------
(* The loop of interpolateParams.                                          *)

\* The states of the loop.
Loops == [scan : Scans, paramIndex : Nat, sent : BOOLEAN, result : Seq(Alphabet)]

\* What the client has written so far reads as what the server has read so far, with the
\* parameters in place; right behind a string the server still waits whether it is over.
Matches(loop, s, next, params, mode) ==
  /\ Agrees(loop.scan, s, next)
  /\ Bound(s.tokens, params).count = loop.paramIndex
  /\ LET t == Read(Empty, loop.result, mode)
     IN \/ Follows(t, s, params)
        \/ /\ s.state = "sql" /\ t.state = "quote" /\ t.mark = "'"
           /\ Flushed(t) = Bound(s.tokens, params).tokens

\* The server begins as a lexer.
LEMMA EmptyType == Empty \in Lexers
<1>1. <<>> \in Seq(Alphabet) /\ <<>> \in Seq(Tokens) OBVIOUS
<1>2. "sql" \in States BY DEF States
<1>3. "" \in Marks BY DEF Marks
<1> QED BY <1>1, <1>2, <1>3 DEF Empty, Lexer, Lexers

\* What the server has seen, when the two agree, is no placeholder.
LEMMA AgreesSeen ==
  ASSUME NEW scan, NEW lexer, NEW next, Agrees(scan, lexer, next), lexer.state = "seen"
  PROVE  lexer.mark # "?"
BY DEF Agrees, AgreesTaken, AgreesAt

\* A character that is no placeholder is copied.
LEMMA CopyMatches ==
  ASSUME NEW loop \in Loops, loop.sent, NEW s \in Lexers, NEW ch \in Alphabet, NEW next, NEW params,
         NEW mode \in BOOLEAN, mode => ch # "\\",
         Matches(loop, s, ch, params, mode),
         ~(ch = "?" /\ s.state \in {"sql", "seen", "quote"}),
         ~Follows(Read(Empty, loop.result, mode), s, params) => ch # "'"
  PROVE  LET more == TakeChar(loop, ch, next, params, mode)
         IN more \in Loops /\ more.sent /\ more.paramIndex = loop.paramIndex
              /\ Matches(more, ReadChar(s, ch, mode), next, params, mode)
              /\ Follows(Read(Empty, more.result, mode), ReadChar(s, ch, mode), params)
<1> DEFINE more == TakeChar(loop, ch, next, params, mode)
           t == Read(Empty, loop.result, mode)
           rs == ReadChar(s, ch, mode)
           rt == ReadChar(t, ch, mode)
           result == Append(loop.result, ch)
           moved == Moved(loop.scan, ch, next)
<1>1. /\ loop.scan \in Scans /\ loop.result \in Seq(Alphabet) /\ loop.paramIndex \in Nat
      /\ Agrees(loop.scan, s, ch) /\ Bound(s.tokens, params).count = loop.paramIndex
  BY DEF Loops, Matches
<1>2. /\ Agrees(moved, rs, next) /\ moved \in Scans /\ ~IsPlaceholder(loop.scan, ch)
  BY <1>1, AgreesStep, MovedType
<1>3. result \in Seq(Alphabet) BY <1>1
<1>4. more = [loop EXCEPT !.scan = moved, !.result = result] BY <1>2 DEF TakeChar, Moved
<1>5. /\ more \in Loops /\ more.sent /\ more.paramIndex = loop.paramIndex
      /\ more.scan = moved /\ more.result = result
  <2> HIDE DEF moved, result, more
  <2> QED BY <1>2, <1>3, <1>4 DEF Loops
<1>6. Read(Empty, result, mode) = rt BY <1>1, ReadMore
<1>7. t \in Lexers BY <1>1, EmptyType, ReadType
<1>8. s.state = "seen" => s.mark # "?" BY <1>1, AgreesSeen
<1>9. Follows(rt, rs, params) /\ Bound(rs.tokens, params).count = Bound(s.tokens, params).count
  <2> HIDE DEF t
  <2>1. CASE Follows(t, s, params) BY <1>7, <1>8, <2>1, ReadCharFollows
  <2>2. CASE ~Follows(t, s, params)
    <3>1. /\ s.state = "sql" /\ t.state = "quote" /\ t.mark = "'" /\ ch # "'" /\ ch # "?"
          /\ Flushed(t) = Bound(s.tokens, params).tokens /\ s.tokens \in Seq(Tokens)
      BY <2>2 DEF Matches, Lexers, t
    <3>2. rs = ReadSql(s.tokens, ch) /\ rt = ReadSql(Bound(s.tokens, params).tokens, ch)
      BY <3>1 DEF ReadChar
    <3> QED BY <3>1, <3>2, ReadSqlFollows
  <2> QED BY <2>1, <2>2
<1> HIDE DEF more, t, rs, rt, moved, result
<1>10. Matches(more, rs, next, params, mode) BY <1>1, <1>2, <1>5, <1>6, <1>9 DEF Matches
<1> QED BY <1>5, <1>6, <1>9, <1>10 DEF more, rs

\* A placeholder is replaced by the literal of its parameter.
LEMMA BindMatches ==
  ASSUME NEW loop \in Loops, loop.sent, NEW s \in Lexers, NEW next, NEW params,
         NEW mode \in BOOLEAN, Matches(loop, s, "?", params, mode),
         s.state \in {"sql", "seen", "quote"}, s.state = "quote" => s.mark # "'",
         Follows(Read(Empty, loop.result, mode), s, params),
         loop.paramIndex # Len(params), Storable(params[loop.paramIndex + 1]),
         ProperValue(params[loop.paramIndex + 1]),
         ~(s.state = "seen" /\ s.mark = "-" /\ At(params[loop.paramIndex + 1].prefix, 1) = "-")
  PROVE  LET more == TakeChar(loop, "?", next, params, mode)
         IN more \in Loops /\ more.sent /\ more.paramIndex = loop.paramIndex + 1
              /\ Matches(more, ReadChar(s, "?", mode), next, params, mode)
<1> DEFINE more == TakeChar(loop, "?", next, params, mode)
           t == Read(Empty, loop.result, mode)
           rs == ReadChar(s, "?", mode)
           value == params[loop.paramIndex + 1]
           literal == FormatValue(value, mode)
           rt == Read(t, literal, mode)
           result == loop.result \o literal
<1>1. /\ loop.scan \in Scans /\ loop.result \in Seq(Alphabet) /\ loop.paramIndex \in Nat
      /\ Agrees(loop.scan, s, "?") /\ Bound(s.tokens, params).count = loop.paramIndex
  BY DEF Loops, Matches
<1>2. "?" \in Alphabet /\ "?" # "\\" BY AlphabetAssumption
<1>3. IsPlaceholder(loop.scan, "?") BY <1>1, <1>2, AgreesStep
<1>4. more = [loop EXCEPT !.paramIndex = @ + 1, !.result = result] BY <1>3 DEF TakeChar
<1>5. t \in Lexers BY <1>1, EmptyType, ReadType
<1>6. /\ t.state = s.state /\ t.mark = s.mark
      /\ s.state = "quote" => s.mark \in Quotes
      /\ s.state = "seen" => s.mark # "?"
  BY <1>1 DEF Follows, Agrees, AgreesTaken, AgreesAt
<1>7. ReadsSql(t) BY <1>6 DEF ReadsSql, Quotes
<1> HIDE DEF t, value
<1>8. /\ literal \in Seq(Alphabet) /\ ValueTokens(value) \in Seq(Tokens)
      /\ Flushed(rt) = Flushed(t) \o ValueTokens(value)
      /\ IF value.type = "plain" THEN rt = Lexer(Flushed(t) \o ValueTokens(value), <<>>, "sql", "")
         ELSE rt.state = "quote" /\ rt.mark = "'"
  <2>1. ProperValue(value) /\ ~(t.state = "seen" /\ t.mark = "-" /\ At(value.prefix, 1) = "-")
    BY <1>6 DEF value
  <2> QED BY <1>5, <1>7, <2>1, ReadsValue
<1> HIDE DEF literal
<1>9. result \in Seq(Alphabet) /\ Read(Empty, result, mode) = rt
  <2>1. result \in Seq(Alphabet)
    <3>1. loop.result \in Seq(Alphabet) /\ literal \in Seq(Alphabet) BY <1>1, <1>8
    <3> QED BY <3>1
  <2>2. Read(Empty, loop.result \o literal, mode) = Read(Read(Empty, loop.result, mode), literal, mode)
    <3>1. loop.result \in Seq(Alphabet) /\ literal \in Seq(Alphabet) BY <1>1, <1>8, Zenon
    <3> QED BY <3>1, ReadInParts, Zenon
  <2> QED BY <2>1, <2>2 DEF t
<1> HIDE DEF result
<1>10. /\ more \in Loops /\ more.sent /\ more.paramIndex = loop.paramIndex + 1
       /\ more.scan = loop.scan /\ more.result = result
  <2>1. loop.paramIndex + 1 \in Nat /\ result \in Seq(Alphabet) BY <1>1, <1>9
  <2> DEFINE index == loop.paramIndex + 1
  <2>2. more = [loop EXCEPT !.paramIndex = index, !.result = result] BY <1>4
  <2> HIDE DEF more, index
  <2>3. index \in Nat BY <2>1 DEF index
  <2>4. more \in Loops /\ more.sent /\ more.paramIndex = index /\ more.scan = loop.scan /\ more.result = result
    BY <2>1, <2>2, <2>3 DEF Loops
  <2> QED BY <2>4 DEF index
<1>11. rs = Lexer(Append(Flushed(s), Character("?")), <<>>, "sql", "")
  <2>1. s.state = "quote" => s.mark # "?" BY <1>6 DEF Quotes
  <2>2. s.state = "sql" => Flushed(s) = s.tokens BY DEF Flushed
  <2>3. rs = ReadSql(Flushed(s), "?") BY <2>1, <2>2 DEF ReadChar
  <2> QED BY <2>3 DEF ReadSql, Quotes
<1> DEFINE tokens == Append(Flushed(s), Character("?"))
<1>14. rs.state = "sql" /\ rs.tokens = tokens /\ rs.string = <<>> /\ rs.mark = ""
  <2>1. rs = Lexer(tokens, <<>>, "sql", "") BY <1>11
  <2> HIDE DEF rs, tokens
  <2> QED BY <2>1 DEF Lexer
<1>12. Bound(tokens, params).tokens = Flushed(rt) /\ Bound(tokens, params).count = loop.paramIndex + 1
  <2>1. /\ Flushed(t) = Bound(Flushed(s), params).tokens
        /\ Bound(Flushed(s), params).count = Bound(s.tokens, params).count
    BY <1>5, <1>6, FlushedFollows DEF t
  <2>2. Flushed(s) \in Seq(Tokens) /\ Character("?") \in Tokens
    <3>1. "?" \in Marks BY <1>2 DEF Marks
    <3>2. "character" \in Kinds BY DEF Kinds
    <3>3. <<>> \in Seq(Alphabet) OBVIOUS
    <3> QED BY <3>1, <3>2, <3>3, FlushedType DEF Character, Token, Tokens
  <2>3. Bound(tokens, params) = BindToken(Bound(Flushed(s), params), Character("?"), params)
    BY <2>2, BoundMore
  <2>4. /\ Bound(tokens, params).tokens = Bound(Flushed(s), params).tokens \o ValueTokens(value)
        /\ Bound(tokens, params).count = loop.paramIndex + 1
    <3> DEFINE before == Bound(Flushed(s), params)
               after == Bound(tokens, params)
    <3>1. before.count = loop.paramIndex BY <1>1, <2>1
    <3>2. after = [tokens |-> before.tokens \o ValueTokens(params[before.count + 1]), count |-> before.count + 1]
      BY <2>3 DEF BindToken
    <3> HIDE DEF before, after
    <3>3. after.tokens = before.tokens \o ValueTokens(params[before.count + 1]) /\ after.count = before.count + 1
      BY <3>2
    <3> QED BY <3>1, <3>3 DEF before, after, value
  <2> QED BY <1>8, <2>1, <2>4
<1>13. Agrees(loop.scan, rs, next)
  <2>1. ~loop.scan.taken /\ loop.scan.place = "sql" BY <1>3 DEF IsPlaceholder
  <2> HIDE DEF rs
  <2> QED BY <1>14, <2>1 DEF Agrees, AgreesAt
<1> HIDE DEF tokens
<1>15. Follows(rt, rs, params) \/ (rt.state = "quote" /\ rt.mark = "'")
  <2>1. CASE value.type = "plain"
    <3> DEFINE bound == Bound(tokens, params).tokens
    <3>1. rt = Lexer(bound, <<>>, "sql", "") BY <1>8, <1>12, <2>1
    <3> HIDE DEF rt, rs, bound
    <3>2. rt.state = "sql" /\ rt.tokens = bound /\ rt.string = <<>> /\ rt.mark = ""
      BY <3>1 DEF Lexer
    <3> QED BY <1>14, <3>2 DEF Follows, bound
  <2>2. CASE value.type # "plain" BY <1>8, <2>2
  <2> QED BY <2>1, <2>2
<1> HIDE DEF rt, rs, more
<1>16. Matches(more, rs, next, params, mode) BY <1>9, <1>10, <1>12, <1>13, <1>14, <1>15 DEF Matches
<1> QED BY <1>10, <1>16 DEF more, rs

\* Whatever the text, the parameters and the mode: every character of the text is read
\* as the server reads it, so every placeholder gets its value and nothing else does.
THEOREM ParametersBound ==
  ASSUME NEW text \in Seq(Alphabet), NEW params, Len(params) \in Nat,
         \A k \in 1..Len(params) : ProperValue(params[k]),
         NEW mode \in BOOLEAN, mode => NoBackslash(text),
         Spaced(text, mode), NoDoubleMinus(text, params)
  PROVE  BoundTo(text, params, mode)
<1> DEFINE n == Len(text)
           P == ServerPlaceholders(text, mode)
           r == Reading(Empty, text, mode)
           c(i) == Cardinality(P \cap 1..i)
           Given(i) == c(i) <= Len(params) /\ \A k \in 1..c(i) : Storable(params[k])
<1>1. n \in Nat /\ P \subseteq 1..n
      /\ \A i \in 1..n : i \in P <=> text[i] = "?" /\ r[i - 1].state \in {"sql", "seen", "quote"}
  BY DEF ServerPlaceholders
<1>2. \A i \in 1..n : text[i] \in Alphabet /\ (mode => text[i] # "\\")
  BY DEF NoBackslash
<1>3. PICK f : /\ f = [k \in 0..n |-> IF k = 0 THEN Start
                                     ELSE TakeChar(f[k - 1], text[k], At(text, k + 1), params, mode)]
               /\ InterpolateParams(text, params, mode) = f[n]
  <2>1. Len(text) \in Nat OBVIOUS
  <2> HIDE DEF P, r, c
  <2>2. \E f : /\ f = [k \in 0..Len(text) |->
                          IF k = 0 THEN Start
                          ELSE TakeChar(f[k - 1], text[k], At(text, k + 1), params, mode)]
                /\ InterpolateParams(text, params, mode) = f[Len(text)]
    BY <2>1, InterpolateDef
  <2> QED BY <2>2
<1>4. /\ r[0] = Empty
      /\ \A i \in 1..n : r[i] = ReadChar(r[i - 1], text[i], mode)
      /\ \A i \in 0..n : r[i] \in Lexers
  BY EmptyType, ReadingOf, ReadingType
<1>5. \A i \in 0..n : i < n => At(text, i + 1) = text[i + 1]
  <2> SUFFICES ASSUME NEW i \in 0..n, i < n PROVE At(text, i + 1) = text[i + 1] OBVIOUS
  <2>1. i + 1 \in 1..Len(text) BY <1>1
  <2> QED BY <2>1 DEF At
<1>6. \A i \in P : At(text, i - 1) # "'" /\ At(text, i + 1) \notin {"'", "?"} BY DEF Spaced
<1>7. \A k \in 1..Len(params), i \in 1..n :
        At(params[k].prefix, 1) = "-" /\ text[i] = "-" => At(text, i + 1) # "?"
  BY DEF NoDoubleMinus
<1>8. \A i \in 1..n : At(text, i) = text[i] BY DEF At
<1>9. /\ c(0) = 0 /\ \A i \in 0..n : c(i) \in Nat
      /\ \A i \in 0..n : i < n => c(i + 1) = IF i + 1 \in P THEN c(i) + 1 ELSE c(i)
      /\ c(n) = Cardinality(P)
  <2> HIDE DEF P, n
  <2>1. \A i \in 0..n : IsFiniteSet(P \cap 1..i)
    <3> TAKE i \in 0..n
    <3>1. IsFiniteSet(1..i) BY <1>1, FS_Interval
    <3>2. P \cap 1..i \in SUBSET (1..i) OBVIOUS
    <3> QED BY <3>1, <3>2, FS_Subset
  <2>2. P \cap 1..0 = {} /\ P \cap 1..n = P
    <3>1. 1..0 = {} OBVIOUS
    <3>2. P \subseteq 1..n BY <1>1
    <3> QED BY <3>1, <3>2, Zenon
  <2>3. ASSUME NEW i \in 0..n, i < n
        PROVE  c(i + 1) = IF i + 1 \in P THEN c(i) + 1 ELSE c(i)
    <3>1. i \in Nat BY <1>1
    <3>2. CASE i + 1 \in P
      <4>1. P \cap 1..(i + 1) = (P \cap 1..i) \cup {i + 1} /\ i + 1 \notin P \cap 1..i BY <3>1, <3>2
      <4> QED BY <2>1, <3>2, <4>1, FS_AddElement
    <3>3. CASE i + 1 \notin P
      <4>1. P \cap 1..(i + 1) = P \cap 1..i BY <3>1, <3>3
      <4> QED BY <3>3, <4>1
    <3> QED BY <3>2, <3>3
  <2>4. \A i \in 0..n : c(i) \in Nat BY <2>1, FS_CardinalityType
  <2> QED BY <2>2, <2>3, <2>4, FS_EmptySet
<1> HIDE DEF n, P, r, c
<1> DEFINE Sent(i) ==
             /\ f[i].paramIndex = c(i) /\ Given(i)
             /\ r[i].state \in {"seen", "quote"} => i # 0 /\ r[i].mark = text[i]
             /\ Matches(f[i], r[i], At(text, i + 1), params, mode)
             /\ Follows(Read(Empty, f[i].result, mode), r[i], params) \/ i \in P
           S == {i \in 0..n : f[i] \in Loops /\ IF f[i].sent THEN Sent(i) ELSE ~Given(i)}
<1>10. 0 \in S
  <2>1. f[0] = Start /\ 0 \in 0..n BY <1>1, <1>3
  <2>2. Start \in Loops /\ Start.sent /\ Start.paramIndex = 0 /\ Start.result = <<>>
    <3>1. To("sql", FALSE) \in Scans BY DEF To, Scans
    <3>2. <<>> \in Seq(Alphabet) OBVIOUS
    <3> QED BY <3>1, <3>2 DEF Start, Loops
  <2>3. Given(0) BY <1>9
  <2>4. Empty.state = "sql" /\ Empty.tokens = <<>> BY DEF Empty, Lexer
  <2>5. Bound(Empty.tokens, params).count = 0 /\ Bound(Empty.tokens, params).tokens = <<>>
    BY <2>4, BoundNone
  <2>6. Read(Empty, <<>>, mode) = Empty BY ReadNone
  <2>7. Follows(Empty, Empty, params) BY <2>4, <2>5 DEF Follows
  <2>8. Agrees(Start.scan, Empty, At(text, 0 + 1))
    <3>1. Start.scan = To("sql", FALSE) BY DEF Start
    <3> QED BY <2>4, <3>1, AgreesTo DEF AgreesAt
  <2>9. Matches(Start, Empty, At(text, 0 + 1), params, mode) BY <2>2, <2>5, <2>6, <2>7, <2>8 DEF Matches
  <2>10. Sent(0) BY <1>4, <1>9, <2>1, <2>2, <2>3, <2>4, <2>6, <2>7, <2>9
  <2> HIDE DEF Sent, Given
  <2> QED BY <2>1, <2>2, <2>10
<1>11. ASSUME NEW i \in 0..n, i < n, i \in S
       PROVE  i + 1 \in S
  <2> DEFINE ch == text[i + 1]
             next == At(text, (i + 1) + 1)
  <2>1. f[i] \in Loops /\ IF f[i].sent THEN Sent(i) ELSE ~Given(i) BY <1>11
  <2> HIDE DEF S
  <2>2. i \in Nat /\ i + 1 \in 1..n /\ i + 1 \in 0..n /\ i + 1 # 0 /\ (i + 1) - 1 = i BY <1>1, <1>11
  <2>3. f[i + 1] = TakeChar(f[i], ch, next, params, mode) BY <1>3, <2>2
  <2>4. r[i + 1] = ReadChar(r[i], ch, mode) /\ r[i] \in Lexers BY <1>4, <2>2
  <2>5. At(text, i + 1) = ch /\ ch \in Alphabet /\ (mode => ch # "\\") BY <1>2, <1>5, <1>11, <2>2
  <2>6. i + 1 \in P <=> ch = "?" /\ r[i].state \in {"sql", "seen", "quote"} BY <1>1, <2>2
  <2>7. /\ c(i) \in Nat /\ c(i + 1) \in Nat
        /\ c(i + 1) = IF i + 1 \in P THEN c(i) + 1 ELSE c(i)
    BY <1>9, <1>11, <2>2
  <2>8. Given(i + 1) => Given(i) BY <2>7
  <2>9. CASE ~f[i].sent
    <3>1. f[i + 1] = f[i] BY <2>3, <2>9 DEF TakeChar
    <3>2. ~Given(i + 1) BY <2>1, <2>8, <2>9
    <3> HIDE DEF Sent, Given
    <3> QED BY <2>1, <2>2, <2>9, <3>1, <3>2 DEF S
  <2>10. CASE f[i].sent
    <3>1. Sent(i) BY <2>1, <2>10
    <3>2. /\ f[i].paramIndex = c(i) /\ Given(i)
          /\ r[i].state \in {"seen", "quote"} => i # 0 /\ r[i].mark = text[i]
          /\ Matches(f[i], r[i], ch, params, mode)
          /\ Follows(Read(Empty, f[i].result, mode), r[i], params) \/ i \in P
      BY <2>5, <3>1
    <3> HIDE DEF Sent
    <3>3. /\ IsPlaceholder(f[i].scan, ch) <=> i + 1 \in P
          /\ r[i + 1].state \in {"seen", "quote"} => r[i + 1].mark = text[i + 1]
      <4>1. f[i].scan \in Scans /\ Agrees(f[i].scan, r[i], ch) BY <2>1, <3>2 DEF Loops, Matches
      <4> DEFINE scan == f[i].scan
                 lexer == r[i]
      <4>3. scan \in Scans /\ Agrees(scan, lexer, ch) /\ lexer \in Lexers BY <2>4, <4>1
      <4> HIDE DEF ch, Given, next, scan, lexer
      <4>4. /\ Agrees(Moved(scan, ch, next), ReadChar(lexer, ch, mode), next)
            /\ IsPlaceholder(scan, ch) <=> ch = "?" /\ lexer.state \in {"sql", "seen", "quote"}
            /\ ReadChar(lexer, ch, mode).state \in {"seen", "quote"} => ReadChar(lexer, ch, mode).mark = ch
        BY <2>5, <4>3, AgreesStep
      <4>2. /\ IsPlaceholder(f[i].scan, ch) <=> ch = "?" /\ r[i].state \in {"sql", "seen", "quote"}
            /\ ReadChar(r[i], ch, mode).state \in {"seen", "quote"} => ReadChar(r[i], ch, mode).mark = ch
        BY <4>4 DEF scan, lexer
      <4> QED BY <2>4, <2>6, <4>2 DEF ch
    <3>4. CASE i + 1 \notin P
      <4>1. ~Follows(Read(Empty, f[i].result, mode), r[i], params) => ch # "'" BY <1>6, <2>5, <3>2
      <4>2. /\ f[i + 1] \in Loops /\ f[i + 1].sent /\ f[i + 1].paramIndex = f[i].paramIndex
            /\ Matches(f[i + 1], r[i + 1], next, params, mode)
            /\ Follows(Read(Empty, f[i + 1].result, mode), r[i + 1], params)
        <5> HIDE DEF ch, next, Given
        <5>1. ~(ch = "?" /\ r[i].state \in {"sql", "seen", "quote"}) BY <2>6, <3>4
        <5> QED BY <2>1, <2>3, <2>4, <2>5, <2>10, <3>2, <4>1, <5>1, CopyMatches
      <4>3. c(i + 1) = c(i) BY <2>7, <3>4
      <4>4. Given(i + 1) BY <3>2, <4>3
      <4>5. Sent(i + 1)
        <5> HIDE DEF Given
        <5> QED BY <2>2, <3>2, <3>3, <4>2, <4>3, <4>4 DEF Sent
      <4> HIDE DEF Given
      <4> QED BY <2>2, <4>2, <4>5 DEF S
    <3>5. CASE i + 1 \in P
      <4> DEFINE k == f[i].paramIndex + 1
      <4>1. ch = "?" /\ r[i].state \in {"sql", "seen", "quote"} BY <2>6, <3>5
      <4>2. k = c(i + 1) /\ k \in Nat /\ k # 0 BY <2>7, <3>2, <3>5
      <4>3. Given(i + 1) <=> f[i].paramIndex # Len(params) /\ Storable(params[k])
        BY <2>7, <3>2, <3>5
      <4>4. CASE Given(i + 1)
        <5>1. k \in 1..Len(params) /\ f[i].paramIndex # Len(params) /\ Storable(params[k])
          BY <3>2, <4>2, <4>3, <4>4
        <5>2. ProperValue(params[k]) BY <5>1
        <5> HIDE DEF ch, next, Given, k
        <5>3. i \notin P /\ (r[i].state = "quote" => r[i].mark # "'")
          <6>1. i \in P => At(text, i + 1) # "?" BY <1>6
          <6>2. r[i].state = "quote" => i \in 1..n /\ r[i].mark = text[i] BY <2>2, <3>2
          <6>3. At(text, (i + 1) - 1) # "'" BY <1>6, <3>5
          <6> QED BY <1>8, <2>2, <2>5, <4>1, <6>1, <6>2, <6>3
        <5>4. ~(r[i].state = "seen" /\ r[i].mark = "-" /\ At(params[k].prefix, 1) = "-")
          <6>1. r[i].state = "seen" => i \in 1..n /\ r[i].mark = text[i] BY <2>2, <3>2
          <6> QED BY <1>7, <2>5, <4>1, <5>1, <6>1
        <5>5. Follows(Read(Empty, f[i].result, mode), r[i], params) BY <3>2, <5>3
        <5>6. Matches(f[i], r[i], "?", params, mode) BY <3>2, <4>1
        <5>7. /\ f[i + 1] \in Loops /\ f[i + 1].sent /\ f[i + 1].paramIndex = f[i].paramIndex + 1
              /\ Matches(f[i + 1], r[i + 1], next, params, mode)
          BY <2>1, <2>3, <2>4, <2>10, <4>1, <5>1, <5>2, <5>3, <5>4, <5>5, <5>6, BindMatches DEF k
        <5>8. Sent(i + 1) BY <2>2, <3>3, <3>5, <4>2, <4>4, <5>7 DEF Sent, k, next
        <5> QED BY <2>2, <5>7, <5>8 DEF S
      <4>5. CASE ~Given(i + 1)
        <5>1. IsPlaceholder(f[i].scan, ch) /\ ~(f[i].paramIndex # Len(params) /\ Storable(params[k]))
          BY <3>3, <3>5, <4>3, <4>5
        <5> HIDE DEF ch, next, Given
        <5>2. f[i + 1] = [f[i] EXCEPT !.sent = FALSE] BY <2>3, <2>10, <5>1 DEF TakeChar
        <5>3. f[i + 1] \in Loops /\ ~f[i + 1].sent BY <2>1, <5>2 DEF Loops
        <5> QED BY <2>2, <4>5, <5>3 DEF S
      <4> QED BY <4>4, <4>5
    <3> QED BY <3>4, <3>5
  <2> QED BY <2>9, <2>10
<1>12. n \in S
  <2> HIDE DEF S
  <2>1. 0..n \subseteq S BY <1>1, <1>10, <1>11, UpTo
  <2> QED BY <1>1, <2>1
<1> DEFINE bound == InterpolateParams(text, params, mode)
           t == Read(Empty, bound.result, mode)
<1>13. bound \in Loops /\ IF bound.sent THEN Sent(n) ELSE ~Given(n) BY <1>3, <1>12
<1>14. Given(n) <=> Cardinality(P) <= Len(params) /\ \A k \in 1..Cardinality(P) : Storable(params[k])
  BY <1>9
<1>15. bound.sent => Given(n) BY <1>13
<1>16. ASSUME bound.sent
       PROVE  Flushed(t) = Bound(Flushed(r[n]), params).tokens
  <2>1. Matches(bound, r[n], At(text, n + 1), params, mode) BY <1>3, <1>13, <1>16
  <2>2. n \in 0..n /\ r[n] \in Lexers BY <1>1, <1>4
  <2>3. t \in Lexers BY <1>13, EmptyType, ReadType DEF Loops
  <2>4. CASE Follows(t, r[n], params)
    <3>1. r[n].state = "seen" => r[n].mark # "?" BY <2>1, AgreesSeen DEF Matches
    <3> HIDE DEF t
    <3> QED BY <2>2, <2>3, <2>4, <3>1, FlushedFollows
  <2>5. CASE ~Follows(t, r[n], params)
    <3>1. r[n].state = "sql" /\ Flushed(t) = Bound(r[n].tokens, params).tokens
      BY <2>1, <2>5 DEF Matches
    <3> QED BY <3>1, FlushedEnding
  <2> QED BY <2>4, <2>5
<1> HIDE DEF Given, S, Sent
<1>17. ServerReads(bound.result, mode) = Flushed(t) BY DEF ServerReads, Read
<1>18. ServerReads(text, mode) = Flushed(r[n]) BY DEF ServerReads, r, n
<1> HIDE DEF t, bound
<1>19. bound.sent <=> Given(n) BY <1>13, <1>15 DEF Loops
<1>20. bound.sent => ServerReads(bound.result, mode) = Bound(ServerReads(text, mode), params).tokens
  BY <1>16, <1>17, <1>18
<1> QED BY <1>14, <1>19, <1>20 DEF BoundTo, bound, P

-----------------------------------------------------------------------------
(* A loop of the decoder and the splits of the format.                     *)

\* The verdict of a decoder, and its value.
Verdicts == {"ok", "unsupported", "malformed"}

\* The fields of what a decoder answers.
LEMMA Fields ==
  ASSUME NEW value, NEW at
  PROVE  /\ Ok(value, at).verdict = "ok" /\ Ok(value, at).value = value /\ Ok(value, at).at = at
         /\ NotDecoded(at).verdict = "unsupported" /\ NotDecoded(at).at = at
         /\ Malformed.verdict = "malformed"
BY DEF Ok, NotDecoded, Malformed

\* What a decoder reads from `from` on agrees with the values meaning[end] that the
\* words up to `end` can mean: malformed means nothing up to `to`, and else the words
\* up to the position reached mean one value, the one that was read or, if it is
\* unsupported, one of `bad`.
Decodes(read, meaning, from, to, bad) ==
  /\ read.verdict \in Verdicts
  /\ read.verdict = "malformed" => \A end \in from..to : meaning[end] = {}
  /\ read.verdict # "malformed" =>
       /\ read.at \in (from + 1)..to
       /\ \E value : /\ \A end \in from..to : meaning[end] = IF end = read.at THEN {value} ELSE {}
                     /\ read.verdict = "ok" => value = read.value /\ value \notin bad
                     /\ read.verdict = "unsupported" => value \in bad

\* The same for the first `count` pieces, of which each is at least one word.
AllDecode(read, meaning, from, to, count, bad, V) ==
  /\ read.verdict \in Verdicts
  /\ read.verdict = "malformed" => \A end \in from..to : meaning[end] = {}
  /\ read.verdict # "malformed" =>
       /\ read.at \in (from + count)..to
       /\ \E values \in Seq(V) :
            /\ Len(values) = count
            /\ \A end \in from..to : meaning[end] = IF end = read.at THEN {values} ELSE {}
            /\ read.verdict = "ok" => values = read.value /\ \A i \in 1..count : values[i] \notin bad
            /\ read.verdict = "unsupported" => \E i \in 1..count : values[i] \in bad

\* What can follow one more piece.
LEMMA InSplit ==
  ASSUME NEW before, NEW means, NEW from \in Int, NEW to \in Int, NEW end \in from..to, NEW x
  PROVE  x \in NextSplit(before, means, from, to)[end]
           <=> \E start \in from..end : \E values \in before[start], value \in means[start][end] :
                 x = Append(values, value)
<1>1. NextSplit(before, means, from, to)[end] =
        UNION {{Append(values, value) : values \in before[start], value \in means[start][end]} :
                 start \in {s \in from..end : means[s][end] # {}}}
  BY DEF NextSplit
<1>2. ASSUME NEW start \in from..end, NEW values \in before[start], NEW value \in means[start][end],
             x = Append(values, value)
      PROVE  x \in NextSplit(before, means, from, to)[end]
  <2>1. start \in {s \in from..end : means[s][end] # {}} OBVIOUS
  <2>2. x \in {Append(vs, v) : vs \in before[start], v \in means[start][end]} BY <1>2
  <2> QED BY <1>1, <2>1, <2>2
<1>3. ASSUME x \in NextSplit(before, means, from, to)[end]
      PROVE  \E start \in from..end : \E values \in before[start], value \in means[start][end] :
                 x = Append(values, value)
  <2>1. PICK start \in {s \in from..end : means[s][end] # {}} :
          x \in {Append(vs, v) : vs \in before[start], v \in means[start][end]}
    BY <1>1, <1>3
  <2> QED BY <2>1
<1> QED BY <1>2, <1>3

\* And, field by field.
LEMMA AndFields ==
  ASSUME NEW before, NEW next, before.verdict \in Verdicts,
         before.verdict # "malformed" => next.verdict \in Verdicts
  PROVE  LET and == And(before, next)
         IN /\ and.verdict \in Verdicts
            /\ and.verdict = "malformed" <=> "malformed" \in {before.verdict, next.verdict}
            /\ and.verdict = "ok" <=> before.verdict = "ok" /\ next.verdict = "ok"
            /\ and.verdict # "malformed" => and.at = next.at
            /\ and.verdict = "ok" => and.value = Append(before.value, next.value)
<1>1. CASE "malformed" \in {before.verdict, next.verdict}
  <2>1. And(before, next) = Malformed BY <1>1 DEF And
  <2> QED BY <1>1, <2>1, Fields DEF Verdicts
<1>2. CASE "malformed" \notin {before.verdict, next.verdict} /\ "unsupported" \in {before.verdict, next.verdict}
  <2>1. And(before, next) = NotDecoded(next.at) BY <1>2 DEF And
  <2> QED BY <1>2, <2>1, Fields DEF Verdicts
<1>3. CASE "malformed" \notin {before.verdict, next.verdict} /\ "unsupported" \notin {before.verdict, next.verdict}
  <2> DEFINE value == Append(before.value, next.value)
  <2>1. And(before, next) = Ok(value, next.at) BY <1>3 DEF And
  <2> HIDE DEF value
  <2>2. before.verdict = "ok" /\ next.verdict = "ok" BY <1>3 DEF Verdicts
  <2>3. /\ And(before, next).verdict = "ok" /\ And(before, next).at = next.at
        /\ And(before, next).value = value
    BY <2>1, Fields
  <2> QED BY <2>2, <2>3 DEF Verdicts, value
<1> QED BY <1>1, <1>2, <1>3

\* One more piece.
LEMMA OneMore ==
  ASSUME NEW from \in Int, NEW to \in Int, from <= to, NEW count \in Nat, NEW bad, NEW V,
         NEW before, NEW meaning, NEW next, NEW means,
         AllDecode(before, meaning, from, to, count, bad, V),
         \A at \in from..to : Decodes(next[at], means[at], at, to, bad),
         \A at \in from..to, end \in from..to : means[at][end] \subseteq V
  PROVE  AllDecode(And(before, next[before.at]), NextSplit(meaning, means, from, to), from, to,
                  count + 1, bad, V)
<1> DEFINE at == before.at
           item == next[at]
           and == And(before, item)
           split == NextSplit(meaning, means, from, to)
<1>1. before.verdict \in Verdicts BY DEF AllDecode
<1>2. before.verdict # "malformed" => at \in (from + count)..to BY DEF AllDecode
<1>3. before.verdict # "malformed" => at \in from..to BY <1>2
<1>4. before.verdict # "malformed" => Decodes(item, means[at], at, to, bad) BY <1>3
<1>5. before.verdict # "malformed" => item.verdict \in Verdicts BY <1>4 DEF Decodes
<1> HIDE DEF item
<1>6. /\ and.verdict \in Verdicts
      /\ and.verdict = "malformed" <=> "malformed" \in {before.verdict, item.verdict}
      /\ and.verdict = "ok" <=> before.verdict = "ok" /\ item.verdict = "ok"
      /\ and.verdict # "malformed" => and.at = item.at
      /\ and.verdict = "ok" => and.value = Append(before.value, item.value)
  BY <1>1, <1>5, AndFields
<1> HIDE DEF and
<1>7. \A end \in from..to : \A x :
        x \in split[end] <=> \E start \in from..end : \E values \in meaning[start], value \in means[start][end] :
                                x = Append(values, value)
  <2> SUFFICES ASSUME NEW end \in from..to, NEW x
               PROVE  x \in split[end] <=> \E start \in from..end : \E values \in meaning[start], value \in means[start][end] :
                                               x = Append(values, value)
    OBVIOUS
  <2>1. x \in NextSplit(meaning, means, from, to)[end] <=> \E start \in from..end : \E values \in meaning[start], value \in means[start][end] :
                                               x = Append(values, value)
    BY InSplit
  <2> QED BY <2>1
<1> HIDE DEF split
<1>8. CASE before.verdict = "malformed"
  <2>1. \A end \in from..to : meaning[end] = {} BY <1>8 DEF AllDecode
  <2>2. \A end \in from..to : \A start \in from..end : start \in from..to OBVIOUS
  <2>3. \A end \in from..to : split[end] = {} BY <1>7, <2>1, <2>2
  <2>4. and.verdict = "malformed" BY <1>6, <1>8
  <2>5. AllDecode(and, split, from, to, count + 1, bad, V) BY <1>6, <2>3, <2>4 DEF AllDecode
  <2> QED BY <2>5 DEF and, item, split
<1>9. CASE before.verdict # "malformed"
  <2>1. PICK values \in Seq(V) :
          /\ Len(values) = count
          /\ \A end \in from..to : meaning[end] = IF end = at THEN {values} ELSE {}
          /\ before.verdict = "ok" => values = before.value /\ \A i \in 1..count : values[i] \notin bad
          /\ before.verdict = "unsupported" => \E i \in 1..count : values[i] \in bad
    BY <1>9 DEF AllDecode
  <2>2. \A end \in from..to : \A x :
          x \in split[end] <=> /\ end \in at..to
                               /\ \E value \in means[at][end] : x = Append(values, value)
    <3> SUFFICES ASSUME NEW end \in from..to, NEW x
                 PROVE  x \in split[end] <=> /\ end \in at..to
                                             /\ \E value \in means[at][end] : x = Append(values, value)
      OBVIOUS
    <3>1. ASSUME x \in split[end]
          PROVE  end \in at..to /\ \E value \in means[at][end] : x = Append(values, value)
      <4>1. PICK start \in from..end : \E vs \in meaning[start], value \in means[start][end] : x = Append(vs, value)
        BY <1>7, <3>1
      <4>2. start \in from..to OBVIOUS
      <4>3. start = at BY <2>1, <4>1, <4>2
      <4>4. meaning[start] = {values} BY <2>1, <4>2, <4>3
      <4>5. end \in at..to BY <4>3
      <4> QED BY <4>1, <4>3, <4>4, <4>5
    <3>2. ASSUME end \in at..to, NEW value \in means[at][end], x = Append(values, value)
          PROVE  x \in split[end]
      <4>1. at \in from..end BY <1>3, <1>9, <3>2
      <4>2. values \in meaning[at] BY <1>3, <1>9, <2>1
      <4> QED BY <1>7, <3>2, <4>1, <4>2
    <3> QED BY <3>1, <3>2
  <2>3. CASE item.verdict = "malformed"
    <3>1. \A end \in at..to : means[at][end] = {} BY <1>4, <1>9, <2>3 DEF Decodes
    <3>2. \A end \in from..to : split[end] = {} BY <2>2, <3>1
    <3>3. and.verdict = "malformed" BY <1>6, <2>3
    <3>4. AllDecode(and, split, from, to, count + 1, bad, V) BY <1>6, <3>2, <3>3 DEF AllDecode
    <3> QED BY <3>4 DEF and, item, split
  <2>4. CASE item.verdict # "malformed"
    <3>1. item.at \in (at + 1)..to BY <1>4, <1>9, <2>4 DEF Decodes
    <3>2. PICK value : /\ \A end \in at..to : means[at][end] = IF end = item.at THEN {value} ELSE {}
                       /\ item.verdict = "ok" => value = item.value /\ value \notin bad
                       /\ item.verdict = "unsupported" => value \in bad
      BY <1>4, <1>9, <2>4 DEF Decodes
    <3> DEFINE all == Append(values, value)
    <3>3. item.at \in from..to /\ item.at \in at..to BY <1>3, <1>9, <3>1
    <3>4. value \in V BY <1>3, <1>9, <3>2, <3>3
    <3>5. all \in Seq(V) /\ Len(all) = count + 1 /\ all[count + 1] = value
          /\ \A i \in 1..count : all[i] = values[i]
      BY <2>1, <3>4
    <3> HIDE DEF all
    <3>6. \A end \in from..to : split[end] = IF end = item.at THEN {all} ELSE {}
      <4> SUFFICES ASSUME NEW end \in from..to, NEW x
                   PROVE  x \in split[end] <=> x \in IF end = item.at THEN {all} ELSE {}
        OBVIOUS
      <4>1. CASE end = item.at BY <2>2, <3>2, <3>3, <4>1 DEF all
      <4>2. CASE end # item.at BY <2>2, <3>2, <3>3, <4>2 DEF all
      <4> QED BY <4>1, <4>2
    <3>7. and.verdict # "malformed" /\ and.at = item.at BY <1>6, <1>9, <2>4
    <3>8. and.at \in (from + (count + 1))..to BY <1>2, <1>9, <3>1, <3>7
    <3>9. and.verdict = "ok" => all = and.value /\ \A i \in 1..(count + 1) : all[i] \notin bad
      <4> SUFFICES ASSUME and.verdict = "ok" PROVE all = and.value /\ \A i \in 1..(count + 1) : all[i] \notin bad
        OBVIOUS
      <4>1. before.verdict = "ok" /\ item.verdict = "ok" BY <1>6
      <4>2. values = before.value /\ value = item.value /\ value \notin bad BY <2>1, <3>2, <4>1
      <4>3. all = and.value BY <1>6, <4>2 DEF all
      <4>4. \A i \in 1..(count + 1) : i \in 1..count \/ i = count + 1 OBVIOUS
      <4> QED BY <2>1, <3>5, <4>1, <4>2, <4>3, <4>4
    <3>10. and.verdict = "unsupported" => \E i \in 1..(count + 1) : all[i] \in bad
      <4> SUFFICES ASSUME and.verdict = "unsupported" PROVE \E i \in 1..(count + 1) : all[i] \in bad
        OBVIOUS
      <4>1. before.verdict = "unsupported" \/ item.verdict = "unsupported"
        BY <1>1, <1>5, <1>6, <1>9, <2>4 DEF Verdicts
      <4>2. CASE item.verdict = "unsupported" BY <3>2, <3>5, <4>2
      <4>3. CASE before.verdict = "unsupported" BY <2>1, <3>5, <4>3
      <4> QED BY <4>1, <4>2, <4>3
    <3>11. \E vs \in Seq(V) :
             /\ Len(vs) = count + 1
             /\ \A end \in from..to : split[end] = IF end = and.at THEN {vs} ELSE {}
             /\ and.verdict = "ok" => vs = and.value /\ \A i \in 1..(count + 1) : vs[i] \notin bad
             /\ and.verdict = "unsupported" => \E i \in 1..(count + 1) : vs[i] \in bad
      <4>1. \A end \in from..to : split[end] = IF end = and.at THEN {all} ELSE {} BY <3>6, <3>7
      <4> QED BY <3>5, <3>9, <3>10, <4>1
    <3>12. AllDecode(and, split, from, to, count + 1, bad, V) BY <1>6, <3>7, <3>8, <3>11 DEF AllDecode
    <3> QED BY <3>12 DEF and, item, split
  <2> QED BY <2>3, <2>4
<1> QED BY <1>8, <1>9

\* Values that are read one after the other agree with the ways to split the words, if
\* every value agrees with its piece.
LEMMA SplitAsRead ==
  ASSUME NEW from \in Int, NEW to \in Int, from <= to, NEW count \in Nat, NEW bad, NEW V,
         NEW next, NEW means,
         \A i \in 1..count, at \in from..to : Decodes(next[i][at], means[i][at], at, to, bad),
         \A i \in 1..count, at \in from..to, end \in from..to : means[i][at][end] \subseteq V
  PROVE  AllDecode(ReadAll(next, count, from), Splits(means, count, from, to), from, to, count, bad, V)
<1>1. PICK r : /\ r[0] = Ok(<<>>, from)
               /\ \A k \in 1..count : r[k] = And(r[k - 1], next[k][r[k - 1].at])
               /\ ReadAll(next, count, from) = r[count]
  BY ReadAllDef
<1>2. PICK s : /\ s[0] = FirstSplit(from, to)
               /\ \A k \in 1..count : s[k] = NextSplit(s[k - 1], means[k], from, to)
               /\ Splits(means, count, from, to) = s[count]
  BY SplitsDef
<1> DEFINE S == {k \in 0..count : AllDecode(r[k], s[k], from, to, k, bad, V)}
<1>3. 0 \in S
  <2>1. 0 \in 0..count OBVIOUS
  <2>2. r[0] = Ok(<<>>, from) BY <1>1
  <2>3. s[0] = [end \in from..to |-> IF end = from THEN {<<>>} ELSE {}] BY <1>2 DEF FirstSplit
  <2>4. r[0].verdict = "ok" /\ r[0].value = <<>> /\ r[0].at = from BY <2>2, Fields
  <2>5. \A end \in from..to : s[0][end] = IF end = r[0].at THEN {<<>>} ELSE {} BY <2>3, <2>4
  <2>6. <<>> \in Seq(V) /\ Len(<<>>) = 0 OBVIOUS
  <2>7. from \in (from + 0)..to OBVIOUS
  <2>8. \E values \in Seq(V) :
          /\ Len(values) = 0
          /\ \A end \in from..to : s[0][end] = IF end = r[0].at THEN {values} ELSE {}
          /\ r[0].verdict = "ok" => values = r[0].value /\ \A i \in 1..0 : values[i] \notin bad
          /\ r[0].verdict = "unsupported" => \E i \in 1..0 : values[i] \in bad
    <3>1. \A i \in 1..0 : <<>>[i] \notin bad OBVIOUS
    <3>2. r[0].verdict # "unsupported" BY <2>4
    <3> QED BY <2>4, <2>5, <2>6, <3>1, <3>2
  <2>9. AllDecode(r[0], s[0], from, to, 0, bad, V) BY <2>4, <2>7, <2>8 DEF AllDecode, Verdicts
  <2> QED BY <2>1, <2>9
<1>4. ASSUME NEW k \in 0..count, k < count, k \in S
      PROVE  k + 1 \in S
  <2>1. k + 1 \in 0..count /\ k + 1 \in 1..count /\ k + 1 # 0 /\ (k + 1) - 1 = k /\ k \in Nat BY <1>4
  <2>2. AllDecode(r[k], s[k], from, to, k, bad, V) BY <1>4
  <2> DEFINE n == next[k + 1]
             m == means[k + 1]
  <2>3. r[k + 1] = And(r[k], n[r[k].at]) BY <1>1, <2>1
  <2>4. s[k + 1] = NextSplit(s[k], m, from, to) BY <1>2, <2>1
  <2>5. \A at \in from..to : Decodes(n[at], m[at], at, to, bad) BY <2>1
  <2>6. \A at \in from..to, end \in from..to : m[at][end] \subseteq V BY <2>1
  <2> HIDE DEF n, m
  <2>7. AllDecode(And(r[k], n[r[k].at]), NextSplit(s[k], m, from, to), from, to, k + 1, bad, V)
    BY <2>1, <2>2, <2>5, <2>6, OneMore
  <2>8. AllDecode(r[k + 1], s[k + 1], from, to, k + 1, bad, V) BY <2>3, <2>4, <2>7
  <2> QED BY <2>1, <2>8
<1> HIDE DEF S
<1>5. count \in 0..count OBVIOUS
<1>6. count \in S BY <1>3, <1>4, <1>5, UpTo
<1>7. AllDecode(r[count], s[count], from, to, count, bad, V) BY <1>6 DEF S
<1> QED BY <1>1, <1>2, <1>7

-----------------------------------------------------------------------------
(* Values and collections.                                                 *)

\* What a decoder made of the words up to `end`, and what they mean.
IsValue(read, meaning, end) ==
  /\ read.verdict \in Verdicts
  /\ read.verdict = "malformed" => meaning = {}
  /\ read.verdict = "ok" => read.at = end /\ meaning = {read.value} /\ read.value # Unsupported
  /\ read.verdict = "unsupported" => meaning = {Unsupported}

\* Bytes that mean nothing, refused.
LEMMA NothingIs ==
  ASSUME NEW read, NEW meaning, NEW end, read.verdict = "malformed", meaning = {}
  PROVE  IsValue(read, meaning, end)
BY DEF IsValue, Verdicts

\* The values of up to `size` words are read as they are meant.
NestedRight(nested, payloads, words, size) ==
  \A at \in 0..Len(words), type \in Int, length \in 0..size : at + length <= Len(words) =>
    /\ IsValue(ExactLength(nested[at][type][length], at, length), payloads[type][at][at + length],
               at + length)
    /\ type = BIT /\ length = 0 => payloads[type][at][at] = {Scalar(<<>>)}
    /\ type = NULLTYPE => payloads[type][at][at + length] = {Unsupported}

\* What that says of the payloads of type NULL.
NullsUnsupported(payloads, words, size) ==
  \A at \in 0..Len(words), length \in 0..size : at + length <= Len(words) =>
    payloads[NULLTYPE][at][at + length] = {Unsupported}

LEMMA NestedNulls ==
  ASSUME NEW words, NEW nested, NEW payloads, NEW size, NestedRight(nested, payloads, words, size),
         NULLTYPE \in Int
  PROVE  NullsUnsupported(payloads, words, size)
<1> SUFFICES ASSUME NEW at \in 0..Len(words), NEW length \in 0..size, at + length <= Len(words)
             PROVE  payloads[NULLTYPE][at][at + length] = {Unsupported}
  BY Zenon DEF NullsUnsupported
<1> QED BY Zenon DEF NestedRight

\* Only the unsupported value is unsupported.
LEMMA Tags ==
  ASSUME NEW x
  PROVE  Null # Unsupported /\ Scalar(x) # Unsupported /\ Collection(x) # Unsupported
BY DEF Null, Unsupported, Scalar, Collection

\* The types are words.
LEMMA TypesAreWords ==
  /\ NULLTYPE \in Int /\ INT \in Int /\ BIT \in Int /\ DATE \in Int /\ SET \in Int /\ BLOB \in Int
  /\ CollectionFlag \in Int /\ OtherFlag \in Int
BY DEF NULLTYPE, INT, BIT, DATE, SET, BLOB, CollectionFlag, OtherFlag

\* What a cell means, by its length.
LEMMA CellMeans ==
  ASSUME NEW words \in Seq(Int), NEW from \in 0..Len(words), NEW end \in from..Len(words), NEW nested, NEW type
  PROVE  /\ end = from => CellValues(nested, words, type, from, end) = {}
         /\ end > from /\ words[from + 1] = -1 =>
              CellValues(nested, words, type, from, end) = IF end = from + 1 THEN {Null} ELSE {}
         /\ end > from /\ words[from + 1] # -1 =>
              CellValues(nested, words, type, from, end) =
                IF words[from + 1] = end - from - 1 THEN nested[type][from + 1][end] ELSE {}
<1>1. CASE end = from BY <1>1 DEF CellValues
<1>2. CASE end > from
  <2>1. words[from + 1] \in Int BY <1>2
  <2>2. end = from + 1 => words[end] = words[from + 1] OBVIOUS
  <2>3. CASE words[from + 1] = -1 /\ end = from + 1
    BY <1>2, <2>1, <2>2, <2>3 DEF CellValues
  <2>4. CASE words[from + 1] = -1 /\ end # from + 1
    <3>1. words[from + 1] # end - from - 1 BY <1>2, <2>4
    <3> QED BY <1>2, <2>1, <2>4, <3>1 DEF CellValues
  <2>5. CASE words[from + 1] # -1
    <3>1. ~(end = from + 1 /\ words[end] = -1) BY <2>2, <2>5
    <3> QED BY <1>2, <2>1, <2>5, <3>1 DEF CellValues
  <2> QED BY <2>3, <2>4, <2>5
<1> QED BY <1>1, <1>2

\* The same for an element.
LEMMA ElementMeans ==
  ASSUME NEW words \in Seq(Int), NEW from \in 0..Len(words), NEW end \in from..Len(words), NEW nested, NEW type \in Int
  PROVE  /\ end = from => ElementValues(nested, words, type, from, end) = {}
         /\ end > from /\ words[from + 1] = -1 =>
              ElementValues(nested, words, type, from, end) = IF end = from + 1 THEN {Null} ELSE {}
         /\ end > from /\ words[from + 1] # -1 =>
              ElementValues(nested, words, type, from, end) =
                IF words[from + 1] = end - from - 1 /\ (words[from + 1] # 0 \/ type = BIT)
                THEN nested[IF type = BLOB THEN NULLTYPE ELSE type][from + 1][end] ELSE {}
<1> DEFINE as == IF type = BLOB THEN NULLTYPE ELSE type
<1>1. ElementValues(nested, words, type, from, end) =
        IF end = from + 1 /\ words[end] = 0 /\ type # BIT THEN {}
        ELSE CellValues(nested, words, as, from, end)
  BY DEF ElementValues
<1> HIDE DEF as
<1>2. /\ end = from => CellValues(nested, words, as, from, end) = {}
      /\ end > from /\ words[from + 1] = -1 =>
           CellValues(nested, words, as, from, end) = IF end = from + 1 THEN {Null} ELSE {}
      /\ end > from /\ words[from + 1] # -1 =>
           CellValues(nested, words, as, from, end) =
             IF words[from + 1] = end - from - 1 THEN nested[as][from + 1][end] ELSE {}
  BY CellMeans
<1>3. end = from \/ (end > from /\ words[from + 1] \in Int) OBVIOUS
<1>4. end = from + 1 => words[end] = words[from + 1] OBVIOUS
<1>5. CASE end = from
  <2>1. end # from + 1 /\ ~(end > from) BY <1>5
  <2>2. ElementValues(nested, words, type, from, end) = CellValues(nested, words, as, from, end) BY <1>1, <2>1, Zenon
  <2>3. CellValues(nested, words, as, from, end) = {} BY <1>2, <1>5, Zenon
  <2> QED BY <2>1, <2>2, <2>3, Zenon
<1>6. CASE end > from /\ words[from + 1] = -1
  <2>1. ~(end = from + 1 /\ words[end] = 0 /\ type # BIT) BY <1>4, <1>6
  <2> QED BY <1>1, <1>2, <1>6, <2>1
<1>7. CASE end > from /\ words[from + 1] # -1
  <2>1. CASE words[from + 1] = end - from - 1
    <3>1. (end = from + 1 /\ words[end] = 0 /\ type # BIT) <=> ~(words[from + 1] # 0 \/ type = BIT)
      BY <1>3, <1>4, <1>7, <2>1
    <3> QED BY <1>1, <1>2, <1>7, <2>1, <3>1 DEF as
  <2>2. CASE words[from + 1] # end - from - 1 BY <1>1, <1>2, <1>7, <2>2
  <2> QED BY <2>1, <2>2
<1> QED BY <1>3, <1>5, <1>6, <1>7

\* An element is read as the words it may take are meant.
LEMMA ElementRight ==
  ASSUME NEW words \in Seq(Int), NEW nested, NEW payloads, NEW size \in Int,
         NestedRight(nested, payloads, words, size), NEW type \in Int,
         NEW from \in 0..Len(words), NEW to \in from..Len(words), to - from - 1 <= size,
         NEW meaning, \A end \in from..to : meaning[end] = ElementValues(payloads, words, type, from, end)
  PROVE  Decodes(NextElement(nested, words, from, to, type), meaning, from, to, {Unsupported})
<1> DEFINE next == NextElement(nested, words, from, to, type)
           length == words[from + 1]
           as == IF type = BLOB THEN NULLTYPE ELSE type
<1>1. \A end \in from..to :
        /\ end = from => meaning[end] = {}
        /\ end > from /\ length = -1 => meaning[end] = IF end = from + 1 THEN {Null} ELSE {}
        /\ end > from /\ length # -1 =>
             meaning[end] = IF length = end - from - 1 /\ (length # 0 \/ type = BIT)
                            THEN payloads[as][from + 1][end] ELSE {}
  <2> TAKE end \in from..to
  <2>1. end \in from..Len(words) OBVIOUS
  <2>2. meaning[end] = ElementValues(payloads, words, type, from, end) OBVIOUS
  <2> QED BY <2>1, <2>2, ElementMeans
<1>2. CASE from = to
  <2>1. next = Malformed BY <1>2 DEF NextElement, Available
  <2>2. \A end \in from..to : meaning[end] = {} BY <1>1, <1>2
  <2> QED BY <2>1, <2>2, Fields DEF Decodes, Verdicts
<1>3. CASE from < to
  <2>1. length \in Int /\ from \in Nat /\ to \in Nat /\ from + 1 \in 0..Len(words) BY <1>3
  <2>2. next = ReadElement(nested, from + 1, to, type, length)
    BY <1>3, <2>1 DEF NextElement, Available, Word
  <2> HIDE DEF length, next, as
  <2>3. CASE length = -1
    <3>1. next = Ok(Null, from + 1) BY <2>2, <2>3 DEF ReadElement
    <3>2. next.verdict = "ok" /\ next.value = Null /\ next.at = from + 1 BY <3>1, Fields
    <3>3. \A end \in from..to : meaning[end] = IF end = next.at THEN {Null} ELSE {}
      <4> TAKE end \in from..to
      <4>1. (end = from /\ end # from + 1) \/ end > from BY <2>1
      <4> QED BY <1>1, <2>3, <3>2, <4>1
    <3>4. next.at \in (from + 1)..to BY <1>3, <2>1, <3>2
    <3>5. Null \notin {Unsupported} BY Tags
    <3>6. next.verdict \in Verdicts /\ next.verdict \notin {"malformed", "unsupported"} BY <3>2 DEF Verdicts
    <3>7. Decodes(next, meaning, from, to, {Unsupported})
      BY <3>2, <3>3, <3>4, <3>5, <3>6, Zenon DEF Decodes
    <3> QED BY <3>7 DEF next
  <2>4. CASE length = 0 /\ type = BIT
    <3>1. next = Ok(Scalar(<<>>), from + 1) BY <2>2, <2>4 DEF ReadElement, IsBitType
    <3>2. next.verdict = "ok" /\ next.value = Scalar(<<>>) /\ next.at = from + 1 BY <3>1, Fields
    <3>3. payloads[BIT][from + 1][from + 1] = {Scalar(<<>>)}
      <4>1. 0 \in 0..size /\ (from + 1) + 0 <= Len(words) BY <1>3, <2>1
      <4>2. payloads[BIT][from + 1][from + 1] = {Scalar(<<>>)}
        BY <2>1, <4>1, TypesAreWords, Zenon DEF NestedRight
      <4> QED BY <4>2, Zenon
    <3>4. as = BIT BY <2>4 DEF as, BIT, BLOB
    <3>5. \A end \in from..to : meaning[end] = IF end = next.at THEN {Scalar(<<>>)} ELSE {}
      <4> TAKE end \in from..to
      <4>1. 0 = end - from - 1 <=> end = from + 1 BY <2>1
      <4>2. (end = from /\ end # from + 1) \/ end > from BY <2>1
      <4>3. length # -1 BY <2>4
      <4>4. CASE end = from
        <5>1. meaning[end] = {} BY <1>1, <4>4, Zenon
        <5>2. end # next.at BY <3>2, <4>2, <4>4
        <5> QED BY <5>1, <5>2, Zenon
      <4>5. CASE end > from
        <5>1. meaning[end] = IF end = from + 1 THEN payloads[as][from + 1][end] ELSE {} BY <1>1, <2>4, <4>1, <4>3, <4>5
        <5> QED BY <3>2, <3>3, <3>4, <5>1
      <4> QED BY <4>2, <4>4, <4>5
    <3>6. next.at \in (from + 1)..to BY <1>3, <2>1, <3>2
    <3>7. Scalar(<<>>) \notin {Unsupported} BY Tags
    <3>8. next.verdict \in Verdicts /\ next.verdict \notin {"malformed", "unsupported"} BY <3>2 DEF Verdicts
    <3>9. Decodes(next, meaning, from, to, {Unsupported})
      BY <3>2, <3>5, <3>6, <3>7, <3>8, Zenon DEF Decodes
    <3> QED BY <3>9 DEF next
  <2>5. CASE length < -1 \/ (length = 0 /\ type # BIT) \/ length > to - from - 1
    <3>1. length # -1 /\ ~(length = 0 /\ type = BIT) BY <1>3, <2>1, <2>5
    <3>2. length <= 0 \/ ~Available(from + 1, to, length) BY <2>1, <2>5 DEF Available
    <3>3. next = Malformed BY <2>2, <3>1, <3>2 DEF ReadElement, IsBitType
    <3>4. \A end \in from..to : meaning[end] = {}
      <4> TAKE end \in from..to
      <4>1. end > from => ~(length = end - from - 1 /\ (length # 0 \/ type = BIT)) BY <2>1, <2>5
      <4>2. end = from \/ end > from BY <2>1
      <4>3. length # -1 BY <3>1
      <4>4. CASE end > from BY <1>1, <4>1, <4>3, <4>4
      <4>5. CASE end = from BY <1>1, <4>5
      <4> QED BY <4>2, <4>4, <4>5
    <3> QED BY <3>3, <3>4, Fields DEF Decodes, Verdicts, next
  <2>6. CASE length \in 1..(to - from - 1)
    <3> DEFINE end0 == from + 1 + length
               value == ExactLength(nested[from + 1][type][length], from + 1, length)
               element == IF type = BLOB THEN NotDecoded(from + 1) ELSE value
    <3>1. end0 \in (from + 1)..to /\ length \in 0..size /\ (from + 1) + length <= Len(words) BY <1>3, <2>1, <2>6
    <3>2. IsValue(value, payloads[type][from + 1][end0], end0)
      BY <2>1, <3>1, Zenon DEF NestedRight
    <3>3. payloads[NULLTYPE][from + 1][end0] = {Unsupported}
      <4>1. NULLTYPE \in Int BY TypesAreWords
      <4> DEFINE at == from + 1
      <4>2. at \in 0..Len(words) /\ length \in 0..size /\ at + length <= Len(words) BY <2>1, <3>1, Zenon
      <4>3. end0 = at + length OBVIOUS
      <4> HIDE DEF at, end0
      <4>4. NullsUnsupported(payloads, words, size) BY <4>1, NestedNulls
      <4>5. payloads[NULLTYPE][at][at + length] = {Unsupported} BY <4>2, <4>4, Zenon DEF NullsUnsupported
      <4>6. payloads[NULLTYPE][at][end0] = {Unsupported} BY <4>3, <4>5, Zenon
      <4> QED BY <4>6, Zenon DEF at
    <3>4. length # -1 /\ ~(length = 0 /\ IsBitType(type)) /\ ~(length <= 0 \/ ~Available(from + 1, to, length))
      BY <2>1, <2>6 DEF Available
    <3>5. next = IF element.verdict = "unsupported" THEN NotDecoded(from + 1 + length) ELSE element
      BY <2>2, <3>4 DEF ReadElement
    <3> HIDE DEF value
    <3>6. \A end \in from..to : meaning[end] = IF end = end0 THEN payloads[as][from + 1][end0] ELSE {}
      <4> TAKE end \in from..to
      <4>1. end > from => (length = end - from - 1 <=> end = end0) BY <2>1
      <4>2. end = end0 => end > from BY <3>1
      <4>3. length # -1 /\ length # 0 BY <2>6
      <4>4. end = from \/ end > from BY <2>1
      <4>5. CASE end > from
        <5>1. meaning[end] = IF length = end - from - 1 THEN payloads[as][from + 1][end] ELSE {} BY <1>1, <4>3, <4>5
        <5> HIDE DEF end0
        <5> QED BY <4>1, <4>5, <5>1
      <4>6. CASE end = from
        <5>1. meaning[end] = {} BY <1>1, <4>6, Zenon
        <5>2. end # end0 BY <2>1, <4>2, <4>6
        <5> QED BY <5>1, <5>2, Zenon
      <4> QED BY <4>4, <4>5, <4>6
    <3>7. CASE type = BLOB
      <4>1. element.verdict = "unsupported" BY <3>7, Fields
      <4>2. next = NotDecoded(end0) BY <3>5, <4>1
      <4> HIDE DEF end0
      <4>3. next.verdict = "unsupported" /\ next.at = end0 BY <4>2, Fields
      <4>4. as = NULLTYPE BY <3>7 DEF as
      <4>5. \A end \in from..to : meaning[end] = IF end = next.at THEN {Unsupported} ELSE {} BY <3>3, <3>6, <4>3, <4>4
      <4> QED BY <3>1, <4>3, <4>5 DEF Decodes, Verdicts, next
    <3>8. CASE type # BLOB
      <4>1. as = type /\ element = value BY <3>8 DEF as
      <4>2. value.verdict \in Verdicts BY <3>2 DEF IsValue
      <4>3. next = IF value.verdict = "unsupported" THEN NotDecoded(end0) ELSE value BY <3>5, <4>1
      <4> HIDE DEF end0, element
      <4>4. CASE value.verdict = "malformed"
        <5>1. \A end \in from..to : meaning[end] = {} BY <3>2, <3>6, <4>1, <4>4 DEF IsValue
        <5>2. next = value BY <4>3, <4>4
        <5> QED BY <4>4, <5>1, <5>2 DEF Decodes, Verdicts, next
      <4>5. CASE value.verdict = "ok"
        <5>1. next = value /\ next.at = end0 BY <3>2, <4>3, <4>5 DEF IsValue
        <5>2. \A end \in from..to : meaning[end] = IF end = next.at THEN {next.value} ELSE {}
          BY <3>2, <3>6, <4>1, <4>5, <5>1 DEF IsValue
        <5>3. next.value \notin {Unsupported} BY <3>2, <4>5, <5>1 DEF IsValue
        <5> QED BY <3>1, <4>5, <5>1, <5>2, <5>3 DEF Decodes, Verdicts, next
      <4>6. CASE value.verdict = "unsupported"
        <5>1. next.verdict = "unsupported" /\ next.at = end0 BY <4>3, <4>6, Fields
        <5>2. \A end \in from..to : meaning[end] = IF end = next.at THEN {Unsupported} ELSE {}
          BY <3>2, <3>6, <4>1, <4>6, <5>1 DEF IsValue
        <5> QED BY <3>1, <5>1, <5>2 DEF Decodes, Verdicts, next
      <4> QED BY <4>2, <4>4, <4>5, <4>6 DEF Verdicts
    <3> QED BY <3>7, <3>8
  <2> QED BY <2>1, <2>3, <2>4, <2>5, <2>6
<1> QED BY <1>2, <1>3

\* The same, whatever the values are.
LEMMA SplitsRead ==
  ASSUME NEW from \in Int, NEW to \in Int, from <= to, NEW count \in Nat, NEW bad,
         NEW next, NEW means,
         \A i \in 1..count, at \in from..to : Decodes(next[i][at], means[i][at], at, to, bad)
  PROVE  \E V : AllDecode(ReadAll(next, count, from), Splits(means, count, from, to), from, to, count, bad, V)
<1> DEFINE V == UNION {UNION {UNION {means[i][at][end] : end \in from..to} : at \in from..to} : i \in 1..count}
<1>1. \A i \in 1..count, at \in from..to, end \in from..to : means[i][at][end] \subseteq V
  <2> TAKE i \in 1..count, at \in from..to, end \in from..to
  <2>1. means[i][at][end] \subseteq UNION {means[i][at][e] : e \in from..to} OBVIOUS
  <2>2. UNION {means[i][at][e] : e \in from..to} \subseteq
          UNION {UNION {means[i][a][e] : e \in from..to} : a \in from..to} OBVIOUS
  <2>3. UNION {UNION {means[i][a][e] : e \in from..to} : a \in from..to} \subseteq V OBVIOUS
  <2> QED BY <2>1, <2>2, <2>3
<1> HIDE DEF V
<1>2. AllDecode(ReadAll(next, count, from), Splits(means, count, from, to), from, to, count, bad, V)
  BY <1>1, SplitAsRead
<1> QED BY <1>2

\* A collection is read as what its elements are meant to be.
LEMMA CollectionRight ==
  ASSUME NEW words \in Seq(Int), NEW nested, NEW payloads, NEW at \in 0..Len(words), NEW size \in Nat,
         NEW limit \in (at + size)..Len(words), NestedRight(nested, payloads, words, size - 3)
  PROVE  IsValue(ReadCollection(nested, words, at, limit, size),
                 Payloads(payloads, words, SET, at, at + size), at + size)
<1> DEFINE to == at + size
           read == ReadCollection(nested, words, at, limit, size)
           type == words[at + 1]
           count == words[at + 2]
           means == [k \in 1..count |-> [start \in Int |-> [end \in Int |->
                       ElementValues(payloads, words, type, start, end)]]]
           next == [i \in 1..count |-> [from \in Int |-> NextElement(nested, words, from, to, type)]]
           all == ReadAll(next, count, at + 2)
           splits == Splits(means, count, at + 2, to)
           meant == IF count < 0 THEN {} ELSE splits[to]
<1>1. Len(words) \in Nat /\ at \in Nat /\ limit \in Nat /\ to <= limit /\ Available(at, limit, size) BY DEF Available
<1>2. Payloads(payloads, words, SET, at, to) =
        IF size < 2 THEN {}
        ELSE {IF HasUnsupported(values) THEN Unsupported ELSE Collection(values) :
                values \in Elements(payloads, words, type, count, at + 2, to)}
  <2>1. SET \notin {INT, DATE} /\ SET # BIT /\ SET # BLOB BY DEF SET, INT, DATE, BIT, BLOB
  <2>2. to - at = size BY <1>1
  <2> QED BY <2>1, <2>2 DEF Payloads
<1>3. CASE size < 2
  <2>1. read = Malformed BY <1>1, <1>3 DEF ReadCollection, CollectionHeaderSize
  <2> QED BY <1>2, <1>3, <2>1, Fields DEF IsValue, Verdicts
<1>4. CASE size >= 2
  <2>1. type \in Int /\ count \in Int /\ to \in Nat /\ at + 2 <= to /\ to <= Len(words) BY <1>1, <1>4
  <2>2. read = IF count < 0 \/ count > size - 2 \/ all.at # to THEN Malformed
               ELSE IF all.verdict = "ok" THEN Ok(Collection(all.value), all.at)
               ELSE all
    <3>1. ~(~Available(at, limit, size) \/ size < CollectionHeaderSize) BY <1>1, <1>4 DEF CollectionHeaderSize
    <3>2. Word(words, at) = type /\ Word(words, at + 1) = count
      <4>1. (at + 1) + 1 = at + 2 BY <1>1
      <4> QED BY <4>1 DEF Word
    <3> QED BY <3>1, <3>2 DEF ReadCollection, CollectionHeaderSize
  <2>3. Elements(payloads, words, type, count, at + 2, to) = meant BY DEF Elements
  <2> HIDE DEF type, count, means, next, all, splits, read, meant
  <2>5. meant = {} => Payloads(payloads, words, SET, at, to) = {}
    <3> HIDE DEF to
    <3> QED BY <1>2, <1>4, <2>3
  <2>4. CASE count < 0
    <3>1. read.verdict = "malformed" BY <2>2, <2>4, Fields
    <3>2. meant = {} BY <2>4 DEF meant
    <3>3. Payloads(payloads, words, SET, at, to) = {} BY <2>5, <3>2
    <3>4. IsValue(read, Payloads(payloads, words, SET, at, to), to) BY <3>1, <3>3, NothingIs, Zenon
    <3> QED BY <3>4 DEF read
  <2>6. CASE count \in Nat
    <3>1. meant = splits[to] BY <2>6 DEF meant
    <3>2. \A i \in 1..count, a \in (at + 2)..to : Decodes(next[i][a], means[i][a], a, to, {Unsupported})
      <4> TAKE i \in 1..count, a \in (at + 2)..to
      <4>1. a \in Int /\ a \in 0..Len(words) /\ to \in a..Len(words) /\ to - a - 1 <= size - 3 BY <1>1, <2>1
      <4>2. \A end \in a..to : means[i][a][end] = ElementValues(payloads, words, type, a, end) BY <4>1 DEF means
      <4>3. next[i][a] = NextElement(nested, words, a, to, type) BY <4>1 DEF next
      <4> HIDE DEF to
      <4> DEFINE meaning == means[i][a]
      <4>4. \A end \in a..to : meaning[end] = ElementValues(payloads, words, type, a, end) BY <4>2
      <4> HIDE DEF meaning
      <4>5. size - 3 \in Int OBVIOUS
      <4>6. Decodes(NextElement(nested, words, a, to, type), meaning, a, to, {Unsupported})
        BY <2>1, <4>1, <4>4, <4>5, ElementRight
      <4> QED BY <4>3, <4>6 DEF meaning
    <3>3. \E V : AllDecode(ReadAll(next, count, at + 2), Splits(means, count, at + 2, to), at + 2, to, count, {Unsupported}, V)
      <4>1. at + 2 \in Int /\ to \in Int BY <1>1, <2>1
      <4> HIDE DEF to
      <4> QED BY <2>1, <2>6, <3>2, <4>1, SplitsRead
    <3>4. PICK V : AllDecode(all, splits, at + 2, to, count, {Unsupported}, V)
      BY <3>3 DEF all, splits
    <3>5. to \in (at + 2)..to BY <2>1
    <3>6. CASE all.verdict = "malformed"
      <4>1. meant = {} BY <3>1, <3>4, <3>5, <3>6 DEF AllDecode
      <4>2. read.verdict = "malformed"
        <5>1. read = Malformed \/ read = all BY <2>2, <3>6
        <5> QED BY <3>6, <5>1, Fields
      <4>3. Payloads(payloads, words, SET, at, to) = {} BY <2>5, <4>1
      <4>4. IsValue(read, Payloads(payloads, words, SET, at, to), to) BY <4>2, <4>3, NothingIs, Zenon
      <4> QED BY <4>4 DEF read
    <3>7. CASE all.verdict # "malformed"
      <4>1. all.at \in (at + 2 + count)..to BY <3>4, <3>7 DEF AllDecode
      <4>2. PICK values \in Seq(V) :
              /\ Len(values) = count
              /\ \A end \in (at + 2)..to : splits[end] = IF end = all.at THEN {values} ELSE {}
              /\ all.verdict = "ok" => values = all.value /\ \A i \in 1..count : values[i] \notin {Unsupported}
              /\ all.verdict = "unsupported" => \E i \in 1..count : values[i] \in {Unsupported}
        BY <3>4, <3>7 DEF AllDecode
      <4>3. meant = IF to = all.at THEN {values} ELSE {} BY <3>1, <3>5, <4>2
      <4>4. count <= size - 2 BY <1>1, <2>1, <2>6, <4>1
      <4>5. CASE all.at # to
        <5>1. read.verdict = "malformed" BY <2>2, <4>5, Fields
        <5>2. Payloads(payloads, words, SET, at, to) = {} BY <2>5, <4>3, <4>5
        <5>3. IsValue(read, Payloads(payloads, words, SET, at, to), to) BY <5>1, <5>2, NothingIs, Zenon
        <5> QED BY <5>3 DEF read
      <4>6. CASE all.at = to
        <5>1. read = IF all.verdict = "ok" THEN Ok(Collection(all.value), all.at) ELSE all
          BY <2>1, <2>2, <2>6, <4>4, <4>6
        <5>2. all.verdict = "ok" \/ all.verdict = "unsupported" BY <3>4, <3>7 DEF AllDecode, Verdicts
        <5>3. Payloads(payloads, words, SET, at, to) = {IF HasUnsupported(values) THEN Unsupported ELSE Collection(values)}
          <6>1. meant = {values} BY <4>3, <4>6
          <6> HIDE DEF to
          <6> QED BY <1>2, <1>4, <2>3, <6>1
        <5>4. CASE all.verdict = "ok"
          <6>1. ~HasUnsupported(values) BY <4>2, <5>4 DEF HasUnsupported
          <6>2. read = Ok(Collection(all.value), to) BY <4>6, <5>1, <5>4
          <6>3. read.verdict = "ok" /\ read.value = Collection(values) /\ read.at = to BY <4>2, <5>4, <6>2, Fields
          <6> QED BY <5>3, <6>1, <6>3, Tags DEF IsValue, Verdicts, read
        <5>5. CASE all.verdict = "unsupported"
          <6>1. HasUnsupported(values) BY <4>2, <5>5 DEF HasUnsupported
          <6>2. read.verdict = "unsupported" BY <5>1, <5>5
          <6> QED BY <5>3, <6>1, <6>2 DEF IsValue, Verdicts, read
        <5> QED BY <5>2, <5>4, <5>5
      <4> QED BY <4>5, <4>6
    <3> QED BY <3>6, <3>7
  <2> QED BY <2>1, <2>4, <2>6
<1> QED BY <1>3, <1>4

\* The types are different words.
LEMMA TypesDiffer ==
  /\ INT # BIT /\ INT # DATE /\ INT # SET /\ INT # BLOB /\ BIT # DATE /\ BIT # SET /\ BIT # BLOB
  /\ DATE # SET /\ DATE # BLOB /\ SET # BLOB
  /\ NULLTYPE \notin {INT, BIT, DATE, SET, BLOB}
BY DEF NULLTYPE, INT, BIT, DATE, SET, BLOB

\* The payloads that any words can be.
LEMMA PayloadsOf ==
  ASSUME NEW nested, NEW words, NEW type, NEW from \in Int, NEW to \in Int
  PROVE  /\ type = BIT => Payloads(nested, words, type, from, to) = {Scalar(SubSeq(words, from + 1, to))}
         /\ type \notin {INT, DATE, BIT, BLOB, SET} => Payloads(nested, words, type, from, to) = {Unsupported}
<1> DEFINE payload == SubSeq(words, from + 1, to)
<1> HIDE DEF payload
<1>1. CASE type = BIT BY <1>1, TypesDiffer DEF Payloads, payload
<1>2. CASE type \notin {INT, DATE, BIT, BLOB, SET} BY <1>2 DEF Payloads, payload
<1> QED BY <1>1, <1>2 DEF payload

\* assertExactLength, by its cases.
LEMMA Exactly ==
  ASSUME NEW read, NEW from, NEW size
  PROVE  /\ read.verdict = "ok" /\ read.at - from # size => ExactLength(read, from, size) = Malformed
         /\ read.verdict # "ok" \/ read.at - from = size => ExactLength(read, from, size) = read
BY DEF ExactLength

\* A value is read as it is meant, if the values nested in it are.
LEMMA ValueRight ==
  ASSUME NEW words \in Seq(Int), NEW nested, NEW payloads, NEW type \in Int,
         NEW at \in 0..Len(words), NEW size \in Nat,
         NEW limit \in (at + size)..Len(words), NestedRight(nested, payloads, words, size - 3)
  PROVE  IsValue(ExactLength(ReadValue(nested, words, at, limit, type, size), at, size),
                 Payloads(payloads, words, type, at, at + size), at + size)
<1> DEFINE to == at + size
           payload == SubSeq(words, at + 1, to)
           read == ReadValue(nested, words, at, limit, type, size)
           exact == ExactLength(read, at, size)
           meant == Payloads(payloads, words, type, at, to)
<1>1. /\ Len(words) \in Nat /\ at \in Nat /\ limit \in Nat /\ to \in Nat /\ to <= limit /\ to <= Len(words)
      /\ to - at = size /\ at \in Int /\ to \in Int
  OBVIOUS
<1>2. Available(at, limit, size) /\ (Available(at, limit, 1) <=> at < limit) BY <1>1 DEF Available
<1>3. Words(words, at, size) = payload BY DEF Words
<1>4. \A value, end : LET r == Ok(value, end)
                      IN r.verdict = "ok" /\ r.value = value /\ r.at = end
  BY Fields
<1>5. Scalar(payload) # Unsupported BY Tags
<1>6. /\ read.verdict = "ok" /\ read.at - at # size => exact = Malformed
      /\ read.verdict # "ok" \/ read.at - at = size => exact = read
  BY Exactly
<1>7. size = 1 => payload = Words(words, at, 1) BY <1>3
<1> HIDE DEF payload, exact
<1>8. CASE type = INT
  <2>1. read = IF at < limit THEN Ok(Scalar(Words(words, at, 1)), at + 1) ELSE Malformed
    BY <1>2, <1>8 DEF ReadValue
  <2>2. meant = IF size # 1 THEN {} ELSE {Scalar(payload)}
    BY <1>1, <1>8, TypesDiffer DEF Payloads, payload
  <2> HIDE DEF read, meant, to
  <2>3. CASE size = 1
    <3>1. read = Ok(Scalar(payload), to) BY <1>1, <1>7, <2>1, <2>3 DEF to
    <3>2. read.verdict = "ok" /\ read.value = Scalar(payload) /\ read.at = to BY <3>1, Fields
    <3>3. exact = read BY <1>1, <1>6, <3>2
    <3> QED BY <1>5, <2>2, <2>3, <3>2, <3>3 DEF IsValue, Verdicts, read, meant, to, exact
  <2>4. CASE size # 1
    <3>1. exact.verdict = "malformed"
      <4>1. CASE at < limit
        <5>1. read.verdict = "ok" /\ read.at = at + 1 BY <2>1, <4>1, Fields
        <5>2. read.at - at # size BY <1>1, <2>4, <5>1
        <5> QED BY <1>6, <5>1, <5>2, Fields
      <4>2. CASE ~(at < limit)
        <5>1. read = Malformed BY <2>1, <4>2
        <5> QED BY <1>6, <5>1, Fields
      <4> QED BY <4>1, <4>2
    <3> QED BY <2>2, <2>4, <3>1 DEF IsValue, Verdicts, read, meant, to, exact
  <2> QED BY <2>3, <2>4
<1>9. CASE type = DATE
  <2>1. read = IF ~(at < limit) THEN Malformed
               ELSE IF size = 1 /\ words[at + 1] = 0 THEN NotDecoded(at)
               ELSE Ok(Scalar(Words(words, at, 1)), at + 1)
    BY <1>2, <1>9, TypesDiffer DEF ReadValue, Word
  <2>2. meant = IF size # 1 THEN {} ELSE IF words[to] = 0 THEN {Unsupported} ELSE {Scalar(payload)}
    BY <1>1, <1>9, TypesDiffer DEF Payloads, payload
  <2> HIDE DEF read, meant, to
  <2>3. CASE size = 1
    <3>1. to = at + 1 /\ at < limit BY <1>1, <2>3 DEF to
    <3>2. CASE words[to] = 0
      <4>1. read = NotDecoded(at) BY <2>1, <2>3, <3>1, <3>2
      <4>2. read.verdict = "unsupported" BY <4>1, Fields
      <4>3. exact = read BY <1>6, <4>2
      <4> QED BY <2>2, <2>3, <3>2, <4>2, <4>3 DEF IsValue, Verdicts, read, meant, to, exact
    <3>3. CASE words[to] # 0
      <4>1. read = Ok(Scalar(payload), to) BY <1>7, <2>1, <2>3, <3>1, <3>3
      <4>2. read.verdict = "ok" /\ read.value = Scalar(payload) /\ read.at = to BY <4>1, Fields
      <4>3. exact = read BY <1>1, <1>6, <4>2
      <4> QED BY <1>5, <2>2, <2>3, <3>3, <4>2, <4>3 DEF IsValue, Verdicts, read, meant, to, exact
    <3> QED BY <3>2, <3>3
  <2>4. CASE size # 1
    <3>1. exact.verdict = "malformed"
      <4>1. CASE at < limit
        <5>1. read = Ok(Scalar(Words(words, at, 1)), at + 1) BY <2>1, <2>4, <4>1
        <5>2. read.verdict = "ok" /\ read.at = at + 1 BY <5>1, Fields
        <5>3. read.at - at # size BY <1>1, <2>4, <5>2
        <5> QED BY <1>6, <5>2, <5>3, Fields
      <4>2. CASE ~(at < limit)
        <5>1. read = Malformed BY <2>1, <4>2
        <5> QED BY <1>6, <5>1, Fields
      <4> QED BY <4>1, <4>2
    <3> QED BY <2>2, <2>4, <3>1 DEF IsValue, Verdicts, read, meant, to, exact
  <2> QED BY <2>3, <2>4
<1>10. CASE type = BIT
  <2>1. read = Ok(Scalar(payload), to) BY <1>2, <1>3, <1>10, TypesDiffer DEF ReadValue
  <2>2. meant = {Scalar(payload)} BY <1>1, <1>10, PayloadsOf DEF payload
  <2> HIDE DEF read, meant, to
  <2>3. read.verdict = "ok" /\ read.value = Scalar(payload) /\ read.at = to BY <2>1, Fields
  <2>4. exact = read BY <1>1, <1>6, <2>3
  <2> QED BY <1>5, <2>2, <2>3, <2>4 DEF IsValue, Verdicts, read, meant, to, exact
<1>11. CASE type = BLOB
  <2> DEFINE locator == /\ size > 3 /\ words[at + 1] = BLOB /\ words[at + 2] >= 0
                        /\ words[at + 3] = size - 3 /\ words[to] = 0
  <2>1. read = IF locator THEN Ok(Scalar(payload), to) ELSE Malformed
    <3>1. read = ReadLobLocator(words, at, limit, size) BY <1>11, TypesDiffer DEF ReadValue
    <3>2. /\ Word(words, at) = words[at + 1] /\ Word(words, at + 1) = words[at + 2]
          /\ Word(words, at + 2) = words[at + 3] /\ Word(words, at + size - 1) = words[to]
      <4>1. (at + 1) + 1 = at + 2 /\ (at + 2) + 1 = at + 3 /\ (at + size - 1) + 1 = to BY <1>1
      <4> QED BY <4>1 DEF Word
    <3>3. size > 3 => (3 + words[at + 3] = size <=> words[at + 3] = size - 3)
      <4>1. size > 3 => at + 3 \in 1..Len(words) BY <1>1
      <4>2. size > 3 => words[at + 3] \in Int BY <4>1
      <4> DEFINE word == words[at + 3]
      <4> HIDE DEF word
      <4>3. ASSUME size > 3 PROVE 3 + word = size <=> word = size - 3
        <5>1. word \in Int BY <4>2, <4>3 DEF word
        <5> QED BY <5>1
      <4> QED BY <4>3, Zenon DEF word
    <3> QED BY <1>2, <1>3, <3>1, <3>2, <3>3 DEF ReadLobLocator, LobHandleHeaderSize
  <2>2. meant = IF locator THEN {Scalar(payload)} ELSE {}
    BY <1>1, <1>11, TypesDiffer DEF Payloads, payload
  <2> HIDE DEF read, meant, to, locator
  <2>3. CASE locator
    <3>1. read = Ok(Scalar(payload), to) BY <2>1, <2>3
    <3>2. read.verdict = "ok" /\ read.value = Scalar(payload) /\ read.at = to BY <3>1, Fields
    <3>3. exact = read BY <1>1, <1>6, <3>2
    <3> QED BY <1>5, <2>2, <2>3, <3>2, <3>3 DEF IsValue, Verdicts, read, meant, to, exact
  <2>4. CASE ~locator
    <3>1. read = Malformed BY <2>1, <2>4
    <3>2. exact.verdict = "malformed" BY <1>6, <3>1, Fields
    <3> QED BY <2>2, <2>4, <3>2 DEF IsValue, Verdicts, read, meant, to, exact
  <2> QED BY <2>3, <2>4
<1>12. CASE type = SET
  <2>1. read = ReadCollection(nested, words, at, limit, size)
    BY <1>12, TypesDiffer DEF ReadValue, IsCollectionType
  <2>2. IsValue(read, meant, to) BY <1>12, <2>1, CollectionRight
  <2> HIDE DEF read, meant, to
  <2>3. exact = read BY <1>1, <1>6, <2>2 DEF IsValue
  <2> QED BY <2>2, <2>3 DEF read, meant, to, exact
<1>13. CASE type \notin {INT, DATE, BIT, BLOB, SET}
  <2>1. read = NotDecoded(at) BY <1>13 DEF ReadValue, IsCollectionType
  <2>2. meant = {Unsupported} BY <1>1, <1>13, PayloadsOf
  <2> HIDE DEF read, meant, to
  <2>3. read.verdict = "unsupported" BY <2>1, Fields
  <2>4. exact = read BY <1>6, <2>3
  <2> QED BY <2>2, <2>3, <2>4 DEF IsValue, Verdicts, read, meant, to, exact
<1> QED BY <1>8, <1>9, <1>10, <1>11, <1>12, <1>13

-----------------------------------------------------------------------------
(* However deep collections are nested.                                    *)

\* One level of nesting keeps the decoder and the format in agreement.
LEMMA OneDeeper ==
  ASSUME NEW words \in Seq(Int), NEW nested, NEW payloads, NEW depth \in Nat,
         NestedRight(nested, payloads, words, depth - 1)
  PROVE  NestedRight(AtDepth(nested, words), PayloadsAtDepth(payloads, words), words, depth)
<1> DEFINE read == AtDepth(nested, words)
           meant == PayloadsAtDepth(payloads, words)
<1> SUFFICES ASSUME NEW at \in 0..Len(words), NEW type \in Int, NEW length \in 0..depth,
                    at + length <= Len(words)
             PROVE  /\ IsValue(ExactLength(read[at][type][length], at, length), meant[type][at][at + length],
                               at + length)
                    /\ type = BIT /\ length = 0 => meant[type][at][at] = {Scalar(<<>>)}
                    /\ type = NULLTYPE => meant[type][at][at + length] = {Unsupported}
  BY DEF NestedRight
<1>1. at \in Int /\ length \in Int /\ length \in Nat /\ at + length \in Int /\ at + length \in (at + length)..Len(words)
  OBVIOUS
<1>2. read[at][type][length] = ReadValue(nested, words, at, at + length, type, length) BY <1>1 DEF AtDepth
<1>3. \A end \in Int : meant[type][at][end] = Payloads(payloads, words, type, at, end) BY <1>1 DEF PayloadsAtDepth
<1> HIDE DEF read, meant
<1>4. NestedRight(nested, payloads, words, length - 3)
  <2>1. \A l \in 0..(length - 3) : l \in 0..(depth - 1) OBVIOUS
  <2> QED BY <2>1 DEF NestedRight
<1>5. IsValue(ExactLength(ReadValue(nested, words, at, at + length, type, length), at, length),
              Payloads(payloads, words, type, at, at + length), at + length)
  <2> DEFINE limit == at + length
  <2>1. limit \in (at + length)..Len(words) BY <1>1
  <2> HIDE DEF limit
  <2>2. IsValue(ExactLength(ReadValue(nested, words, at, limit, type, length), at, length),
                Payloads(payloads, words, type, at, at + length), at + length)
    BY <1>1, <1>4, <2>1, ValueRight
  <2> QED BY <2>2 DEF limit
<1>6. type = BIT => meant[type][at][at] = {Scalar(SubSeq(words, at + 1, at))} BY <1>1, <1>3, PayloadsOf
<1>7. SubSeq(words, at + 1, at) = <<>> BY <1>1
<1>8. type = NULLTYPE => meant[type][at][at + length] = {Unsupported}
  <2>1. type = NULLTYPE => type \notin {INT, DATE, BIT, BLOB, SET} BY TypesDiffer
  <2> QED BY <1>1, <1>3, <2>1, PayloadsOf
<1> QED BY <1>1, <1>2, <1>3, <1>5, <1>6, <1>7, <1>8

\* The values nested in a reply, which are shorter than it is.
LEMMA NestedIsRight ==
  ASSUME NEW words \in Seq(Int)
  PROVE  NestedRight(Nested(words), NestedPayloads(words), words, Len(words) - 1)
<1> DEFINE n == Len(words)
<1>1. n \in Nat OBVIOUS
<1>2. PICK f : /\ f[0] = <<>>
               /\ \A k \in 1..n : f[k] = AtDepth(f[k - 1], words)
               /\ Nested(words) = f[n]
  BY <1>1, NestedDef
<1>3. PICK g : /\ g[0] = <<>>
               /\ \A k \in 1..n : g[k] = PayloadsAtDepth(g[k - 1], words)
               /\ NestedPayloads(words) = g[n]
  BY <1>1, NestedPayloadsDef
<1> DEFINE S == {k \in 0..n : NestedRight(f[k], g[k], words, k - 1)}
<1>4. 0 \in S
  <2>1. 0..(0 - 1) = {} OBVIOUS
  <2>2. NestedRight(f[0], g[0], words, 0 - 1) BY <2>1 DEF NestedRight
  <2>3. 0 \in 0..n BY <1>1
  <2> QED BY <2>2, <2>3
<1>5. ASSUME NEW k \in 0..n, k < n, k \in S
      PROVE  k + 1 \in S
  <2>1. k + 1 \in 0..n /\ k + 1 \in 1..n /\ (k + 1) - 1 = k /\ k \in Nat BY <1>1, <1>5
  <2>2. NestedRight(f[k], g[k], words, k - 1) BY <1>5
  <2>3. f[k + 1] = AtDepth(f[k], words) /\ g[k + 1] = PayloadsAtDepth(g[k], words) BY <1>2, <1>3, <2>1
  <2>4. NestedRight(AtDepth(f[k], words), PayloadsAtDepth(g[k], words), words, k) BY <2>1, <2>2, OneDeeper
  <2>5. NestedRight(f[k + 1], g[k + 1], words, (k + 1) - 1) BY <2>1, <2>3, <2>4
  <2> QED BY <2>1, <2>5
<1> HIDE DEF S, n
<1>6. n \in S
  <2>1. 0..n \subseteq S BY <1>1, <1>4, <1>5, UpTo
  <2> QED BY <1>1, <2>1
<1> QED BY <1>2, <1>3, <1>6 DEF S, n

-----------------------------------------------------------------------------
(* Cells, rows and replies.                                                *)

\* No words are the value of no type but a bit string.
LEMMA TooShort ==
  ASSUME NEW nested, NEW words, NEW type, type # BIT, NEW at \in Int
  PROVE  Payloads(nested, words, type, at, at) \in {{}, {Unsupported}}
<1>1. at - at = 0 OBVIOUS
<1>2. CASE type \in {INT, DATE} BY <1>1, <1>2 DEF Payloads
<1>3. CASE type = BLOB BY <1>1, <1>3, TypesDiffer DEF Payloads
<1>4. CASE type = SET BY <1>1, <1>4, TypesDiffer DEF Payloads
<1>5. CASE type \notin {INT, DATE, BIT, BLOB, SET} BY <1>1, <1>5, PayloadsOf
<1> QED BY <1>2, <1>3, <1>4, <1>5

\* A value that would end behind the reply.
LEMMA Overrun ==
  ASSUME NEW words \in Seq(Int), NEW nested, NEW type \in Int, NEW at \in 0..Len(words), NEW size \in Nat,
         at + size > Len(words)
  PROVE  ExactLength(ReadValue(nested, words, at, Len(words), type, size), at, size).verdict \in
           {"malformed", "unsupported"}
<1> DEFINE limit == Len(words)
           read == ReadValue(nested, words, at, limit, type, size)
           exact == ExactLength(read, at, size)
<1>1. limit \in Nat /\ at \in Nat /\ ~Available(at, limit, size) /\ (Available(at, limit, 1) <=> at < limit)
      /\ (at < limit => size # 1)
  BY DEF Available
<1>2. /\ read.verdict = "ok" /\ read.at - at # size => exact = Malformed
      /\ read.verdict # "ok" \/ read.at - at = size => exact = read
  BY Exactly
<1> HIDE DEF exact, limit
<1>3. CASE type \in {INT, DATE}
  <2>1. read = IF ~(at < limit) THEN Malformed ELSE Ok(Scalar(Words(words, at, 1)), at + 1)
    BY <1>1, <1>3, TypesDiffer DEF ReadValue
  <2> HIDE DEF read
  <2>2. CASE at < limit
    <3>1. read.verdict = "ok" /\ read.at = at + 1 BY <2>1, <2>2, Fields
    <3>2. read.at - at # size BY <1>1, <2>2, <3>1
    <3>3. exact.verdict = "malformed" BY <1>2, <3>1, <3>2, Fields
    <3> QED BY <3>3 DEF exact, read, limit
  <2>3. CASE ~(at < limit)
    <3>1. read = Malformed BY <2>1, <2>3
    <3>2. exact.verdict = "malformed" BY <1>2, <3>1, Fields
    <3> QED BY <3>2 DEF exact, read, limit
  <2> QED BY <2>2, <2>3
<1>4. CASE type \in {BIT, BLOB, SET}
  <2>1. read = Malformed
    <3>1. CASE type = BIT BY <1>1, <3>1, TypesDiffer DEF ReadValue
    <3>2. CASE type = BLOB BY <1>1, <3>2, TypesDiffer DEF ReadValue, ReadLobLocator
    <3>3. CASE type = SET BY <1>1, <3>3, TypesDiffer DEF ReadValue, IsCollectionType, ReadCollection
    <3> QED BY <1>4, <3>1, <3>2, <3>3
  <2> HIDE DEF read
  <2>2. exact.verdict = "malformed" BY <1>2, <2>1, Fields
  <2> QED BY <2>2 DEF exact, read, limit
<1>5. CASE type \notin {INT, DATE, BIT, BLOB, SET}
  <2>1. read = NotDecoded(at) BY <1>5 DEF ReadValue, IsCollectionType
  <2> HIDE DEF read
  <2>2. exact.verdict = "unsupported" BY <1>2, <2>1, Fields
  <2> QED BY <2>2 DEF exact, read, limit
<1> QED BY <1>3, <1>4, <1>5

\* The value of a cell is read as it is meant, and nothing behind the reply is.
LEMMA PayloadRight ==
  ASSUME NEW words \in Seq(Int), NEW type \in Int, NEW at \in 0..Len(words), NEW size \in Nat
  PROVE  LET read == ReadPayload(words, at, type, size)
         IN /\ at + size > Len(words) => read.verdict = "malformed"
            /\ at + size <= Len(words) =>
                 /\ IsValue(read, Payloads(NestedPayloads(words), words, type, at, at + size), at + size)
                 /\ read.verdict = "unsupported" => read.at = at + size
<1> DEFINE read == ReadPayload(words, at, type, size)
           value == ExactLength(ReadValue(Nested(words), words, at, Len(words), type, size), at, size)
           meant == Payloads(NestedPayloads(words), words, type, at, at + size)
<1>1. Len(words) \in Nat /\ at \in Nat /\ (Available(at, Len(words), size) <=> at + size <= Len(words))
  BY DEF Available
<1>2. CASE size = 0 /\ type = BIT
  <2>1. read = Ok(Scalar(<<>>), at) BY <1>2 DEF ReadPayload, IsBitType
  <2>2. at + size = at /\ at <= Len(words) /\ at \in Int BY <1>1, <1>2
  <2>3. meant = {Scalar(SubSeq(words, at + 1, at))} BY <1>2, <2>2, PayloadsOf
  <2>4. SubSeq(words, at + 1, at) = <<>> BY <1>1
  <2> HIDE DEF read, meant
  <2>5. read.verdict = "ok" /\ read.value = Scalar(<<>>) /\ read.at = at BY <2>1, Fields
  <2>6. IsValue(read, meant, at + size) BY <2>2, <2>3, <2>4, <2>5, Tags DEF IsValue, Verdicts
  <2> QED BY <2>2, <2>5, <2>6 DEF read, meant
<1>3. CASE ~(size = 0 /\ type = BIT)
  <2>1. read = IF value.verdict = "unsupported"
               THEN IF Available(at, Len(words), size) THEN NotDecoded(at + size) ELSE Malformed
               ELSE IF value.verdict = "ok" /\ size = 0 THEN Malformed ELSE value
    BY <1>3 DEF ReadPayload, IsBitType
  <2>2. CASE at + size > Len(words)
    <3>1. value.verdict \in {"malformed", "unsupported"} BY <2>2, Overrun
    <3> HIDE DEF read, value
    <3>2. read.verdict = "malformed" BY <1>1, <2>1, <2>2, <3>1, Fields
    <3> QED BY <1>1, <2>2, <3>2 DEF read
  <2>3. CASE at + size <= Len(words)
    <3>1. NestedRight(Nested(words), NestedPayloads(words), words, size - 3)
      <4> DEFINE nested == Nested(words)
                 payloads == NestedPayloads(words)
      <4>1. \A l \in 0..(size - 3) : l \in 0..(Len(words) - 1) BY <1>1, <2>3
      <4>2. NestedRight(nested, payloads, words, Len(words) - 1) BY NestedIsRight
      <4> HIDE DEF nested, payloads
      <4>3. NestedRight(nested, payloads, words, size - 3)
        <5> SUFFICES ASSUME NEW a \in 0..Len(words), NEW t \in Int, NEW l \in 0..(size - 3), a + l <= Len(words)
                     PROVE  /\ IsValue(ExactLength(nested[a][t][l], a, l), payloads[t][a][a + l], a + l)
                            /\ t = BIT /\ l = 0 => payloads[t][a][a] = {Scalar(<<>>)}
                            /\ t = NULLTYPE => payloads[t][a][a + l] = {Unsupported}
          BY Zenon DEF NestedRight
        <5>1. l \in 0..(Len(words) - 1) BY <4>1, Zenon
        <5> QED BY <4>2, <5>1, Zenon DEF NestedRight
      <4> QED BY <4>3 DEF nested, payloads
    <3>2. IsValue(value, meant, at + size)
      <4> DEFINE limit == Len(words)
                 nested == Nested(words)
                 payloads == NestedPayloads(words)
      <4>1. limit \in (at + size)..Len(words) BY <1>1, <2>3
      <4>2. NestedRight(nested, payloads, words, size - 3) BY <3>1
      <4> HIDE DEF limit, nested, payloads
      <4>3. IsValue(ExactLength(ReadValue(nested, words, at, limit, type, size), at, size),
                    Payloads(payloads, words, type, at, at + size), at + size)
        BY <4>1, <4>2, ValueRight
      <4> QED BY <4>3 DEF limit, nested, payloads
    <3>3. size = 0 => meant \in {{}, {Unsupported}}
      <4>1. size = 0 => type # BIT /\ at + size = at /\ at \in Int BY <1>1, <1>3
      <4> QED BY <4>1, TooShort
    <3> HIDE DEF read, value, meant
    <3>4. ~(value.verdict = "ok" /\ size = 0) BY <3>2, <3>3 DEF IsValue
    <3>5. CASE value.verdict = "unsupported"
      <4>1. read = NotDecoded(at + size) BY <1>1, <2>1, <2>3, <3>5
      <4>2. read.verdict = "unsupported" /\ read.at = at + size BY <4>1, Fields
      <4>3. IsValue(read, meant, at + size) BY <3>2, <3>5, <4>2 DEF IsValue
      <4> QED BY <1>1, <2>3, <4>2, <4>3 DEF read, meant
    <3>6. CASE value.verdict # "unsupported"
      <4>1. read = value BY <2>1, <3>4, <3>6
      <4> QED BY <1>1, <2>3, <3>2, <3>6, <4>1 DEF read, meant
    <3> QED BY <3>5, <3>6
  <2> QED BY <1>1, <2>2, <2>3
<1> QED BY <1>2, <1>3

\* A value that ends at some place, or does not fit.
LEMMA PlaceRight ==
  ASSUME NEW from \in Nat, NEW to \in Nat, NEW read, NEW meaning,
         \E end0 \in Nat :
           /\ end0 > from
           /\ end0 > to => read.verdict = "malformed"
           /\ end0 <= to => IsValue(read, meaning[end0], end0) /\ (read.verdict = "unsupported" => read.at = end0)
           /\ \A end \in from..to : end # end0 => meaning[end] = {}
  PROVE  Decodes(read, meaning, from, to, {Unsupported})
<1>3. PICK end0 \in Nat :
           /\ end0 > from
           /\ end0 > to => read.verdict = "malformed"
           /\ end0 <= to => IsValue(read, meaning[end0], end0) /\ (read.verdict = "unsupported" => read.at = end0)
           /\ \A end \in from..to : end # end0 => meaning[end] = {}
  OBVIOUS
<1>1. CASE end0 > to
  <2>1. \A end \in from..to : end # end0 BY <1>1
  <2>2. \A end \in from..to : meaning[end] = {} BY <1>3, <2>1
  <2>3. read.verdict = "malformed" BY <1>1, <1>3
  <2> QED BY <2>2, <2>3 DEF Decodes, Verdicts
<1>2. CASE end0 <= to
  <2> DEFINE values == meaning[end0]
  <2>1. IsValue(read, values, end0) /\ (read.verdict = "unsupported" => read.at = end0) BY <1>2, <1>3
  <2>2. end0 \in (from + 1)..to BY <1>2, <1>3
  <2>6. \A end \in from..to : meaning[end] = IF end = end0 THEN values ELSE {} BY <1>3
  <2> HIDE DEF values
  <2>3. CASE read.verdict = "malformed"
    <3>1. \A end \in from..to : meaning[end] = {} BY <2>1, <2>3, <2>6 DEF IsValue
    <3> QED BY <2>3, <3>1 DEF Decodes, Verdicts
  <2>4. CASE read.verdict = "ok"
    <3>1. \A end \in from..to : meaning[end] = IF end = read.at THEN {read.value} ELSE {} BY <2>1, <2>4, <2>6 DEF IsValue
    <3>2. read.value \notin {Unsupported} /\ read.at = end0 BY <2>1, <2>4 DEF IsValue
    <3> QED BY <2>2, <2>4, <3>1, <3>2 DEF Decodes, Verdicts
  <2>5. CASE read.verdict = "unsupported"
    <3>1. \A end \in from..to : meaning[end] = IF end = read.at THEN {Unsupported} ELSE {} BY <2>1, <2>5, <2>6 DEF IsValue
    <3>2. read.at = end0 BY <2>1, <2>5
    <3> QED BY <2>2, <2>5, <3>1, <3>2 DEF Decodes, Verdicts
  <2> QED BY <2>1, <2>3, <2>4, <2>5 DEF IsValue, Verdicts
<1> QED BY <1>1, <1>2

\* Malformed is right for words that mean nothing.
LEMMA NothingRight ==
  ASSUME NEW from \in Int, NEW to \in Int, NEW meaning, NEW bad, \A end \in from..to : meaning[end] = {}
  PROVE  Decodes(Malformed, meaning, from, to, bad)
BY Fields DEF Decodes, Verdicts

\* NULL is right for a length of -1.
LEMMA NullRight ==
  ASSUME NEW from \in Nat, NEW to \in Nat, from < to, NEW meaning,
         \A end \in from..to : meaning[end] = IF end = from + 1 THEN {Null} ELSE {}
  PROVE  Decodes(Ok(Null, from + 1), meaning, from, to, {Unsupported})
<1> DEFINE read == Ok(Null, from + 1)
<1>1. read.verdict = "ok" /\ read.value = Null /\ read.at = from + 1 BY Fields
<1>2. Null # Unsupported BY Tags
<1> HIDE DEF read
<1>3. IsValue(read, {Null}, from + 1) BY <1>1, <1>2 DEF IsValue, Verdicts
<1>4. from + 1 \in Nat /\ from + 1 > from /\ ~(from + 1 > to) /\ read.verdict # "unsupported" BY <1>1
<1>6. /\ from + 1 <= to => IsValue(read, meaning[from + 1], from + 1)
      /\ \A end \in from..to : end # from + 1 => meaning[end] = {}
  BY <1>3
<1>7. \E end0 \in Nat :
        /\ end0 > from
        /\ end0 > to => read.verdict = "malformed"
        /\ end0 <= to => IsValue(read, meaning[end0], end0) /\ (read.verdict = "unsupported" => read.at = end0)
        /\ \A end \in from..to : end # end0 => meaning[end] = {}
  BY <1>4, <1>6
<1>5. Decodes(read, meaning, from, to, {Unsupported}) BY <1>7, PlaceRight
<1> QED BY <1>5 DEF read

\* A cell of a typed column.
LEMMA TypedCellRight ==
  ASSUME NEW words \in Seq(Int), NEW type \in Int, type # NULLTYPE, NEW from \in 0..Len(words),
         NEW meaning, \A end \in from..Len(words) : meaning[end] = ColumnValues(words, type, from, end)
  PROVE  Decodes(ReadCell(words, from, type), meaning, from, Len(words), {Unsupported})
<1> DEFINE to == Len(words)
           size == words[from + 1]
           read == ReadCell(words, from, type)
           payloads == PayloadsAtDepth(NestedPayloads(words), words)
<1>1. to \in Nat /\ from \in Nat OBVIOUS
<1>2. \A end \in from..to : meaning[end] = CellValues(payloads, words, type, from, end)
  BY DEF ColumnValues, PayloadsAtDepth
<1> HIDE DEF payloads
<1>3. CASE from = to
  <2>1. read = Malformed BY <1>1, <1>3 DEF ReadCell, Available
  <2>2. \A end \in from..to : meaning[end] = {} BY <1>2, <1>3, CellMeans
  <2>3. Decodes(Malformed, meaning, from, to, {Unsupported}) BY <1>1, <2>2, NothingRight
  <2> QED BY <2>1, <2>3
<1>4. CASE from < to
  <2>1. size \in Int /\ from + 1 \in 0..Len(words) BY <1>1, <1>4
  <2>2. read = IF size < -1 \/ (size = 0 /\ type = SET) THEN Malformed
               ELSE IF size = -1 THEN Ok(Null, from + 1)
               ELSE ReadPayload(words, from + 1, type, size)
    BY <1>1, <1>4 DEF ReadCell, Available, Word, IsCollectionType
  <2>3. \A end \in from..to :
          /\ size = -1 => meaning[end] = IF end = from + 1 THEN {Null} ELSE {}
          /\ size # -1 => meaning[end] = IF size = end - from - 1 THEN payloads[type][from + 1][end] ELSE {}
    <3> TAKE end \in from..to
    <3>1. end = from \/ end > from BY <1>1
    <3>2. meaning[end] = CellValues(payloads, words, type, from, end) BY <1>2
    <3>3. CASE end = from
      <4>1. meaning[end] = {} BY <3>2, <3>3, CellMeans
      <4>2. end # from + 1 /\ end - from - 1 = -1 BY <1>1, <3>3
      <4> QED BY <2>1, <4>1, <4>2
    <3>4. CASE end > from BY <3>2, <3>4, CellMeans
    <3> QED BY <3>1, <3>3, <3>4
  <2> HIDE DEF size, read, to
  <2>4. CASE size = -1
    <3>1. read = Ok(Null, from + 1) BY <2>2, <2>4
    <3>2. \A end \in from..to : meaning[end] = IF end = from + 1 THEN {Null} ELSE {} BY <2>3, <2>4
    <3>3. Decodes(Ok(Null, from + 1), meaning, from, to, {Unsupported}) BY <1>1, <1>4, <3>2, NullRight
    <3> QED BY <3>1, <3>3 DEF read, to
  <2>5. CASE size < -1 \/ (size = 0 /\ type = SET)
    <3>1. read = Malformed BY <2>2, <2>5
    <3>2. \A end \in from..to : meaning[end] = {}
      <4> TAKE end \in from..to
      <4>1. size # -1 BY <2>1, <2>5
      <4>2. CASE size = end - from - 1
        <5>1. end \in Int /\ end = from + 1 BY <1>1, <2>1, <2>5, <4>2
        <5>2. type = SET BY <1>1, <2>1, <2>5, <4>2
        <5>3. payloads[type][from + 1][from + 1] = Payloads(NestedPayloads(words), words, SET, from + 1, from + 1)
          BY <1>1, <5>2 DEF payloads, PayloadsAtDepth
        <5>4. (from + 1) - (from + 1) = 0 BY <1>1
        <5>5. Payloads(NestedPayloads(words), words, SET, from + 1, from + 1) = {}
          BY <5>4, TypesDiffer DEF Payloads
        <5> QED BY <2>3, <4>1, <4>2, <5>1, <5>3, <5>5
      <4>3. CASE size # end - from - 1 BY <2>3, <4>1, <4>3
      <4> QED BY <4>2, <4>3
    <3>3. Decodes(Malformed, meaning, from, to, {Unsupported}) BY <1>1, <3>2, NothingRight
    <3> QED BY <3>1, <3>3 DEF read, to
  <2>6. CASE size >= 0 /\ ~(size = 0 /\ type = SET)
    <3> DEFINE end0 == from + 1 + size
               values == Payloads(NestedPayloads(words), words, type, from + 1, end0)
    <3>1. read = ReadPayload(words, from + 1, type, size)
      <4>1. ~(size < -1 \/ (size = 0 /\ type = SET)) /\ size # -1 BY <2>1, <2>6
      <4> QED BY <2>2, <4>1
    <3>2. size \in Nat /\ end0 \in Nat /\ end0 > from /\ (from + 1) + size = end0 BY <1>1, <2>1, <2>6
    <3>3. /\ end0 > to => read.verdict = "malformed"
          /\ end0 <= to => IsValue(read, values, end0) /\ (read.verdict = "unsupported" => read.at = end0)
      BY <2>1, <3>1, <3>2, PayloadRight DEF to
    <3>4. \A end \in from..to : meaning[end] = IF end = end0 THEN values ELSE {}
      <4> TAKE end \in from..to
      <4>1. size # -1 /\ end \in Int /\ (size = end - from - 1 <=> end = end0) BY <1>1, <2>1, <2>6
      <4>2. payloads[type][from + 1][end] = Payloads(NestedPayloads(words), words, type, from + 1, end)
        BY <1>1, <4>1 DEF payloads, PayloadsAtDepth
      <4> HIDE DEF end0
      <4> QED BY <2>3, <4>1, <4>2
    <3> HIDE DEF end0, values
    <3>6. end0 <= to => IsValue(read, meaning[end0], end0) BY <1>1, <3>2, <3>3, <3>4
    <3>9. \E e \in Nat :
            /\ e > from
            /\ e > to => read.verdict = "malformed"
            /\ e <= to => IsValue(read, meaning[e], e) /\ (read.verdict = "unsupported" => read.at = e)
            /\ \A end \in from..to : end # e => meaning[end] = {}
      BY <3>2, <3>3, <3>4, <3>6
    <3>5. Decodes(read, meaning, from, to, {Unsupported}) BY <1>1, <3>9, PlaceRight
    <3> QED BY <3>5 DEF read, to
  <2> QED BY <2>1, <2>4, <2>5, <2>6
<1> QED BY <1>1, <1>3, <1>4

\* A cell of a column of no type, which states it itself.
LEMMA UntypedCellRight ==
  ASSUME NEW words \in Seq(Int), NEW from \in 0..Len(words),
         NEW meaning, \A end \in from..Len(words) : meaning[end] = ColumnValues(words, NULLTYPE, from, end)
  PROVE  Decodes(ReadCell(words, from, NULLTYPE), meaning, from, Len(words), {Unsupported})
<1> DEFINE to == Len(words)
           size == words[from + 1]
           flag == words[from + 2]
           width == HeaderWidth(flag)
           stated == IF flag = CollectionFlag THEN SET ELSE words[from + 1 + width]
           read == ReadCell(words, from, NULLTYPE)
           payloads == PayloadsAtDepth(NestedPayloads(words), words)
<1>1. to \in Nat /\ from \in Nat OBVIOUS
<1>2. \A end \in from..to : meaning[end] =
        IF end = from + 1 /\ words[end] = -1 THEN CellValues(payloads, words, NULLTYPE, from, end)
        ELSE IF end < from + 2 \/ size # end - from - 1 THEN {}
        ELSE IF flag \notin {CollectionFlag, OtherFlag} THEN payloads[flag][from + 2][end]
        ELSE IF end < from + 3 THEN {}
        ELSE payloads[IF flag = CollectionFlag THEN SET ELSE words[from + 3]][from + 3][end]
  BY DEF ColumnValues, PayloadsAtDepth
<1> HIDE DEF payloads
<1>3. CASE from = to
  <2>1. read = Malformed BY <1>1, <1>3 DEF ReadCell, Available
  <2>2. \A end \in from..to : meaning[end] = {}
    <3> TAKE end \in from..to
    <3>1. end # from + 1 /\ end < from + 2 BY <1>1, <1>3
    <3> QED BY <1>2, <3>1
  <2>3. Decodes(Malformed, meaning, from, to, {Unsupported}) BY <1>1, <2>2, NothingRight
  <2> QED BY <2>1, <2>3
<1>4. CASE from < to
  <2>1. size \in Int BY <1>1, <1>4
  <2>2. from + 1 < to => flag \in Int BY <1>1
  <2>3. width \in {1, 2} /\ (width = 2 <=> flag \in {CollectionFlag, OtherFlag}) BY DEF HeaderWidth
  <2>4. read = IF size < -1 \/ size = 0 THEN Malformed
               ELSE IF size = -1 THEN Ok(Null, from + 1)
               ELSE IF ~(from + 1 < to) THEN Malformed
               ELSE IF from + 1 + width > to \/ width > size THEN Malformed
               ELSE ReadPayload(words, from + 1 + width, stated, size - width)
    <3>1. Word(words, from) = size /\ Word(words, from + 1) = flag
      <4>1. (from + 1) + 1 = from + 2 BY <1>1
      <4> QED BY <4>1 DEF Word
    <3>2. stated = HeaderType(words, from + 1)
      <4>1. (from + 1 + width - 1) + 1 = from + 1 + width BY <1>1, <2>3
      <4> QED BY <3>1, <4>1 DEF HeaderType, Word
    <3>3. /\ Available(from, to, 1) /\ (Available(from + 1, to, 1) <=> from + 1 < to)
          /\ from + 1 < to => (Available(from + 1, to, width) <=> ~(from + 1 + width > to))
      <4> HIDE DEF width, to
      <4> QED BY <1>1, <1>4, <2>3 DEF Available
    <3> HIDE DEF stated, width, flag, size
    <3>4. HeaderWidth(Word(words, from + 1)) = width BY <3>1 DEF width
    <3> QED BY <3>1, <3>2, <3>3, <3>4 DEF ReadCell
  <2>5. \A end \in from..to : words[end] = IF end = from + 1 THEN size ELSE words[end] OBVIOUS
  <2> HIDE DEF size, read, to, flag
  <2>6. CASE size = -1
    <3>1. read = Ok(Null, from + 1) BY <2>4, <2>6
    <3>2. \A end \in from..to : meaning[end] = IF end = from + 1 THEN {Null} ELSE {}
      <4> TAKE end \in from..to
      <4>1. CASE end = from + 1
        <5>1. words[end] = -1 BY <2>5, <2>6, <4>1
        <5>2. meaning[end] = CellValues(payloads, words, NULLTYPE, from, end) BY <1>2, <4>1, <5>1
        <5>3. CellValues(payloads, words, NULLTYPE, from, end) = {Null}
          BY <1>1, <1>4, <2>6, <4>1, CellMeans DEF size, to
        <5> QED BY <4>1, <5>2, <5>3
      <4>2. CASE end # from + 1
        <5>1. end < from + 2 \/ size # end - from - 1 BY <1>1, <2>6, <4>2
        <5> QED BY <1>2, <4>2, <5>1
      <4> QED BY <4>1, <4>2
    <3>3. Decodes(Ok(Null, from + 1), meaning, from, to, {Unsupported}) BY <1>1, <1>4, <3>2, NullRight
    <3> QED BY <3>1, <3>3 DEF read, to
  <2>7. CASE size # -1
    <3>1. \A end \in from..to : meaning[end] =
            IF end = from + 1 + size /\ size >= width
            THEN payloads[stated][from + 1 + width][end] ELSE {}
      <4> TAKE end \in from..to
      <4>1. ~(end = from + 1 /\ words[end] = -1) BY <2>5, <2>7
      <4>2. end \in Int /\ (size = end - from - 1 <=> end = from + 1 + size) BY <1>1, <2>1
      <4>3. CASE flag \notin {CollectionFlag, OtherFlag}
        <5>1. width = 1 /\ stated = flag
          <6>1. width = 1 BY <2>3, <4>3
          <6>2. from + 1 + 1 = from + 2 BY <1>1
          <6> QED BY <4>3, <6>1, <6>2 DEF flag
        <5>2. from + 1 + width = from + 2 BY <1>1, <5>1
        <5>3. end = from + 1 + size => (size >= 1 <=> ~(end < from + 2)) BY <1>1, <2>1, <4>2
        <5> HIDE DEF stated, width
        <5> QED BY <1>2, <4>1, <4>2, <4>3, <5>1, <5>2, <5>3
      <4>4. CASE flag \in {CollectionFlag, OtherFlag}
        <5>1. width = 2 BY <2>3, <4>4
        <5>2. from + 1 + width = from + 3 BY <1>1, <5>1
        <5>3. stated = IF flag = CollectionFlag THEN SET ELSE words[from + 3] BY <5>2
        <5>4. end = from + 1 + size => (size >= 2 <=> ~(end < from + 3)) /\ (size >= 2 => ~(end < from + 2))
          BY <1>1, <2>1, <4>2
        <5> HIDE DEF stated, width
        <5> QED BY <1>2, <4>1, <4>2, <4>4, <5>1, <5>2, <5>3, <5>4
      <4> QED BY <4>3, <4>4
    <3>2. CASE size < width \/ from + 1 + width > to
      <4>1. read = Malformed
        <5>1. size < -1 \/ size = 0 \/ size >= 1 BY <2>1, <2>7
        <5> HIDE DEF stated, width
        <5> QED BY <1>1, <2>1, <2>3, <2>4, <2>7, <3>2, <5>1
      <4>2. \A end \in from..to : meaning[end] = {}
        <5> TAKE end \in from..to
        <5>1. ~(end = from + 1 + size /\ size >= width) BY <1>1, <2>1, <2>3, <3>2
        <5> QED BY <3>1, <5>1
      <4>3. Decodes(Malformed, meaning, from, to, {Unsupported}) BY <1>1, <4>2, NothingRight
      <4> QED BY <4>1, <4>3 DEF read, to
    <3>3. CASE size >= width /\ from + 1 + width <= to
      <4> DEFINE at == from + 1 + width
                 end0 == from + 1 + size
                 values == Payloads(NestedPayloads(words), words, stated, at, end0)
      <4>1. at \in 0..Len(words) /\ at \in Int /\ size - width \in Nat /\ end0 \in Nat /\ end0 > from
            /\ at + (size - width) = end0
        <5>1. width \in Nat /\ width >= 1 BY <2>3
        <5> HIDE DEF width
        <5> QED BY <1>1, <2>1, <3>3, <5>1 DEF to
      <4>2. stated \in Int
        <5>1. at \in 1..Len(words) BY <1>1, <2>3, <3>3 DEF to
        <5> QED BY <5>1, TypesAreWords
      <4>3. read = ReadPayload(words, at, stated, size - width)
        <5>1. size >= 1 /\ from + 1 < to /\ ~(from + 1 + width > to \/ width > size)
          BY <1>1, <2>1, <2>3, <3>3
        <5>2. ~(size < -1 \/ size = 0) /\ size # -1 BY <2>1, <5>1
        <5> HIDE DEF stated, width
        <5> QED BY <2>4, <5>1, <5>2
      <4> HIDE DEF stated, width, at
      <4>4. /\ end0 > to => read.verdict = "malformed"
            /\ end0 <= to => IsValue(read, values, end0) /\ (read.verdict = "unsupported" => read.at = end0)
        BY <4>1, <4>2, <4>3, PayloadRight DEF to
      <4>5. \A end \in from..to : meaning[end] = IF end = end0 THEN values ELSE {}
        <5> TAKE end \in from..to
        <5>1. end \in Int BY <1>1
        <5>2. payloads[stated][at][end] = Payloads(NestedPayloads(words), words, stated, at, end)
          BY <4>1, <4>2, <5>1 DEF payloads, PayloadsAtDepth
        <5>3. meaning[end] = IF end = end0 THEN payloads[stated][at][end] ELSE {} BY <3>1, <3>3 DEF at
        <5> HIDE DEF end0
        <5> QED BY <5>2, <5>3
      <4> HIDE DEF end0, values
      <4>6. end0 <= to => IsValue(read, meaning[end0], end0) BY <1>1, <4>1, <4>4, <4>5
      <4>7. \E e \in Nat :
              /\ e > from
              /\ e > to => read.verdict = "malformed"
              /\ e <= to => IsValue(read, meaning[e], e) /\ (read.verdict = "unsupported" => read.at = e)
              /\ \A end \in from..to : end # e => meaning[end] = {}
        BY <4>1, <4>4, <4>5, <4>6
      <4>8. Decodes(read, meaning, from, to, {Unsupported}) BY <1>1, <4>7, PlaceRight
      <4> QED BY <4>8 DEF read, to
    <3>4. size < width \/ from + 1 + width > to \/ (size >= width /\ from + 1 + width <= to)
      BY <1>1, <2>1, <2>3
    <3> QED BY <3>2, <3>3, <3>4
  <2> QED BY <2>6, <2>7
<1> QED BY <1>1, <1>3, <1>4

\* A cell is read as what it means.
LEMMA CellRight ==
  ASSUME NEW words \in Seq(Int), NEW type \in Int, NEW from \in 0..Len(words),
         NEW meaning, \A end \in from..Len(words) : meaning[end] = ColumnValues(words, type, from, end)
  PROVE  Decodes(ReadCell(words, from, type), meaning, from, Len(words), {Unsupported})
BY TypedCellRight, UntypedCellRight

\* A row, of which `bad` are the ones with an unsupported value.
LEMMA RowRight ==
  ASSUME NEW words \in Seq(Int), NEW columns \in Seq(Int), NEW from \in 0..Len(words),
         NEW meaning, \A end \in from..Len(words) : meaning[end] = RowValues(words, columns, from, end),
         NEW bad,
         \A end \in from..Len(words) : \A row \in RowValues(words, columns, from, end) :
           row \in bad <=> HasUnsupported(row)
  PROVE  Decodes(ReadRow(words, from, columns), meaning, from, Len(words), bad)
<1> DEFINE to == Len(words)
           count == Len(columns)
           next == [i \in 1..count |-> [at \in Int |-> ReadCell(words, at, columns[i])]]
           means == [k \in 1..count |-> [start \in Int |-> [end \in Int |->
                       ColumnValues(words, columns[k], start, end)]]]
           read == ReadRow(words, from, columns)
           all == ReadAll(next, count, from + 2)
           splits == Splits(means, count, from + 2, to)
<1>1. to \in Nat /\ from \in Nat /\ from \in Int /\ count \in Nat /\ to \in Int OBVIOUS
<1>2. read = IF from + 2 > to THEN Malformed ELSE all
  BY <1>1 DEF ReadRow, Available
<1>3. \A end \in from..to : meaning[end] = IF end < from + 2 THEN {} ELSE splits[end]
  BY DEF RowValues
<1>4. CASE from + 2 > to
  <2>1. \A end \in from..to : meaning[end] = {}
    <3> TAKE end \in from..to
    <3>1. end < from + 2 BY <1>1, <1>4
    <3> QED BY <1>3, <3>1
  <2> HIDE DEF to, read
  <2>2. Decodes(Malformed, meaning, from, to, bad) BY <1>1, <2>1, NothingRight
  <2>3. read = Malformed BY <1>2, <1>4
  <2> QED BY <2>2, <2>3 DEF read, to
<1>5. CASE from + 2 <= to
  <2> DEFINE first == from + 2
  <2>1. first \in Int /\ first <= to /\ first \in Nat BY <1>1, <1>5
  <2>2. \A i \in 1..count, at \in first..to : Decodes(next[i][at], means[i][at], at, to, {Unsupported})
    <3> TAKE i \in 1..count, at \in first..to
    <3>1. at \in Int /\ at \in 0..Len(words) /\ columns[i] \in Int BY <1>1, <2>1
    <3> DEFINE type == columns[i]
               m == means[i][at]
    <3>2. \A end \in at..Len(words) : m[end] = ColumnValues(words, type, at, end) BY <3>1
    <3>3. next[i][at] = ReadCell(words, at, type) BY <3>1
    <3> HIDE DEF m, type
    <3>4. type \in Int BY <3>1 DEF type
    <3>5. Decodes(ReadCell(words, at, type), m, at, Len(words), {Unsupported}) BY <3>1, <3>2, <3>4, CellRight
    <3> QED BY <3>3, <3>5 DEF m
  <2> HIDE DEF next, means, to, count, read
  <2>3. \E V : AllDecode(ReadAll(next, count, first), Splits(means, count, first, to), first, to, count, {Unsupported}, V)
    <3> HIDE DEF first
    <3> QED BY <1>1, <2>1, <2>2, SplitsRead
  <2>4. PICK V : AllDecode(all, splits, first, to, count, {Unsupported}, V) BY <2>3
  <2> HIDE DEF all, splits
  <2>5. read = all BY <1>1, <1>2, <1>5
  <2>6. CASE all.verdict = "malformed"
    <3>1. \A end \in from..to : meaning[end] = {}
      <4> TAKE end \in from..to
      <4>1. CASE end < from + 2 BY <1>3, <4>1
      <4>2. CASE ~(end < from + 2)
        <5>1. end \in first..to BY <1>1, <4>2
        <5>2. splits[end] = {} BY <2>4, <2>6, <5>1 DEF AllDecode
        <5> QED BY <1>3, <4>2, <5>2
      <4> QED BY <4>1, <4>2
    <3> QED BY <2>5, <2>6, <3>1 DEF Decodes, Verdicts, to, read
  <2>7. CASE all.verdict # "malformed"
    <3>1. all.at \in (first + count)..to BY <2>4, <2>7 DEF AllDecode
    <3>2. PICK row \in Seq(V) :
            /\ Len(row) = count
            /\ \A end \in first..to : splits[end] = IF end = all.at THEN {row} ELSE {}
            /\ all.verdict = "ok" => row = all.value /\ \A i \in 1..count : row[i] \notin {Unsupported}
            /\ all.verdict = "unsupported" => \E i \in 1..count : row[i] \in {Unsupported}
      BY <2>4, <2>7 DEF AllDecode
    <3>3. all.at \in (from + 1)..to /\ all.at \in first..to /\ ~(all.at < from + 2) BY <1>1, <3>1
    <3>4. \A end \in from..to : meaning[end] = IF end = all.at THEN {row} ELSE {}
      <4> TAKE end \in from..to
      <4>1. CASE end < from + 2
        <5>1. end # all.at BY <3>3, <4>1
        <5> QED BY <1>3, <4>1, <5>1
      <4>2. CASE ~(end < from + 2)
        <5>1. end \in first..to BY <1>1, <4>2
        <5> QED BY <1>3, <3>2, <4>2, <5>1
      <4> QED BY <4>1, <4>2
    <3>5. row \in bad <=> HasUnsupported(row)
      <4>1. all.at \in from..Len(words) BY <1>1, <3>3 DEF to
      <4>2. meaning[all.at] = {row} BY <3>4, <4>1 DEF to
      <4>3. row \in RowValues(words, columns, from, all.at) BY <4>1, <4>2
      <4> QED BY <4>1, <4>3
    <3>6. all.verdict = "ok" => row = all.value /\ row \notin bad
      <4>1. all.verdict = "ok" => ~HasUnsupported(row) BY <3>2 DEF HasUnsupported
      <4> QED BY <3>2, <3>5, <4>1
    <3>7. all.verdict = "unsupported" => row \in bad
      <4>1. all.verdict = "unsupported" => HasUnsupported(row) BY <3>2 DEF HasUnsupported
      <4> QED BY <3>5, <4>1
    <3>8. all.verdict \in Verdicts BY <2>4 DEF AllDecode
    <3>9. \E value : /\ \A end \in from..to : meaning[end] = IF end = all.at THEN {value} ELSE {}
                     /\ all.verdict = "ok" => value = all.value /\ value \notin bad
                     /\ all.verdict = "unsupported" => value \in bad
      BY <3>4, <3>6, <3>7
    <3>10. Decodes(all, meaning, from, to, bad) BY <2>7, <3>3, <3>8, <3>9 DEF Decodes
    <3> QED BY <2>5, <3>10 DEF read, to
  <2> QED BY <2>6, <2>7
<1> QED BY <1>1, <1>4, <1>5

\* Any FETCH reply, whatever its words, is read as the one thing it means.
THEOREM ReadAsItIsMeant ==
  ASSUME NEW words \in Seq(Int), NEW columns \in Seq(Int)
  PROVE  ReadAsMeant(words, columns)
<1> SUFFICES ASSUME Len(words) >= MinReplySize, words[1] >= 0
             PROVE  LET read == ParseFetch(words, columns)
                        meanings == Meanings(words, columns)
                        RowsUnsupported(rows) == \E r \in 1..Len(rows) : HasUnsupported(rows[r])
                    IN CASE read.verdict = "ok" -> meanings = {read.value} /\ ~RowsUnsupported(read.value)
                         [] read.verdict = "unsupported" ->
                              meanings # {} /\ \A rows \in meanings : RowsUnsupported(rows)
                         [] OTHER -> meanings = {}
  BY DEF ReadAsMeant
<1> DEFINE to == Len(words)
           count == words[2]
           read == ParseFetch(words, columns)
           meanings == Meanings(words, columns)
           RowsUnsupported(rows) == \E r \in 1..Len(rows) : HasUnsupported(rows[r])
           next == [i \in 1..count |-> [from \in Int |-> ReadRow(words, from, columns)]]
           means == [k \in 1..count |-> [start \in Int |-> [end \in Int |-> RowValues(words, columns, start, end)]]]
           all == ReadAll(next, count, MinReplySize)
           splits == Splits(means, count, MinReplySize, to)
<1>1. MinReplySize = 2 /\ to \in Nat /\ to >= 2 /\ count \in Int /\ to \in Int BY DEF MinReplySize
<1>2. read = IF count <= 0 THEN Ok(<<>>, MinReplySize) ELSE all
  <2>1. Word(words, 0) = words[1] /\ Word(words, 1) = count BY DEF Word
  <2>2. ~(Len(words) < MinReplySize) /\ ~(Word(words, 0) < 0) BY <1>1, <2>1
  <2> QED BY <2>1, <2>2 DEF ParseFetch, ParseRowData
<1>3. meanings = IF count <= 0 THEN {<<>>} ELSE UNION {splits[last] : last \in MinReplySize..to}
  BY DEF Meanings
<1>4. CASE count <= 0
  <2>1. read.verdict = "ok" /\ read.value = <<>> BY <1>2, <1>4, Fields
  <2>2. meanings = {<<>>} BY <1>3, <1>4
  <2>3. ~RowsUnsupported(<<>>) OBVIOUS
  <2> HIDE DEF read, meanings
  <2> QED BY <2>1, <2>2, <2>3 DEF read, meanings
<1>5. CASE count > 0
  <2> DEFINE R == UNION {UNION {RowValues(words, columns, from, end) : end \in 0..to} : from \in 0..to}
             bad == {row \in R : HasUnsupported(row)}
  <2>1. \A i \in 1..count, at \in 2..to : Decodes(next[i][at], means[i][at], at, to, bad)
    <3> TAKE i \in 1..count, at \in 2..to
    <3>1. at \in Int /\ at \in 0..Len(words) BY <1>1
    <3> DEFINE m == means[i][at]
    <3>2. \A end \in at..Len(words) : m[end] = RowValues(words, columns, at, end) BY <3>1
    <3>3. next[i][at] = ReadRow(words, at, columns) BY <3>1
    <3>4. \A end \in at..Len(words) : \A row \in RowValues(words, columns, at, end) :
            row \in bad <=> HasUnsupported(row)
      <4> TAKE end \in at..Len(words)
      <4> TAKE row \in RowValues(words, columns, at, end)
      <4>1. end \in 0..to /\ at \in 0..to BY <1>1, <3>1
      <4>2. row \in UNION {RowValues(words, columns, at, e) : e \in 0..to} BY <4>1
      <4>3. row \in R BY <4>1, <4>2
      <4> QED BY <4>3
    <3> HIDE DEF m, bad
    <3>5. Decodes(ReadRow(words, at, columns), m, at, Len(words), bad) BY <3>1, <3>2, <3>4, RowRight
    <3> QED BY <3>3, <3>5 DEF m
  <2>2. \A row \in R : row \in bad <=> HasUnsupported(row) OBVIOUS
  <2>3. \A i \in 1..count, at \in 2..to, end \in 2..to : means[i][at][end] \subseteq R
    <3> TAKE i \in 1..count, at \in 2..to, end \in 2..to
    <3>1. at \in Int /\ end \in Int /\ end \in 0..to /\ at \in 0..to BY <1>1
    <3>2. means[i][at][end] = RowValues(words, columns, at, end) BY <3>1
    <3>3. RowValues(words, columns, at, end) \subseteq UNION {RowValues(words, columns, at, e) : e \in 0..to} BY <3>1
    <3>4. UNION {RowValues(words, columns, at, e) : e \in 0..to} \subseteq R BY <3>1
    <3> QED BY <3>2, <3>3, <3>4
  <2> HIDE DEF R, bad, next, means, count, to, read, meanings, RowsUnsupported
  <2>4. count \in Nat BY <1>1, <1>5
  <2>5. AllDecode(ReadAll(next, count, 2), Splits(means, count, 2, to), 2, to, count, bad, R)
    BY <1>1, <2>1, <2>3, <2>4, SplitAsRead
  <2>6. AllDecode(all, splits, 2, to, count, bad, R) BY <1>1, <2>5
  <2> HIDE DEF all, splits
  <2>7. read = all BY <1>1, <1>2, <1>5
  <2>8. meanings = UNION {splits[last] : last \in 2..to} BY <1>1, <1>3, <1>5
  <2>9. CASE all.verdict = "malformed"
    <3>1. \A end \in 2..to : splits[end] = {} BY <2>6, <2>9 DEF AllDecode
    <3>2. meanings = {} BY <2>8, <3>1
    <3> QED BY <2>7, <2>9, <3>2 DEF read, meanings
  <2>10. CASE all.verdict # "malformed"
    <3>1. all.at \in 2..to
      <4>1. all.at \in (2 + count)..to BY <2>6, <2>10 DEF AllDecode
      <4> QED BY <1>1, <2>4, <4>1
    <3>2. PICK rows \in Seq(R) :
            /\ Len(rows) = count
            /\ \A end \in 2..to : splits[end] = IF end = all.at THEN {rows} ELSE {}
            /\ all.verdict = "ok" => rows = all.value /\ \A i \in 1..count : rows[i] \notin bad
            /\ all.verdict = "unsupported" => \E i \in 1..count : rows[i] \in bad
      BY <2>6, <2>10 DEF AllDecode
    <3>3. meanings = {rows}
      <4>1. splits[all.at] = {rows} BY <3>1, <3>2
      <4>2. \A end \in 2..to : splits[end] \subseteq {rows} BY <3>2
      <4> QED BY <2>8, <3>1, <4>1, <4>2
    <3>4. \A i \in 1..count : rows[i] \in bad <=> HasUnsupported(rows[i]) BY <2>2, <3>2
    <3>5. all.verdict \in {"ok", "unsupported"} BY <2>6, <2>10 DEF AllDecode, Verdicts
    <3>6. CASE all.verdict = "ok"
      <4>1. rows = all.value /\ ~RowsUnsupported(rows) BY <3>2, <3>4, <3>6 DEF RowsUnsupported
      <4>2. meanings = {read.value} /\ ~RowsUnsupported(read.value) BY <2>7, <3>3, <4>1
      <4> QED BY <2>7, <3>6, <4>2 DEF read, meanings, RowsUnsupported
    <3>7. CASE all.verdict = "unsupported"
      <4>1. RowsUnsupported(rows) BY <3>2, <3>4, <3>7 DEF RowsUnsupported
      <4>2. meanings # {} /\ \A r \in meanings : RowsUnsupported(r) BY <3>3, <4>1
      <4> QED BY <2>7, <3>7, <4>2 DEF read, meanings, RowsUnsupported
    <3> QED BY <3>5, <3>6, <3>7
  <2> QED BY <2>9, <2>10
<1> QED BY <1>1, <1>4, <1>5

-----------------------------------------------------------------------------
(* The behaviours that TLC checks are of such texts, values and replies.   *)

CodecTypeOK == /\ statement \in Seq(Characters)
               /\ reply \in Seq(Int) /\ columnTypes \in Seq(Int)

\* Words behind words are words; a cell and a row are words.
LEMMA CellType == \A a, b \in Seq(Int) : a \o b \in Seq(Int) /\ Cell(a) \in Seq(Int) /\ Row(a) \in Seq(Int)
<1> SUFFICES ASSUME NEW a \in Seq(Int), NEW b \in Seq(Int)
             PROVE  a \o b \in Seq(Int) /\ Cell(a) \in Seq(Int) /\ Row(a) \in Seq(Int)
  OBVIOUS
<1>1. <<1, 0>> \in Seq(Int) /\ <<Len(a)>> \in Seq(Int) OBVIOUS
<1>2. a \o b \in Seq(Int) /\ Cell(a) \in Seq(Int) BY <1>1 DEF Cell
<1>3. \A c \in Seq(Int) : c \o a \in Seq(Int) OBVIOUS
<1>4. Row(a) \in Seq(Int) BY <1>1, <1>3 DEF Row
<1> QED BY <1>2, <1>4

\* So are the replies of a CAS.
LEMMA CellsType ==
  ASSUME NEW type
  PROVE  CellsOf(type) \subseteq Seq(Int)
<1>1. /\ <<0>> \in Seq(Int) /\ <<2>> \in Seq(Int) /\ <<3>> \in Seq(Int) /\ <<>> \in Seq(Int)
      /\ <<0, 4>> \in Seq(Int) /\ <<3, 0>> \in Seq(Int) /\ <<1, 2>> \in Seq(Int) /\ SqlNull \in Seq(Int)
  BY DEF SqlNull
<1>2. /\ <<DATE, 2>> \in Seq(Int) /\ <<DATE, 1>> \in Seq(Int) /\ <<INT, 1>> \in Seq(Int)
      /\ <<BIT, 2>> \in Seq(Int) /\ <<BLOB, 1>> \in Seq(Int) /\ <<SET, 2>> \in Seq(Int)
      /\ <<NULLTYPE, 0>> \in Seq(Int) /\ <<INT, 3>> \in Seq(Int)
      /\ <<BLOB, 1, 1, 0>> \in Seq(Int) /\ <<OtherFlag, INT, 3>> \in Seq(Int)
      /\ <<CollectionFlag, DATE>> \in Seq(Int)
  BY TypesAreWords
<1> DEFINE dates == <<DATE, 2>> \o Cell(<<0>>) \o Cell(<<2>>)
<1>3. Dates \in Seq(Int) /\ Tail(Dates) \in Seq(Int)
  <2>1. dates \in Seq(Int) BY <1>1, <1>2, CellType, Zenon
  <2> HIDE DEF dates
  <2>2. Cell(dates) = <<Len(dates)>> \o dates BY DEF Cell
  <2>3. Cell(dates) \in Seq(Int) BY <2>1, CellType
  <2>4. Cell(dates) # <<>> BY <2>1, <2>2
  <2>5. Dates = Cell(dates) BY DEF Dates, dates
  <2> QED BY <2>3, <2>4, <2>5
<1>4. {Cell(<<3>>), SqlNull} \subseteq Seq(Int) BY <1>1, CellType
<1>5. {Cell(<<>>), Cell(<<0, 4>>)} \subseteq Seq(Int) BY <1>1, CellType
<1>6. {Cell(<<0>>), Cell(<<2>>)} \subseteq Seq(Int) BY <1>1, CellType
<1>7. {Cell(<<BLOB, 1, 1, 0>>)} \subseteq Seq(Int) BY <1>2, CellType
<1>8. /\ Cell(<<NULLTYPE, 0>>) \in Seq(Int)
      /\ Cell(<<BIT, 2>> \o Cell(<<>>) \o SqlNull) \in Seq(Int)
      /\ Cell(<<BLOB, 1>> \o Cell(<<3, 0>>)) \in Seq(Int)
      /\ Cell(<<SET, 2>> \o Cell(<<DATE, 1>> \o Cell(<<0>>)) \o Cell(<<INT, 1>> \o Cell(<<3>>))) \in Seq(Int)
  <2>1. Cell(<<NULLTYPE, 0>>) \in Seq(Int) BY <1>2, CellType
  <2>2. <<BIT, 2>> \o Cell(<<>>) \o SqlNull \in Seq(Int) BY <1>1, <1>2, CellType, Zenon
  <2>3. <<BLOB, 1>> \o Cell(<<3, 0>>) \in Seq(Int) BY <1>1, <1>2, CellType, Zenon
  <2>4. <<DATE, 1>> \o Cell(<<0>>) \in Seq(Int) /\ <<INT, 1>> \o Cell(<<3>>) \in Seq(Int)
    BY <1>1, <1>2, CellType, Zenon
  <2>5. <<SET, 2>> \o Cell(<<DATE, 1>> \o Cell(<<0>>)) \o Cell(<<INT, 1>> \o Cell(<<3>>)) \in Seq(Int)
    BY <1>2, <2>4, CellType, Zenon
  <2> QED BY <2>1, <2>2, <2>3, <2>5, CellType
<1>9. /\ Cell(<<INT, 3>>) \in Seq(Int) /\ Cell(<<OtherFlag, INT, 3>>) \in Seq(Int)
      /\ Cell(<<CollectionFlag, DATE>> \o Tail(Dates)) \in Seq(Int)
  BY <1>2, <1>3, CellType, Zenon
<1>10. {Cell(<<>>), Cell(<<1, 2>>)} \subseteq Seq(Int) BY <1>1, CellType
<1>11. CellsOf(SET) \subseteq Seq(Int) BY <1>3, <1>8, TypesDiffer DEF CellsOf
<1>12. CellsOf(NULLTYPE) \subseteq Seq(Int)
  BY <1>1, <1>9, TypesDiffer DEF CellsOf
<1>13. type \notin {SET, NULLTYPE} => CellsOf(type) \subseteq Seq(Int)
  BY <1>4, <1>5, <1>6, <1>7, <1>10 DEF CellsOf
<1> QED BY <1>11, <1>12, <1>13

\* What is in two rows.
LEMMA TwoRowsOf ==
  ASSUME NEW type, NEW e \in TwoRows(type)
  PROVE  \E c, d \in CellsOf(type) :
           e = [columns |-> <<type>>, words |-> <<0, 2>> \o Row(c) \o Row(d)]
<1> DEFINE Of(c, d) == [columns |-> <<type>>, words |-> <<0, 2>> \o Row(c) \o Row(d)]
<1>1. TwoRows(type) = {Of(c, d) : c \in CellsOf(type), d \in CellsOf(type)} BY DEF TwoRows
<1> HIDE DEF Of
<1>2. \E c, d \in CellsOf(type) : e = Of(c, d) BY <1>1
<1> QED BY <1>2, Zenon DEF Of

\* And their columns.
LEMMA EncodedType ==
  ASSUME NEW e \in Encoded
  PROVE  e.columns \in Seq(Int) /\ e.words \in Seq(Int)
<1>1. <<0, 1>> \in Seq(Int) /\ <<0, 2>> \in Seq(Int) /\ <<-1, 4>> \in Seq(Int)
  OBVIOUS
<1>2. Cell(<<2>>) \in Seq(Int) /\ Dates \in Seq(Int)
  <2>1. Dates \in CellsOf(SET) BY TypesDiffer DEF CellsOf
  <2>2. Cell(<<2>>) \in CellsOf(DATE) BY TypesDiffer DEF CellsOf
  <2> QED BY <2>1, <2>2, CellsType
<1>3. Types \subseteq Int BY TypesAreWords DEF Types, Unknown
<1>4. ASSUME NEW type \in Int, NEW other \in Int, NEW cell \in Seq(Int), e \in OneRow(type, other, cell)
      PROVE  e.columns \in Seq(Int) /\ e.words \in Seq(Int)
  <2>1. PICK c \in CellsOf(type) : e = [columns |-> <<type, other>>, words |-> <<0, 1>> \o Row(c \o cell)]
    BY <1>4 DEF OneRow
  <2>2. c \in Seq(Int) BY CellsType
  <2>3. Row(c \o cell) \in Seq(Int) BY <2>2, CellType, Zenon
  <2>4. <<0, 1>> \o Row(c \o cell) \in Seq(Int) BY <1>1, <2>3, CellType, Zenon
  <2>5. e.columns = <<type, other>> /\ e.words = <<0, 1>> \o Row(c \o cell) BY <2>1
  <2> QED BY <2>4, <2>5
<1>5. ASSUME e \in TwoRows(DATE) PROVE e.columns \in Seq(Int) /\ e.words \in Seq(Int)
  <2>1. PICK c \in CellsOf(DATE), d \in CellsOf(DATE) :
               e = [columns |-> <<DATE>>, words |-> <<0, 2>> \o Row(c) \o Row(d)]
    BY <1>5, TwoRowsOf, Zenon
  <2>2. c \in Seq(Int) /\ d \in Seq(Int) BY CellsType
  <2>3. Row(c) \in Seq(Int) /\ Row(d) \in Seq(Int) BY <2>2, CellType
  <2>4. <<0, 2>> \o Row(c) \o Row(d) \in Seq(Int) BY <1>1, <2>3, CellType, Zenon
  <2>5. e.columns = <<DATE>> /\ e.words = <<0, 2>> \o Row(c) \o Row(d) BY <2>1
  <2> QED BY <2>4, <2>5, TypesAreWords
<1>6. CASE e = Refused
  <2>1. e.columns = <<INT>> /\ e.words = <<-1, 4>> BY <1>6 DEF Refused
  <2> QED BY <1>1, <2>1, TypesAreWords
<1>7. \/ \E type \in Types : e \in OneRow(type, DATE, Cell(<<2>>))
      \/ e \in OneRow(DATE, SET, Dates) \/ e \in TwoRows(DATE) \/ e = Refused
  BY DEF Encoded
<1> QED BY <1>2, <1>3, <1>4, <1>5, <1>6, <1>7, TypesAreWords

\* The type invariant.
LEMMA CodecType == MCSpec => []CodecTypeOK
<1>1. MCInit => CodecTypeOK BY DEF MCInit, CodecTypeOK
<1>2. ASSUME CodecTypeOK, MCNext PROVE CodecTypeOK'
  <2>1. CASE FramingStep BY <1>2, <2>1 DEF FramingStep, CodecTypeOK
  <2>2. CASE Answer
    <3>1. PICK e \in Encoded : columnTypes' = e.columns /\ reply' = e.words BY <2>2 DEF Answer
    <3>2. statement' = statement BY <2>2 DEF Answer
    <3> QED BY <1>2, <3>1, <3>2, EncodedType DEF CodecTypeOK
  <2>3. CASE Damage
    <3>1. statement' = statement /\ columnTypes' = columnTypes BY <2>3 DEF Damage
    <3>2. reply \in Seq(Int) BY <1>2 DEF CodecTypeOK
    <3>3. reply' \in Seq(Int)
      <4>1. CASE \E i \in 2..Len(reply), w \in DamagedWords : reply' = [reply EXCEPT ![i] = w]
        <5>1. PICK i \in 2..Len(reply), w \in DamagedWords : reply' = [reply EXCEPT ![i] = w] BY <4>1
        <5>2. w \in Int BY DEF DamagedWords
        <5>3. i \in 1..Len(reply) BY <3>2
        <5> QED BY <3>2, <5>1, <5>2, <5>3
      <4>2. CASE \E n \in 1..(Len(reply) - 1) : reply' = SubSeq(reply, 1, n) BY <3>2, <4>2
      <4> QED BY <2>3, <4>1, <4>2 DEF Damage
    <3> QED BY <1>2, <3>1, <3>3 DEF CodecTypeOK
  <2>4. CASE Write
    <3>1. PICK ch \in Characters : statement' = Append(statement, ch) BY <2>4 DEF Write
    <3>2. reply' = reply /\ columnTypes' = columnTypes BY <2>4 DEF Write
    <3>3. statement \in Seq(Characters) BY <1>2 DEF CodecTypeOK
    <3>4. statement' \in Seq(Characters) BY <3>1, <3>3
    <3> QED BY <1>2, <3>2, <3>4 DEF CodecTypeOK
  <2> QED BY <1>2, <2>1, <2>2, <2>3, <2>4 DEF MCNext
<1>3. CodecTypeOK /\ UNCHANGED mcvars => CodecTypeOK' BY DEF CodecTypeOK, mcvars
<1> QED BY <1>1, <1>2, <1>3, PTL DEF MCSpec

\* The values that are bound are such as formatValue meets.
LEMMA ValuesProper ==
  ASSUME NEW value \in Values
  PROVE  Len(Params(value)) = 2 /\ \A k \in 1..Len(Params(value)) : ProperValue(Params(value)[k])
<1>1. AllCharacters \subseteq Alphabet BY CharactersAssumption
<1>2. ASSUME NEW s \in Seq(Alphabet) PROVE ProperValue(Str(s))
  <2>1. Str(s).type = "string" /\ Str(s).prefix = <<>> /\ Str(s).text = s BY DEF Str
  <2> QED BY <2>1 DEF ProperValue
<1>3. /\ \A s \in {<<>>, <<"'">>, <<"\\">>, <<"'", "\\">>, <<"\\", "'">>, <<"nl", "?">>, <<"nul">>} : s \in Seq(Alphabet)
      /\ <<"x", "-", "-">> \in Seq(Alphabet)
  <2>1. {"'", "\"", "\\", "/", "*", "-", "?", "nl", "x", "nul"} \subseteq Alphabet
    BY <1>1 DEF AllCharacters, Characters
  <2>2. <<>> \in Seq(Alphabet) OBVIOUS
  <2>3. \A a \in Alphabet : <<a>> \in Seq(Alphabet) OBVIOUS
  <2>4. \A a, b \in Alphabet : <<a, b>> \in Seq(Alphabet) OBVIOUS
  <2>5. \A a, b, c \in Alphabet : <<a, b, c>> \in Seq(Alphabet) OBVIOUS
  <2> QED BY <2>1, <2>2, <2>3, <2>4, <2>5
<1>4. ASSUME NEW text, PlainText(text) PROVE ProperValue(Plain(text))
  <2>1. Plain(text).type = "plain" /\ Plain(text).prefix = text /\ Plain(text).text = <<>> BY DEF Plain
  <2>2. text \in Seq(Alphabet) BY <1>4 DEF PlainText
  <2> QED BY <1>4, <2>1, <2>2 DEF ProperValue
<1>5. PlainText(<<"-", "1">>) /\ PlainText(<<"NULL">>) /\ PlainText(<<"X">>)
  <2>1. {"-", "1", "NULL", "X"} \subseteq Alphabet BY <1>1 DEF AllCharacters, Characters
  <2>2. ASSUME NEW a \in {"NULL", "X"} PROVE PlainText(<<a>>)
    <3>1. <<a>> \in Seq(Alphabet) /\ <<a>> # <<>> /\ Len(<<a>>) = 1 /\ <<a>>[1] = a BY <2>1
    <3>2. \A i \in 1..1 : i = 1 OBVIOUS
    <3>3. a # "*" /\ a \notin Quotes \cup {"/"} /\ a # "-" BY <2>2 DEF Quotes
    <3> DEFINE text == <<a>>
    <3> HIDE DEF text
    <3> QED BY <3>1, <3>2, <3>3 DEF PlainText, text
  <2>3. PlainText(<<"-", "1">>)
    <3> DEFINE text == <<"-", "1">>
    <3>1. text \in Seq(Alphabet) /\ text # <<>> /\ Len(text) = 2 /\ text[1] = "-" /\ text[2] = "1" BY <2>1
    <3> HIDE DEF text
    <3>2. \A i \in 1..2 : i = 1 \/ i = 2 OBVIOUS
    <3>3. /\ text[1] # "*" /\ text[1] \notin Quotes \cup {"/"} /\ text[2] \notin Quotes \cup {"/"}
          /\ text[2] # "-"
      BY <3>1 DEF Quotes
    <3>4. PlainText(text) BY <3>1, <3>2, <3>3 DEF PlainText
    <3> QED BY <3>4 DEF text
  <2> QED BY <2>2, <2>3
<1>6. ProperValue(Quoted(<<"X">>, <<"0">>))
  <2>1. /\ Quoted(<<"X">>, <<"0">>).type = "quoted" /\ Quoted(<<"X">>, <<"0">>).prefix = <<"X">>
        /\ Quoted(<<"X">>, <<"0">>).text = <<"0">>
    BY DEF Quoted
  <2>2. <<"X">> \in Seq(Alphabet) /\ <<"0">> \in Seq(Alphabet) BY <1>1 DEF AllCharacters
  <2> QED BY <1>5, <2>1, <2>2 DEF ProperValue
<1>7. ProperValue(value) BY <1>2, <1>3, <1>4, <1>5, <1>6 DEF Values
<1>8. ProperValue(Str(<<"x", "-", "-">>)) BY <1>2, <1>3
<1> QED BY <1>7, <1>8 DEF Params

\* No damage makes a reply into another: what a behaviour makes of it is read as the one
\* thing it means.
THEOREM RepliesRead == MCSpec => []RepliesReadAsMeant
<1>1. CodecTypeOK => RepliesReadAsMeant BY ReadAsItIsMeant DEF CodecTypeOK, RepliesReadAsMeant
<1> QED BY <1>1, CodecType, PTL

\* Every statement a behaviour writes is read by the server with the values bound to it,
\* under the preconditions of BoundAsWritten.
THEOREM StatementsBound == MCSpec => []BoundAsWritten
<1>1. ASSUME CodecTypeOK PROVE BoundAsWritten
  <2> SUFFICES ASSUME NEW mode \in BOOLEAN, NEW value \in Values,
                      Spaced(statement, mode), NoDoubleMinus(statement, Params(value)),
                      mode => NoBackslash(statement)
               PROVE  BoundTo(statement, Params(value), mode)
    BY DEF BoundAsWritten
  <2>1. Characters \subseteq Alphabet BY CharactersAssumption DEF AllCharacters
  <2>2. statement \in Seq(Alphabet) BY <1>1, <2>1 DEF CodecTypeOK
  <2>3. Len(Params(value)) \in Nat /\ \A k \in 1..Len(Params(value)) : ProperValue(Params(value)[k])
    BY ValuesProper
  <2> HIDE DEF Params
  <2> QED BY <2>2, <2>3, ParametersBound
<1> QED BY <1>1, CodecType, PTL

=============================================================================
