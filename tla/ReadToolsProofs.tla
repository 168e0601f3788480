-------------------------- MODULE ReadToolsProofs --------------------------
(***************************************************************************)
(* The read tools (tools_read.py to read_client.py, cache/store.py): what  *)
(* answers a call, for any ids, languages and number of files.             *)
(***************************************************************************)
EXTENDS ReadTools, FiniteSetTheorems, SequenceTheorems, NaturalsInduction,
        WellFoundedInduction, TLAPS

-----------------------------------------------------------------------------
(* Sequences, and the two recursive functions that Path is made of.        *)
LEMMA Glued ==
    ASSUME NEW S, NEW s \in Seq(S), NEW t \in Seq(S)
    PROVE  /\ s \o t \in Seq(S) /\ Len(s \o t) = Len(s) + Len(t)
           /\ \A i \in 1..Len(s) : (s \o t)[i] = s[i]
           /\ \A i \in 1..Len(t) : (s \o t)[Len(s) + i] = t[i]
<1>1. /\ s \o t \in Seq(S) /\ Len(s \o t) = Len(s) + Len(t)
      /\ \A i \in 1..Len(s) + Len(t) :
            (s \o t)[i] = IF i <= Len(s) THEN s[i] ELSE t[i - Len(s)]
  BY ConcatProperties
<1>2. PICK st : st = s \o t
  OBVIOUS
<1>3. Len(s) \in Nat /\ Len(t) \in Nat
  OBVIOUS
<1>4. \A i \in 1..Len(s) + Len(t) : st[i] = IF i <= Len(s) THEN s[i] ELSE t[i - Len(s)]
  BY <1>1, <1>2
<1>5. \A i \in 1..Len(s) : st[i] = s[i]
  BY ONLY <1>3, <1>4
<1>6. \A i \in 1..Len(t) : st[Len(s) + i] = t[i]
  BY ONLY <1>3, <1>4
<1>7. QED  BY <1>1, <1>2, <1>5, <1>6

LEMMA Sequenced ==
    ASSUME NEW S, NEW n \in Nat, NEW f \in [1..n -> S]
    PROVE  f \in Seq(S) /\ Len(f) = n
OBVIOUS

LEMMA LeastExists ==
    ASSUME NEW S \in SUBSET Nat, S # {}
    PROVE  \E x \in S : \A y \in S : x <= y
<1>1. PICK x \in S : \A y \in S : ~ (<<y, x>> \in OpToRel(<, Nat))
  <2>1. IsWellFoundedOn(OpToRel(<, Nat), Nat)
    BY NatLessThanWellFounded
  <2>2. QED  BY <2>1, WFMin
<1>2. \A y \in S : ~ (y < x)
  BY <1>1 DEF OpToRel
<1>3. QED  BY <1>2

(* Where a recursion goes wrong it went wrong before; so it never does.    *)
LEMMA StepByStep ==
    ASSUME NEW m \in Nat, NEW n \in Nat, NEW wrong \in SUBSET (m..n),
           \A i \in wrong : i # m /\ i - 1 \in wrong
    PROVE  wrong = {}
<1> SUFFICES ASSUME wrong # {} PROVE FALSE
  OBVIOUS
<1>1. PICK i \in wrong : \A j \in wrong : i <= j
  <2>1. wrong \in SUBSET Nat
    OBVIOUS
  <2>2. QED  BY <2>1, LeastExists
<1>2. i - 1 \in wrong /\ ~ (i <= i - 1)
  OBVIOUS
<1>3. QED  BY <1>1, <1>2

LEMMA Flattened ==
    ASSUME NEW T, NEW k \in Seq(Seq(T)), Len(k) >= 1,
           \A i \in 1..Len(k) - 1 : Len(k[i]) = 1
    PROVE  /\ FlattenSeq(k) \in Seq(T)
           /\ Len(FlattenSeq(k)) = Len(k) - 1 + Len(k[Len(k)])
           /\ \A i \in 1..Len(k) - 1 : FlattenSeq(k)[i] = k[i][1]
           /\ \A j \in 1..Len(k[Len(k)]) : FlattenSeq(k)[Len(k) - 1 + j] = k[Len(k)][j]
<1> DEFINE n == Len(k)
           heads(i) == [j \in 1..i |-> k[j][1]]
           whole == heads(n - 1) \o k[n]
           G == [i \in 1..n |-> IF i < n THEN heads(i) ELSE whole]
           R(g) == g = [i \in 1..Len(k) |-> IF i = 1 THEN k[i] ELSE g[i - 1] \o k[i]]
<1>1. /\ n \in Nat /\ n >= 1 /\ \A i \in 1..n : k[i] \in Seq(T)
      /\ \A i \in 1..n - 1 : Len(k[i]) = 1 /\ k[i][1] \in T
  OBVIOUS
<1>2. \A i \in 0..n - 1 :
        heads(i) \in Seq(T) /\ Len(heads(i)) = i /\ \A j \in 1..i : heads(i)[j] = k[j][1]
  <2> SUFFICES ASSUME NEW i \in 0..n - 1
               PROVE  /\ heads(i) \in Seq(T) /\ Len(heads(i)) = i
                      /\ \A j \in 1..i : heads(i)[j] = k[j][1]
    OBVIOUS
  <2>1. heads(i) \in [1..i -> T]
    BY <1>1
  <2>2. QED  BY <1>1, <2>1, Sequenced
<1> HIDE DEF heads
<1>3. /\ whole \in Seq(T) /\ Len(whole) = n - 1 + Len(k[n])
      /\ \A i \in 1..n - 1 : whole[i] = k[i][1]
      /\ \A j \in 1..Len(k[n]) : whole[n - 1 + j] = k[n][j]
  <2>1. PICK s \in Seq(T) :
          s = heads(n - 1) /\ Len(s) = n - 1 /\ \A j \in 1..n - 1 : s[j] = k[j][1]
    BY <1>1, <1>2
  <2>2. PICK t \in Seq(T) : t = k[n]
    BY <1>1
  <2>3. /\ s \o t \in Seq(T) /\ Len(s \o t) = Len(s) + Len(t)
        /\ \A i \in 1..Len(s) : (s \o t)[i] = s[i]
        /\ \A i \in 1..Len(t) : (s \o t)[Len(s) + i] = t[i]
    BY Glued
  <2>4. whole = s \o t
    BY <2>1, <2>2
  <2> HIDE DEF whole
  <2>5. QED  BY <2>1, <2>2, <2>3, <2>4
<1> HIDE DEF whole
<1>4. \A i \in 1..n : G[i] = IF i = 1 THEN k[i] ELSE G[i - 1] \o k[i]
  <2> SUFFICES ASSUME NEW i \in 1..n
               PROVE  G[i] = IF i = 1 THEN k[i] ELSE G[i - 1] \o k[i]
    OBVIOUS
  <2>1. CASE i = 1 /\ n = 1
    <3>1. Len(whole) = Len(k[1]) /\ \A j \in 1..Len(k[1]) : whole[j] = k[1][j]
      <4>1. \A j \in 1..Len(k[1]) : n - 1 + j = j
        BY <1>1, <2>1
      <4>2. QED  BY <1>1, <1>3, <2>1, <4>1
    <3>2. whole = k[1]
      <4>1. whole \in Seq(T) /\ k[1] \in Seq(T)
        BY <1>1, <1>3
      <4>2. QED  BY ONLY <3>1, <4>1, SeqEqual
    <3>3. QED  BY <2>1, <3>2
  <2>2. CASE i = 1 /\ n > 1
    <3>1. heads(1) = k[1]
      <4>1. heads(1) \in Seq(T) /\ Len(heads(1)) = 1 /\ heads(1)[1] = k[1][1]
        BY <1>1, <1>2, <2>2
      <4>2. k[1] \in Seq(T) /\ Len(k[1]) = 1
        BY <1>1, <2>2
      <4>3. PICK a \in Seq(T), b \in Seq(T) : a = heads(1) /\ b = k[1]
        BY <4>1, <4>2
      <4>4. Len(a) = Len(b) /\ \A j \in 1..Len(a) : a[j] = b[j]
        BY <4>1, <4>2, <4>3
      <4>5. QED  BY <4>3, <4>4, SeqEqual
    <3>2. QED  BY <1>1, <2>2, <3>1
  <2>3. CASE i > 1 /\ i < n
    <3>1. heads(i - 1) \o k[i] = heads(i)
      <4>1. PICK s \in Seq(T) :
              s = heads(i - 1) /\ Len(s) = i - 1 /\ \A j \in 1..i - 1 : s[j] = k[j][1]
        <5>1. i - 1 \in 0..n - 1
          BY <1>1, <2>3
        <5>2. PICK h \in 0..n - 1 : h = i - 1
          BY <5>1
        <5>3. QED  BY ONLY <1>2, <5>2
      <4>2. PICK t \in Seq(T) : t = k[i] /\ Len(t) = 1 /\ t[1] = k[i][1]
        BY <1>1, <2>3
      <4>3. PICK u \in Seq(T) :
              u = heads(i) /\ Len(u) = i /\ \A j \in 1..i : u[j] = k[j][1]
        <5>1. i \in 0..n - 1
          BY <1>1, <2>3
        <5>2. QED  BY ONLY <1>2, <5>1
      <4>4. /\ s \o t \in Seq(T) /\ Len(s \o t) = Len(s) + Len(t)
            /\ \A j \in 1..Len(s) : (s \o t)[j] = s[j]
            /\ \A j \in 1..Len(t) : (s \o t)[Len(s) + j] = t[j]
        BY Glued
      <4>5. PICK st \in Seq(T) : st = s \o t
        BY <4>4
      <4>6. Len(st) = i /\ (\A j \in 1..i - 1 : st[j] = k[j][1]) /\ st[i] = k[i][1]
        <5>1. Len(s) + 1 = i /\ 1 \in 1..Len(t)
          BY <4>1, <4>2, <1>1
        <5>2. QED  BY <4>1, <4>2, <4>4, <4>5, <5>1
      <4>7. \A j \in 1..i : st[j] = u[j]
        <5>1. \A j \in 1..i : j \in 1..i - 1 \/ j = i
          OBVIOUS
        <5>2. QED  BY <4>3, <4>6, <5>1
      <4>8. st = u
        <5>1. Len(st) = Len(u) /\ \A j \in 1..Len(st) : st[j] = u[j]
          BY <4>3, <4>6, <4>7
        <5>2. QED  BY ONLY <5>1, SeqEqual
      <4>9. QED  BY <4>1, <4>2, <4>3, <4>5, <4>8
    <3>2. G[i] = heads(i) /\ G[i - 1] = heads(i - 1)
      BY <1>1, <2>3
    <3>3. i # 1
      BY <2>3
    <3> HIDE DEF G
    <3>4. QED  BY ONLY <3>1, <3>2, <3>3, Zenon
  <2>4. CASE i > 1 /\ i = n
    <3>1. G[i] = whole /\ G[i - 1] = heads(n - 1)
      BY <1>1, <2>4
    <3>2. i # 1 /\ i = n
      BY <2>4, SMTT(30)
    <3> HIDE DEF G, n
    <3>3. QED  BY ONLY <3>1, <3>2, Zenon DEF whole
  <2>5. (i = 1 \/ i > 1) /\ (n = 1 \/ n > 1) /\ (i < n \/ i = n)
    <3>1. i \in 1..n /\ n \in Nat
      BY <1>1
    <3> HIDE DEF n
    <3>2. QED  BY ONLY <3>1
  <2>6. QED  BY ONLY <2>1, <2>2, <2>3, <2>4, <2>5, Zenon
<1>5. R(G)
  BY <1>4
<1>6. ASSUME NEW g, R(g) PROVE g = G
  <2>1. \A i \in 1..n : g[i] = IF i = 1 THEN k[i] ELSE g[i - 1] \o k[i]
    BY <1>6
  <2> DEFINE wrong == {i \in 1..n : g[i] # G[i]}
  <2>2. \A i \in wrong : i # 1 /\ i - 1 \in wrong
    <3> HIDE DEF G
    <3>1. QED  BY <1>4, <2>1
  <2>3. \A i \in 1..n : g[i] = G[i]
    <3>1. wrong \in SUBSET (1..n) /\ 1 \in Nat /\ n \in Nat
      BY <1>1
    <3>2. wrong = {}
      <4> HIDE DEF wrong, n
      <4>1. QED  BY ONLY <2>2, <3>1, StepByStep
    <3> HIDE DEF G
    <3>3. QED  BY <3>2
  <2>4. g = [i \in 1..n |-> g[i]]
    BY <1>6
  <2>5. QED  BY <2>3, <2>4
<1>7. (CHOOSE g : R(g)) = G
  <2> HIDE DEF R, G
  <2>1. R(CHOOSE g : R(g))
    BY <1>5
  <2>2. QED  BY <1>6, <2>1
<1> HIDE DEF G
<1>8. FlattenSeq(k) = G[n]
  <2>1. Len(k) # 0
    BY <1>1
  <2>2. QED  BY <1>7, <2>1 DEF FlattenSeq
<1>9. FlattenSeq(k) = whole
  BY <1>1, <1>8 DEF G
<1>10. QED  BY <1>3, <1>9

(* Without separators, every token of a key is a component of its path.    *)
LEMMA NothingSeparates ==
    ASSUME NEW T, NEW k, FlattenSeq(k) \in Seq(T),
           \A i \in 1..Len(FlattenSeq(k)) : ~ IsSeparator(FlattenSeq(k)[i])
    PROVE  Path(k) = FlattenSeq(k)
<1> DEFINE R(g) ==
             g = [i \in 0..Len(FlattenSeq(k)) |->
                    IF i = 0 THEN <<>>
                    ELSE IF IsSeparator(FlattenSeq(k)[i]) THEN g[i - 1]
                    ELSE Append(g[i - 1], FlattenSeq(k)[i])]
<1>1. PICK s \in Seq(T) : s = FlattenSeq(k)
  OBVIOUS
<1> DEFINE n == Len(s)
           part(i) == SubSeq(s, 1, i)
           G == [i \in 0..n |-> part(i)]
<1>2. n \in Nat /\ \A i \in 1..n : s[i] \in T /\ ~ IsSeparator(s[i])
  BY <1>1
<1>3. \A i \in 0..n :
        part(i) \in Seq(T) /\ Len(part(i)) = i /\ \A j \in 1..i : part(i)[j] = s[j]
  <2> SUFFICES ASSUME NEW i \in 0..n
               PROVE  /\ part(i) \in Seq(T) /\ Len(part(i)) = i
                      /\ \A j \in 1..i : part(i)[j] = s[j]
    OBVIOUS
  <2>1. \A j \in 1..i : s[j] \in T
    <3>1. \A j \in 1..i : j \in 1..n
      BY <1>2
    <3>2. QED  BY <1>2, <3>1
  <2>2. /\ SubSeq(s, 1, i) \in Seq(T)
        /\ Len(SubSeq(s, 1, i)) = IF 1 <= i THEN i - 1 + 1 ELSE 0
        /\ \A j \in 1..i - 1 + 1 : SubSeq(s, 1, i)[j] = s[1 + j - 1]
    BY <2>1, SubSeqProperties
  <2>3. QED  BY <1>2, <2>2
<1>4. part(n) = s /\ part(0) = <<>>
  <2>1. part(n) = s
    BY <1>2, SubSeqFull
  <2>2. part(0) = <<>>
    BY SubSeqEmpty
  <2>3. QED  BY <2>1, <2>2
<1> HIDE DEF part
<1>5. \A i \in 1..n : Append(part(i - 1), s[i]) = part(i)
  <2> SUFFICES ASSUME NEW i \in 1..n PROVE Append(part(i - 1), s[i]) = part(i)
    OBVIOUS
  <2>1. PICK a \in Seq(T) :
          a = part(i - 1) /\ Len(a) = i - 1 /\ \A j \in 1..i - 1 : a[j] = s[j]
    <3>1. PICK h \in 0..n : h = i - 1
      BY <1>2
    <3>2. QED  BY ONLY <1>3, <3>1
  <2>2. PICK b \in Seq(T) : b = part(i) /\ Len(b) = i /\ \A j \in 1..i : b[j] = s[j]
    <3>1. i \in 0..n
      BY <1>2
    <3>2. QED  BY ONLY <1>3, <3>1
  <2>3. PICK c \in Seq(T) : c = Append(a, s[i])
    <3>1. s[i] \in T
      BY <1>2
    <3>2. Append(a, s[i]) \in Seq(T)
      BY ONLY <3>1, a \in Seq(T)
    <3>3. QED  BY ONLY <3>2
  <2>4. Len(c) = i /\ c[i] = s[i] /\ \A j \in 1..i - 1 : c[j] = s[j]
    BY <1>2, <2>1, <2>3
  <2>5. \A j \in 1..i : c[j] = b[j]
    <3>1. \A j \in 1..i : j \in 1..i - 1 \/ j = i
      OBVIOUS
    <3>2. QED  BY <2>2, <2>4, <3>1
  <2>6. c = b
    <3>1. Len(c) = Len(b) /\ \A j \in 1..Len(c) : c[j] = b[j]
      BY <2>2, <2>4, <2>5
    <3>2. QED  BY ONLY <3>1, SeqEqual
  <2>7. QED  BY <2>1, <2>2, <2>3, <2>6
<1>6. \A i \in 0..n : G[i] =
        IF i = 0 THEN <<>> ELSE IF IsSeparator(s[i]) THEN G[i - 1] ELSE Append(G[i - 1], s[i])
  <2> SUFFICES ASSUME NEW i \in 0..n, i # 0
               PROVE  G[i] = IF IsSeparator(s[i]) THEN G[i - 1] ELSE Append(G[i - 1], s[i])
    BY <1>4
  <2>1. G[i] = part(i) /\ G[i - 1] = part(i - 1) /\ i \in 1..n
    BY <1>2
  <2> HIDE DEF G
  <2>2. QED  BY <1>2, <1>5, <2>1
<1>7. R(G)
  BY <1>1, <1>6
<1>8. ASSUME NEW g, R(g) PROVE g = G
  <2>1. \A i \in 0..n : g[i] =
          IF i = 0 THEN <<>> ELSE IF IsSeparator(s[i]) THEN g[i - 1] ELSE Append(g[i - 1], s[i])
    BY <1>1, <1>8
  <2> DEFINE wrong == {i \in 0..n : g[i] # G[i]}
  <2>2. \A i \in wrong : i # 0 /\ i - 1 \in wrong
    <3> HIDE DEF G
    <3>1. QED  BY <1>2, <1>6, <2>1
  <2>3. \A i \in 0..n : g[i] = G[i]
    <3>1. wrong \in SUBSET (0..n) /\ 0 \in Nat /\ n \in Nat
      BY <1>2
    <3>2. wrong = {}
      <4> HIDE DEF wrong, n
      <4>1. QED  BY ONLY <2>2, <3>1, StepByStep
    <3> HIDE DEF G
    <3>3. QED  BY <3>2
  <2>4. g = [i \in 0..n |-> g[i]]
    BY <1>1, <1>8
  <2>5. QED  BY <2>3, <2>4
<1>9. (CHOOSE g : R(g)) = G
  <2> HIDE DEF R, G
  <2>1. R(CHOOSE g : R(g))
    BY <1>7
  <2>2. QED  BY <1>8, <2>1
<1> HIDE DEF G
<1>10. Path(k) = G[n]
  BY <1>1, <1>9 DEF Path
<1>11. G[n] = s
  BY <1>2, <1>4 DEF G
<1>12. QED  BY <1>1, <1>10, <1>11

(* The path of a key all of whose parts but the last are one token long.   *)
LEMMA PathShape ==
    ASSUME NEW T, NEW k \in Seq(Seq(T)), Len(k) >= 1,
           \A i \in 1..Len(k) - 1 : Len(k[i]) = 1,
           \A i \in 1..Len(k) : \A j \in 1..Len(k[i]) : ~ IsSeparator(k[i][j])
    PROVE  /\ Path(k) \in Seq(T)
           /\ Len(Path(k)) = Len(k) - 1 + Len(k[Len(k)])
           /\ \A i \in 1..Len(k) - 1 : Path(k)[i] = k[i][1]
           /\ \A j \in 1..Len(k[Len(k)]) : Path(k)[Len(k) - 1 + j] = k[Len(k)][j]
<1>1. PICK f \in Seq(T) : f = FlattenSeq(k)
  BY Flattened
<1>2. /\ Len(f) = Len(k) - 1 + Len(k[Len(k)])
      /\ \A i \in 1..Len(k) - 1 : f[i] = k[i][1]
      /\ \A j \in 1..Len(k[Len(k)]) : f[Len(k) - 1 + j] = k[Len(k)][j]
  BY <1>1, Flattened
<1>3. ASSUME NEW i \in 1..Len(f) PROVE ~ IsSeparator(f[i])
  <2>1. Len(k) \in Nat /\ Len(k[Len(k)]) \in Nat
    OBVIOUS
  <2>2. CASE i \in 1..Len(k) - 1
    <3>1. i \in 1..Len(k)
      BY <2>1, <2>2
    <3>2. 1 \in 1..Len(k[i])
      <4>1. Len(k[i]) = 1
        BY <2>2
      <4>2. QED  BY <4>1
    <3>3. QED  BY <1>2, <2>2, <3>1, <3>2
  <2>3. CASE i \notin 1..Len(k) - 1
    <3>1. PICK j \in 1..Len(k[Len(k)]) : i = Len(k) - 1 + j
      <4>1. i - (Len(k) - 1) \in 1..Len(k[Len(k)]) /\ i = Len(k) - 1 + (i - (Len(k) - 1))
        BY <1>2, <2>1, <2>3
      <4>2. QED  BY <4>1
    <3>2. f[i] = k[Len(k)][j]
      BY <1>2, <3>1
    <3>3. Len(k) \in 1..Len(k)
      BY <2>1
    <3>4. QED  BY <3>1, <3>2, <3>3
  <2>4. QED  BY <2>2, <2>3
<1>4. Path(k) = f
  BY <1>1, <1>3, NothingSeparates
<1>5. QED  BY <1>2, <1>4

(* A text is a list of tokens none of which separates, and a word has one. *)
Listed(s) == Len(s) \in Nat /\ s = [i \in 1..Len(s) |-> s[i]]
Text(v) == Listed(v) /\ \A i \in 1..Len(v) : ~ IsSeparator(v[i])
Word(v) == Text(v) /\ Len(v) = 1

LEMMA PathOfTexts ==
    ASSUME NEW k, Listed(k), Len(k) >= 1,
           \A i \in 1..Len(k) - 1 : Len(k[i]) = 1, \A i \in 1..Len(k) : Text(k[i])
    PROVE  /\ Listed(Path(k))
           /\ Len(Path(k)) = Len(k) - 1 + Len(k[Len(k)])
           /\ \A i \in 1..Len(k) - 1 : Path(k)[i] = k[i][1]
           /\ \A j \in 1..Len(k[Len(k)]) : Path(k)[Len(k) - 1 + j] = k[Len(k)][j]
<1>1. PICK T : T = UNION {{k[i][j] : j \in 1..Len(k[i])} : i \in 1..Len(k)}
  OBVIOUS
<1>2. PICK n \in Nat : n = Len(k)
  BY DEF Listed
<1>3. ASSUME NEW i \in 1..n PROVE k[i] \in Seq(T)
  <2>1. PICK s, m : s = k[i] /\ m = Len(s)
    OBVIOUS
  <2>2. m \in Nat /\ s = [j \in 1..m |-> s[j]]
    BY <1>2, <2>1 DEF Text, Listed
  <2>3. \A j \in 1..m : s[j] \in T
    BY <1>1, <1>2, <2>1
  <2>4. s \in [1..m -> T]
    BY <2>2, <2>3
  <2>5. QED  BY <2>1, <2>2, <2>4, Sequenced
<1>4. k \in Seq(Seq(T))
  <2>1. k = [i \in 1..n |-> k[i]]
    BY <1>2 DEF Listed
  <2>2. k \in [1..n -> Seq(T)]
    BY <1>3, <2>1
  <2>3. QED  BY <1>2, <2>2, Sequenced
<1>5. \A i \in 1..Len(k) : \A j \in 1..Len(k[i]) : ~ IsSeparator(k[i][j])
  BY DEF Text
<1>6. PICK p \in Seq(T) : p = Path(k)
  BY <1>4, <1>5, PathShape
<1>7. Listed(p)
  BY DEF Listed
<1>8. QED  BY <1>4, <1>5, <1>6, <1>7, PathShape

LEMMA ListsAreEqual ==
    ASSUME NEW s, NEW t, Listed(s), Listed(t), Len(s) = Len(t),
           \A i \in 1..Len(s) : s[i] = t[i]
    PROVE  s = t
BY DEF Listed

-----------------------------------------------------------------------------
(* Looking up a row in a table that is put together from parts. *)
LEMMA RowOfOne ==
    ASSUME NEW tables, NEW t \in tables, NEW x \in DOMAIN t,
           \A s \in tables : x \in DOMAIN s => s = t
    PROVE  x \in DOMAIN Joined(tables) /\ Joined(tables)[x] = t[x]
BY DEF Joined

LEMMA RowsOfAll ==
    ASSUME NEW tables PROVE DOMAIN Joined(tables) = UNION {DOMAIN t : t \in tables}
BY DEF Joined

LEMMA LangAndPage ==
    /\ DOMAIN (Lang ++ Paged) = {"language", "page", "pageSize"}
    /\ (Lang ++ Paged)["language"] = "language"
    /\ (Lang ++ Paged)["page"] = "page" /\ (Lang ++ Paged)["pageSize"] = "page_size"
<1>1. PICK q, f, g : q = f ++ g /\ f = Lang /\ g = Paged
  OBVIOUS
<1>2. /\ DOMAIN f = {"language"} /\ f["language"] = "language"
      /\ DOMAIN g = {"page", "pageSize"} /\ g["page"] = "page"
      /\ g["pageSize"] = "page_size"
  BY <1>1 DEF Lang, Paged
<1>3. /\ DOMAIN q = {"language", "page", "pageSize"} /\ q["language"] = "language"
      /\ q["page"] = "page" /\ q["pageSize"] = "page_size"
  <2>1. q = f ++ g
    BY <1>1
  <2>2. /\ DOMAIN q = DOMAIN f \cup DOMAIN g
        /\ \A x \in DOMAIN f : q[x] = f[x]
        /\ \A x \in DOMAIN g : x \notin DOMAIN f => q[x] = g[x]
    BY ONLY <2>1 DEF ++
  <2>3. QED  BY ONLY <1>2, <2>2
<1>4. QED  BY <1>1, <1>3

LEMMA SchemaRows ==
    \A part \in {ContentSchemas, MartSchemas, ConnectionSchemas, ModelSchemas,
                 RegistrySchemas} :
        \A x \in DOMAIN part : x \in DOMAIN Schemas /\ Schemas[x] = part[x]
<1> DEFINE Parts == {ContentSchemas, MartSchemas, ConnectionSchemas, ModelSchemas,
                     RegistrySchemas}
<1>1. /\ DOMAIN ContentSchemas = {"df_list_projects", "df_list_versions",
            "df_get_measures", "df_get_dimensions", "df_get_facts", "df_get_rmd",
            "df_get_consolidated_rmd"}
      /\ DOMAIN MartSchemas = {"df_list_data_marts", "df_get_data_mart",
            "df_get_data_mart_view", "df_generate_sql"}
      /\ DOMAIN ConnectionSchemas = {"df_list_connections", "df_get_connection",
            "df_get_connection_schema"}
      /\ DOMAIN ModelSchemas = {"df_list_dimension_groups", "df_get_dimension_group",
            "df_list_fact_tables", "df_get_fact_table", "df_list_relationships",
            "df_get_relationship"}
      /\ DOMAIN RegistrySchemas = {"df_get_project_access", "df_list_git_connections",
            "df_get_git_connection"}
  BY DEF ContentSchemas, MartSchemas, ConnectionSchemas, ModelSchemas, RegistrySchemas
<1>2. \A s, t \in Parts : \A x \in DOMAIN t : x \in DOMAIN s => s = t
  BY <1>1
<1>3. Schemas = Joined(Parts)
  BY DEF Schemas
<1> HIDE DEF Parts
<1>4. \A part \in Parts : \A x \in DOMAIN part : x \in DOMAIN Schemas /\ Schemas[x] = part[x]
  BY <1>2, <1>3, RowOfOne
<1>5. QED  BY <1>4 DEF Parts

LEMMA HandlerRows ==
    \A part \in {ContentHandlers, MartHandlers, ConnectionHandlers, ModelHandlers,
                 RegistryHandlers} :
        \A x \in DOMAIN part : x \in DOMAIN Handlers /\ Handlers[x] = part[x]
<1> DEFINE Parts == {ContentHandlers, MartHandlers, ConnectionHandlers, ModelHandlers,
                     RegistryHandlers}
<1>1. /\ DOMAIN ContentHandlers = {"df_list_projects", "df_list_versions",
            "df_get_measures", "df_get_dimensions", "df_get_facts", "df_get_rmd",
            "df_get_consolidated_rmd"}
      /\ DOMAIN MartHandlers = {"df_list_data_marts", "df_get_data_mart",
            "df_get_data_mart_view", "df_generate_sql"}
      /\ DOMAIN ConnectionHandlers = {"df_list_connections", "df_get_connection",
            "df_get_connection_schema"}
      /\ DOMAIN ModelHandlers = {"df_list_dimension_groups", "df_get_dimension_group",
            "df_list_fact_tables", "df_get_fact_table", "df_list_relationships",
            "df_get_relationship"}
      /\ DOMAIN RegistryHandlers = {"df_get_project_access", "df_list_git_connections",
            "df_get_git_connection"}
  BY DEF ContentHandlers, MartHandlers, ConnectionHandlers, ModelHandlers,
         RegistryHandlers
<1>2. \A s, t \in Parts : \A x \in DOMAIN t : x \in DOMAIN s => s = t
  BY <1>1
<1>3. Handlers = Joined(Parts)
  BY DEF Handlers
<1> HIDE DEF Parts
<1>4. \A part \in Parts : \A x \in DOMAIN part : x \in DOMAIN Handlers /\ Handlers[x] = part[x]
  BY <1>2, <1>3, RowOfOne
<1>5. QED  BY <1>4 DEF Parts

LEMMA UseCaseRows ==
    \A part \in {ContentUseCases, MartUseCases, ConnectionUseCases, ModelUseCases,
                 RegistryUseCases} :
        \A x \in DOMAIN part : x \in DOMAIN UseCases /\ UseCases[x] = part[x]
<1> DEFINE Parts == {ContentUseCases, MartUseCases, ConnectionUseCases, ModelUseCases,
                     RegistryUseCases}
<1>1. /\ DOMAIN ContentUseCases = {"df_list_projects", "df_list_versions",
            "df_get_measures", "df_get_dimensions", "df_get_facts", "df_get_rmd",
            "df_get_consolidated_rmd"}
      /\ DOMAIN MartUseCases = {"df_list_data_marts", "df_get_data_mart",
            "df_get_data_mart_view", "df_generate_sql"}
      /\ DOMAIN ConnectionUseCases = {"df_list_connections", "df_get_connection",
            "df_get_connection_schema"}
      /\ DOMAIN ModelUseCases = {"df_list_dimension_groups", "df_get_dimension_group",
            "df_list_fact_tables", "df_get_fact_table", "df_list_relationships",
            "df_get_relationship"}
      /\ DOMAIN RegistryUseCases = {"df_get_project_access", "df_list_git_connections",
            "df_get_git_connection"}
  BY DEF ContentUseCases, MartUseCases, ConnectionUseCases, ModelUseCases,
         RegistryUseCases
<1>2. \A s, t \in Parts : \A x \in DOMAIN t : x \in DOMAIN s => s = t
  BY <1>1
<1>3. UseCases = Joined(Parts)
  BY DEF UseCases
<1> HIDE DEF Parts
<1>4. \A part \in Parts : \A x \in DOMAIN part : x \in DOMAIN UseCases /\ UseCases[x] = part[x]
  BY <1>2, <1>3, RowOfOne
<1>5. QED  BY <1>4 DEF Parts

LEMMA KeyRows ==
    \A part \in {ContentKeys, ModelKeys, RegistryKeys} :
        \A x \in DOMAIN part : x \in DOMAIN KeyBuilders /\ KeyBuilders[x] = part[x]
<1> DEFINE Parts == {ContentKeys, ModelKeys, RegistryKeys}
<1>1. /\ DOMAIN ContentKeys = {"projects", "versions", "measures", "dimensions",
            "facts", "rmd"}
      /\ DOMAIN ModelKeys = {"data_marts", "data_mart", "data_mart_view", "connections",
            "connection", "connection_schema", "dimension_groups", "dimension_group",
            "fact_tables", "fact_table", "relationships", "relationship"}
      /\ DOMAIN RegistryKeys = {"project_access", "git_connections", "git_connection"}
  BY DEF ContentKeys, ModelKeys, RegistryKeys
<1>2. \A s, t \in Parts : \A x \in DOMAIN t : x \in DOMAIN s => s = t
  BY <1>1
<1>3. KeyBuilders = Joined(Parts)
  BY DEF KeyBuilders
<1> HIDE DEF Parts
<1>4. \A part \in Parts : \A x \in DOMAIN part : x \in DOMAIN KeyBuilders /\ KeyBuilders[x] = part[x]
  BY <1>2, <1>3, RowOfOne
<1>5. QED  BY <1>4 DEF Parts

LEMMA EndpointRows ==
    \A part \in {ContentEndpoints, MartEndpoints, ConnectionEndpoints, ModelEndpoints,
                 RegistryEndpoints} :
        \A x \in DOMAIN part : x \in DOMAIN Endpoints /\ Endpoints[x] = part[x]
<1> DEFINE Parts == {ContentEndpoints, MartEndpoints, ConnectionEndpoints,
                     ModelEndpoints, RegistryEndpoints}
<1>1. /\ DOMAIN ContentEndpoints = {"get_projects", "get_versions", "get_measures",
            "get_dimensions", "get_facts", "get_rmd"}
      /\ DOMAIN MartEndpoints = {"get_data_marts", "get_data_mart",
            "get_data_mart_view", "generate_sql"}
      /\ DOMAIN ConnectionEndpoints = {"get_connections", "get_connection",
            "get_connection_schema"}
      /\ DOMAIN ModelEndpoints = {"get_dimension_groups", "get_dimension_group",
            "get_fact_tables", "get_fact_table", "get_relationships",
            "get_relationship"}
      /\ DOMAIN RegistryEndpoints = {"get_project_access", "list_git_connections",
            "get_git_connection"}
  BY DEF ContentEndpoints, MartEndpoints, ConnectionEndpoints, ModelEndpoints,
         RegistryEndpoints
<1>2. \A s, t \in Parts : \A x \in DOMAIN t : x \in DOMAIN s => s = t
  BY <1>1
<1>3. Endpoints = Joined(Parts)
  BY DEF Endpoints
<1> HIDE DEF Parts
<1>4. \A part \in Parts : \A x \in DOMAIN part : x \in DOMAIN Endpoints /\ Endpoints[x] = part[x]
  BY <1>2, <1>3, RowOfOne
<1>5. QED  BY <1>4 DEF Parts

-----------------------------------------------------------------------------
(* What the tables say of a tool together.                                 *)
Req(t) == Schemas[t].required
Opt(t) == Schemas[t].optional
Counts(t) == (Req(t) \cup Opt(t)) \ {"include_raw"}    \* what the answer depends on
KeyName(t) == UseCases[t].key
NamesOf(t) == KeyBuilders[KeyName(t)]
EndpointOf(t) == Endpoints[UseCases[t].fetch]
DefaultNames == DOMAIN Defaults \cup {"language"}
EntityIds ==
    {"data_mart_id", "connection_id", "dimension_group_id", "fact_table_id",
     "relationship_id"}

(* The two tools that share the snapshot, and otherwise one tool for each  *)
(* subject and each family of keys.                                        *)
Twin(t) == IF t = "df_get_consolidated_rmd" THEN "df_get_rmd" ELSE t

ToolAbout(resource) ==
    CASE resource = "projects" -> "df_list_projects"
      [] resource = "projects/versions" -> "df_list_versions"
      [] resource = "measures" -> "df_get_measures"
      [] resource = "dimensions" -> "df_get_dimensions"
      [] resource = "facts" -> "df_get_facts"
      [] resource = "rmd" -> "df_get_rmd"
      [] resource = "data-marts" -> "df_list_data_marts"
      [] resource = "data-marts/*" -> "df_get_data_mart"
      [] resource = "data-marts/*/view" -> "df_get_data_mart_view"
      [] resource = "data-marts/*/generate-sql" -> "df_generate_sql"
      [] resource = "connections" -> "df_list_connections"
      [] resource = "connections/*" -> "df_get_connection"
      [] resource = "connections/*/schema" -> "df_get_connection_schema"
      [] resource = "dimension-groups" -> "df_list_dimension_groups"
      [] resource = "dimension-groups/*" -> "df_get_dimension_group"
      [] resource = "fact-tables" -> "df_list_fact_tables"
      [] resource = "fact-tables/*" -> "df_get_fact_table"
      [] resource = "relationships" -> "df_list_relationships"
      [] resource = "relationships/*" -> "df_get_relationship"
      [] resource = "access" -> "df_get_project_access"
      [] resource = "git-connections" -> "df_list_git_connections"
      [] resource = "git-connections/*" -> "df_get_git_connection"
      [] OTHER -> "none"

ToolOf(family) ==
    CASE family = "projects" -> "df_list_projects"
      [] family = "versions" -> "df_list_versions"
      [] family = "measures" -> "df_get_measures"
      [] family = "dimensions" -> "df_get_dimensions"
      [] family = "facts" -> "df_get_facts"
      [] family = "rmd" -> "df_get_rmd"
      [] family = "data_marts" -> "df_list_data_marts"
      [] family = "data_mart" -> "df_get_data_mart"
      [] family = "data_mart_view" -> "df_get_data_mart_view"
      [] family = "connections" -> "df_list_connections"
      [] family = "connection" -> "df_get_connection"
      [] family = "connection_schema" -> "df_get_connection_schema"
      [] family = "dimension_groups" -> "df_list_dimension_groups"
      [] family = "dimension_group" -> "df_get_dimension_group"
      [] family = "fact_tables" -> "df_list_fact_tables"
      [] family = "fact_table" -> "df_get_fact_table"
      [] family = "relationships" -> "df_list_relationships"
      [] family = "relationship" -> "df_get_relationship"
      [] family = "project_access" -> "df_get_project_access"
      [] family = "git_connections" -> "df_list_git_connections"
      [] family = "git_connection" -> "df_get_git_connection"
      [] OTHER -> "none"

(* A handler passes on what the schema declares, and only optional         *)
(* arguments have a default.                                               *)
HandlerAgrees(t) ==
    /\ Handlers[t] = Req(t) \cup Opt(t)
    /\ Req(t) \cap (Opt(t) \cup DefaultNames) = {}

(* The endpoint asks for the tool's subject, with the required arguments   *)
(* in the path and each optional one under its own parameter.              *)
IdsAgree(t) ==
    \/ Req(t) = {} /\ EndpointOf(t).ids = <<>>
    \/ Req(t) = {"project_id"} /\ EndpointOf(t).ids = <<"project_id">>
    \/ Req(t) = {"connection_id"} /\ EndpointOf(t).ids = <<"connection_id">>
    \/ Req(t) = PV /\ EndpointOf(t).ids = InVersion
    \/ \E x \in EntityIds : Req(t) = PV \cup {x} /\ EndpointOf(t).ids = InVersion \o <<x>>

QueryAgrees(t) ==
    LET e == EndpointOf(t)
        plain == Opt(t) \ (Flags \cup {"include_raw"})
    IN /\ e.resource = Subjects[t]
       /\ \A q \in DOMAIN e.query : e.query[q] \in plain /\ q = Parameter(e.query[q])
       /\ \A n \in plain : Parameter(n) \in DOMAIN e.query /\ e.query[Parameter(n)] = n
       /\ e.flags = Opt(t) \cap Flags
       /\ \A n \in Opt(t) : n \notin {"type", "pageSize"}
       /\ \A n \in Opt(t) \ {"include_raw"} : Parameter(n) \in ParameterNames

(* The key names every argument that counts, and nothing else; a text that *)
(* a caller looks for comes last; it starts with project and version where *)
(* there are any, and the family is one that the scopes know.              *)
KeyAgrees(t) ==
    LET names == NamesOf(t) IN
    /\ KeyName(t) \in DOMAIN KeyBuilders
    /\ Len(names) \in Nat \ {0}
    /\ \A i \in 1..Len(names) : names[i] \in Counts(t)
    /\ \A i \in 1..Len(names) : names[i] = "search" => i = Len(names)
    /\ \A n \in Counts(t) : \E i \in 1..Len(names) : names[i] = n
    /\ PV \subseteq Req(t) =>
         /\ Len(names) >= 2 /\ names[1] = "project_id" /\ names[2] = "version_id"
         /\ KeyName(t) \in Scopes!VersionFamilies
    /\ Req(t) = {"project_id"} =>
         names[1] = "project_id" /\ KeyName(t) \in Scopes!ProjectFamilies
    /\ Req(t) \cap PV = {} => KeyName(t) \in Scopes!CompanyFamilies

TwinAgrees(t) ==
    /\ Twin(t) = ToolAbout(Subjects[t])
    /\ KeyName(t) # "none" => Twin(t) = ToolOf(KeyName(t))
    /\ Req(Twin(t)) = Req(t) /\ Opt(Twin(t)) \ {"include_raw"} = Opt(t) \ {"include_raw"}
    /\ UseCases[Twin(t)] = UseCases[t] /\ Subjects[Twin(t)] = Subjects[t]

Agree(t) ==
    /\ HandlerAgrees(t) /\ IdsAgree(t) /\ QueryAgrees(t) /\ TwinAgrees(t)
    /\ KeyName(t) # "none" => KeyAgrees(t)
LEMMA ContentToolsAgree == \A t \in DOMAIN ContentSchemas : Agree(t)
<1>1. DOMAIN ContentSchemas = {"df_list_projects", "df_list_versions",
          "df_get_measures", "df_get_dimensions", "df_get_facts", "df_get_rmd",
          "df_get_consolidated_rmd"}
  BY DEF ContentSchemas
<1>2. /\ \A t \in DOMAIN ContentSchemas :
            Schemas[t] = ContentSchemas[t] /\ Handlers[t] = ContentHandlers[t] /\ UseCases[t] = ContentUseCases[t]
      /\ \A x \in DOMAIN ContentEndpoints : Endpoints[x] = ContentEndpoints[x]
  BY <1>1, SchemaRows, HandlerRows, UseCaseRows, EndpointRows DEF ContentHandlers, ContentUseCases
<1>3. \A x \in DOMAIN ContentKeys : x \in DOMAIN KeyBuilders /\ KeyBuilders[x] = ContentKeys[x]
  BY KeyRows
<1> USE DEF Agree, Req, Opt, Counts, KeyName, NamesOf, EndpointOf, DefaultNames, Defaults,
            PV, Paging, Schema, Uses, Get
<1>4. Agree("df_list_projects")
  <2>1. /\ Schemas["df_list_projects"] = ContentSchemas["df_list_projects"]
        /\ Handlers["df_list_projects"] = ContentHandlers["df_list_projects"]
        /\ UseCases["df_list_projects"] = ContentUseCases["df_list_projects"]
        /\ Endpoints["get_projects"] = ContentEndpoints["get_projects"]
        /\ "projects" \in DOMAIN KeyBuilders /\ KeyBuilders["projects"] = ContentKeys["projects"]
    BY <1>1, <1>2, <1>3 DEF ContentEndpoints, ContentKeys
  <2>2. HandlerAgrees("df_list_projects") /\ IdsAgree("df_list_projects")
    BY <2>1 DEF HandlerAgrees, IdsAgree, EntityIds, ContentSchemas, ContentHandlers,
                ContentUseCases, ContentEndpoints
  <2>3. QueryAgrees("df_list_projects")
    BY <2>1 DEF QueryAgrees, Flags, Subjects, ParameterNames, Parameter, ContentSchemas,
           ContentUseCases, ContentEndpoints, Paged
  <2>4. TwinAgrees("df_list_projects")
    BY <2>1 DEF TwinAgrees, Twin, ToolAbout,
           ToolOf, Subjects, ContentUseCases
  <2>5. KeyAgrees("df_list_projects")
    <3>1. PICK names : names = NamesOf("df_list_projects")
      OBVIOUS
    <3>2. /\ Len(names) = 2 /\ 1..2 = {1, 2}
          /\ names[1] = "page" /\ names[2] = "page_size"
      BY <2>1, <3>1 DEF ContentKeys, ContentUseCases
    <3>3. /\ KeyName("df_list_projects") = "projects" /\ Req("df_list_projects") = {}
          /\ Counts("df_list_projects") = {"page", "page_size"}
      BY <2>1 DEF ContentSchemas, ContentUseCases
    <3> HIDE DEF KeyName, Req, Counts, NamesOf
    <3>4. \A i \in 1..Len(names) :
             names[i] \in Counts("df_list_projects") /\ (names[i] = "search" => i = Len(names))
      BY ONLY <3>2, <3>3
    <3>5. \A n \in Counts("df_list_projects") : \E i \in 1..Len(names) : names[i] = n
      BY ONLY <3>2, <3>3
    <3>6. /\ PV \subseteq Req("df_list_projects") =>
               /\ Len(names) >= 2 /\ names[1] = "project_id" /\ names[2] = "version_id"
               /\ KeyName("df_list_projects") \in Scopes!VersionFamilies
          /\ Req("df_list_projects") = {"project_id"} =>
               names[1] = "project_id" /\ KeyName("df_list_projects") \in Scopes!ProjectFamilies
          /\ Req("df_list_projects") \cap PV = {} => KeyName("df_list_projects") \in Scopes!CompanyFamilies
      BY ONLY <3>2, <3>3 DEF PV, Scopes!VersionFamilies, Scopes!ProjectFamilies,
                             Scopes!CompanyFamilies
    <3>7. KeyName("df_list_projects") \in DOMAIN KeyBuilders /\ Len(names) \in Nat \ {0}
      BY <2>1, <3>2, <3>3
    <3>8. QED  BY ONLY <3>1, <3>4, <3>5, <3>6, <3>7 DEF KeyAgrees
  <2>6. QED  BY <2>2, <2>3, <2>4, <2>5
<1>5. Agree("df_list_versions")
  <2>1. /\ Schemas["df_list_versions"] = ContentSchemas["df_list_versions"]
        /\ Handlers["df_list_versions"] = ContentHandlers["df_list_versions"]
        /\ UseCases["df_list_versions"] = ContentUseCases["df_list_versions"]
        /\ Endpoints["get_versions"] = ContentEndpoints["get_versions"]
        /\ "versions" \in DOMAIN KeyBuilders /\ KeyBuilders["versions"] = ContentKeys["versions"]
    BY <1>1, <1>2, <1>3 DEF ContentEndpoints, ContentKeys
  <2>2. HandlerAgrees("df_list_versions") /\ IdsAgree("df_list_versions")
    BY <2>1 DEF HandlerAgrees, IdsAgree, EntityIds, ContentSchemas, ContentHandlers,
                ContentUseCases, ContentEndpoints
  <2>3. QueryAgrees("df_list_versions")
    BY <2>1 DEF QueryAgrees, Flags, Subjects, ParameterNames, Parameter, ContentSchemas,
           ContentUseCases, ContentEndpoints, Paged
  <2>4. TwinAgrees("df_list_versions")
    BY <2>1 DEF TwinAgrees, Twin, ToolAbout,
           ToolOf, Subjects, ContentUseCases
  <2>5. KeyAgrees("df_list_versions")
    <3>1. PICK names : names = NamesOf("df_list_versions")
      OBVIOUS
    <3>2. /\ Len(names) = 3 /\ 1..3 = {1, 2, 3}
          /\ names[1] = "project_id" /\ names[2] = "page" /\ names[3] = "page_size"
      BY <2>1, <3>1 DEF ContentKeys, ContentUseCases
    <3>3. /\ KeyName("df_list_versions") = "versions" /\ Req("df_list_versions") = {"project_id"}
          /\ Counts("df_list_versions") = {"project_id", "page", "page_size"}
      BY <2>1 DEF ContentSchemas, ContentUseCases
    <3> HIDE DEF KeyName, Req, Counts, NamesOf
    <3>4. \A i \in 1..Len(names) :
             names[i] \in Counts("df_list_versions") /\ (names[i] = "search" => i = Len(names))
      BY ONLY <3>2, <3>3
    <3>5. \A n \in Counts("df_list_versions") : \E i \in 1..Len(names) : names[i] = n
      BY ONLY <3>2, <3>3
    <3>6. /\ PV \subseteq Req("df_list_versions") =>
               /\ Len(names) >= 2 /\ names[1] = "project_id" /\ names[2] = "version_id"
               /\ KeyName("df_list_versions") \in Scopes!VersionFamilies
          /\ Req("df_list_versions") = {"project_id"} =>
               names[1] = "project_id" /\ KeyName("df_list_versions") \in Scopes!ProjectFamilies
          /\ Req("df_list_versions") \cap PV = {} => KeyName("df_list_versions") \in Scopes!CompanyFamilies
      BY ONLY <3>2, <3>3 DEF PV, Scopes!VersionFamilies, Scopes!ProjectFamilies,
                             Scopes!CompanyFamilies
    <3>7. KeyName("df_list_versions") \in DOMAIN KeyBuilders /\ Len(names) \in Nat \ {0}
      BY <2>1, <3>2, <3>3
    <3>8. QED  BY ONLY <3>1, <3>4, <3>5, <3>6, <3>7 DEF KeyAgrees
  <2>6. QED  BY <2>2, <2>3, <2>4, <2>5
<1>6. Agree("df_get_measures")
  <2>1. /\ Schemas["df_get_measures"] = ContentSchemas["df_get_measures"]
        /\ Handlers["df_get_measures"] = ContentHandlers["df_get_measures"]
        /\ UseCases["df_get_measures"] = ContentUseCases["df_get_measures"]
        /\ Endpoints["get_measures"] = ContentEndpoints["get_measures"]
        /\ "measures" \in DOMAIN KeyBuilders /\ KeyBuilders["measures"] = ContentKeys["measures"]
    BY <1>1, <1>2, <1>3 DEF ContentEndpoints, ContentKeys
  <2>2. HandlerAgrees("df_get_measures") /\ IdsAgree("df_get_measures")
    BY <2>1 DEF HandlerAgrees, IdsAgree, EntityIds, ContentSchemas, ContentHandlers,
                ContentUseCases, ContentEndpoints
  <2>3. QueryAgrees("df_get_measures")
    <3>1. /\ EndpointOf("df_get_measures").query = Lang
          /\ EndpointOf("df_get_measures").resource = "measures"
          /\ EndpointOf("df_get_measures").flags = {"include_sql"}
          /\ Subjects["df_get_measures"] = "measures"
      BY <2>1 DEF Subjects, ContentUseCases, ContentEndpoints
    <3>2. Opt("df_get_measures") = {"language", "include_sql"}
      BY <2>1 DEF ContentSchemas
    <3>3. QED  BY ONLY <3>1, <3>2 DEF QueryAgrees, Flags, Parameter, ParameterNames, Lang
  <2>4. TwinAgrees("df_get_measures")
    BY <2>1 DEF TwinAgrees, Twin, ToolAbout,
           ToolOf, Subjects, ContentUseCases
  <2>5. KeyAgrees("df_get_measures")
    <3>1. PICK names : names = NamesOf("df_get_measures")
      OBVIOUS
    <3>2. /\ Len(names) = 4 /\ 1..4 = {1, 2, 3, 4}
          /\ names[1] = "project_id" /\ names[2] = "version_id" /\ names[3] = "language"
          /\ names[4] = "include_sql"
      BY <2>1, <3>1 DEF ContentKeys, ContentUseCases, PVL
    <3>3. /\ KeyName("df_get_measures") = "measures" /\ Req("df_get_measures") = {"project_id",
             "version_id"}
          /\ Counts("df_get_measures") = {"project_id", "version_id", "language",
             "include_sql"}
      BY <2>1 DEF ContentSchemas, ContentUseCases
    <3> HIDE DEF KeyName, Req, Counts, NamesOf
    <3>4. \A i \in 1..Len(names) :
             names[i] \in Counts("df_get_measures") /\ (names[i] = "search" => i = Len(names))
      BY ONLY <3>2, <3>3
    <3>5. \A n \in Counts("df_get_measures") : \E i \in 1..Len(names) : names[i] = n
      BY ONLY <3>2, <3>3
    <3>6. /\ PV \subseteq Req("df_get_measures") =>
               /\ Len(names) >= 2 /\ names[1] = "project_id" /\ names[2] = "version_id"
               /\ KeyName("df_get_measures") \in Scopes!VersionFamilies
          /\ Req("df_get_measures") = {"project_id"} =>
               names[1] = "project_id" /\ KeyName("df_get_measures") \in Scopes!ProjectFamilies
          /\ Req("df_get_measures") \cap PV = {} => KeyName("df_get_measures") \in Scopes!CompanyFamilies
      BY ONLY <3>2, <3>3 DEF PV, Scopes!VersionFamilies, Scopes!ProjectFamilies,
                             Scopes!CompanyFamilies
    <3>7. KeyName("df_get_measures") \in DOMAIN KeyBuilders /\ Len(names) \in Nat \ {0}
      BY <2>1, <3>2, <3>3
    <3>8. QED  BY ONLY <3>1, <3>4, <3>5, <3>6, <3>7 DEF KeyAgrees
  <2>6. QED  BY <2>2, <2>3, <2>4, <2>5
<1>7. Agree("df_get_dimensions")
  <2>1. /\ Schemas["df_get_dimensions"] = ContentSchemas["df_get_dimensions"]
        /\ Handlers["df_get_dimensions"] = ContentHandlers["df_get_dimensions"]
        /\ UseCases["df_get_dimensions"] = ContentUseCases["df_get_dimensions"]
        /\ Endpoints["get_dimensions"] = ContentEndpoints["get_dimensions"]
        /\ "dimensions" \in DOMAIN KeyBuilders /\ KeyBuilders["dimensions"] = ContentKeys["dimensions"]
    BY <1>1, <1>2, <1>3 DEF ContentEndpoints, ContentKeys
  <2>2. HandlerAgrees("df_get_dimensions") /\ IdsAgree("df_get_dimensions")
    BY <2>1 DEF HandlerAgrees, IdsAgree, EntityIds, ContentSchemas, ContentHandlers,
                ContentUseCases, ContentEndpoints
  <2>3. QueryAgrees("df_get_dimensions")
    BY <2>1 DEF QueryAgrees, Flags, Subjects, ParameterNames, Parameter, ContentSchemas,
           ContentUseCases, ContentEndpoints, Lang
  <2>4. TwinAgrees("df_get_dimensions")
    BY <2>1 DEF TwinAgrees, Twin, ToolAbout,
           ToolOf, Subjects, ContentUseCases
  <2>5. KeyAgrees("df_get_dimensions")
    <3>1. PICK names : names = NamesOf("df_get_dimensions")
      OBVIOUS
    <3>2. /\ Len(names) = 3 /\ 1..3 = {1, 2, 3}
          /\ names[1] = "project_id" /\ names[2] = "version_id" /\ names[3] = "language"
      BY <2>1, <3>1 DEF ContentKeys, ContentUseCases, PVL
    <3>3. /\ KeyName("df_get_dimensions") = "dimensions" /\ Req("df_get_dimensions") = {"project_id",
             "version_id"}
          /\ Counts("df_get_dimensions") = {"project_id", "version_id", "language"}
      BY <2>1 DEF ContentSchemas, ContentUseCases
    <3> HIDE DEF KeyName, Req, Counts, NamesOf
    <3>4. \A i \in 1..Len(names) :
             names[i] \in Counts("df_get_dimensions") /\ (names[i] = "search" => i = Len(names))
      BY ONLY <3>2, <3>3
    <3>5. \A n \in Counts("df_get_dimensions") : \E i \in 1..Len(names) : names[i] = n
      BY ONLY <3>2, <3>3
    <3>6. /\ PV \subseteq Req("df_get_dimensions") =>
               /\ Len(names) >= 2 /\ names[1] = "project_id" /\ names[2] = "version_id"
               /\ KeyName("df_get_dimensions") \in Scopes!VersionFamilies
          /\ Req("df_get_dimensions") = {"project_id"} =>
               names[1] = "project_id" /\ KeyName("df_get_dimensions") \in Scopes!ProjectFamilies
          /\ Req("df_get_dimensions") \cap PV = {} => KeyName("df_get_dimensions") \in Scopes!CompanyFamilies
      BY ONLY <3>2, <3>3 DEF PV, Scopes!VersionFamilies, Scopes!ProjectFamilies,
                             Scopes!CompanyFamilies
    <3>7. KeyName("df_get_dimensions") \in DOMAIN KeyBuilders /\ Len(names) \in Nat \ {0}
      BY <2>1, <3>2, <3>3
    <3>8. QED  BY ONLY <3>1, <3>4, <3>5, <3>6, <3>7 DEF KeyAgrees
  <2>6. QED  BY <2>2, <2>3, <2>4, <2>5
<1>8. Agree("df_get_facts")
  <2>1. /\ Schemas["df_get_facts"] = ContentSchemas["df_get_facts"]
        /\ Handlers["df_get_facts"] = ContentHandlers["df_get_facts"]
        /\ UseCases["df_get_facts"] = ContentUseCases["df_get_facts"]
        /\ Endpoints["get_facts"] = ContentEndpoints["get_facts"]
        /\ "facts" \in DOMAIN KeyBuilders /\ KeyBuilders["facts"] = ContentKeys["facts"]
    BY <1>1, <1>2, <1>3 DEF ContentEndpoints, ContentKeys
  <2>2. HandlerAgrees("df_get_facts") /\ IdsAgree("df_get_facts")
    BY <2>1 DEF HandlerAgrees, IdsAgree, EntityIds, ContentSchemas, ContentHandlers,
                ContentUseCases, ContentEndpoints
  <2>3. QueryAgrees("df_get_facts")
    BY <2>1 DEF QueryAgrees, Flags, Subjects, ParameterNames, Parameter, ContentSchemas,
           ContentUseCases, ContentEndpoints, Lang
  <2>4. TwinAgrees("df_get_facts")
    BY <2>1 DEF TwinAgrees, Twin, ToolAbout, ToolOf,
           Subjects, ContentUseCases
  <2>5. KeyAgrees("df_get_facts")
    <3>1. PICK names : names = NamesOf("df_get_facts")
      OBVIOUS
    <3>2. /\ Len(names) = 3 /\ 1..3 = {1, 2, 3}
          /\ names[1] = "project_id" /\ names[2] = "version_id" /\ names[3] = "language"
      BY <2>1, <3>1 DEF ContentKeys, ContentUseCases, PVL
    <3>3. /\ KeyName("df_get_facts") = "facts" /\ Req("df_get_facts") = {"project_id",
             "version_id"}
          /\ Counts("df_get_facts") = {"project_id", "version_id", "language"}
      BY <2>1 DEF ContentSchemas, ContentUseCases
    <3> HIDE DEF KeyName, Req, Counts, NamesOf
    <3>4. \A i \in 1..Len(names) :
             names[i] \in Counts("df_get_facts") /\ (names[i] = "search" => i = Len(names))
      BY ONLY <3>2, <3>3
    <3>5. \A n \in Counts("df_get_facts") : \E i \in 1..Len(names) : names[i] = n
      BY ONLY <3>2, <3>3
    <3>6. /\ PV \subseteq Req("df_get_facts") =>
               /\ Len(names) >= 2 /\ names[1] = "project_id" /\ names[2] = "version_id"
               /\ KeyName("df_get_facts") \in Scopes!VersionFamilies
          /\ Req("df_get_facts") = {"project_id"} =>
               names[1] = "project_id" /\ KeyName("df_get_facts") \in Scopes!ProjectFamilies
          /\ Req("df_get_facts") \cap PV = {} => KeyName("df_get_facts") \in Scopes!CompanyFamilies
      BY ONLY <3>2, <3>3 DEF PV, Scopes!VersionFamilies, Scopes!ProjectFamilies,
                             Scopes!CompanyFamilies
    <3>7. KeyName("df_get_facts") \in DOMAIN KeyBuilders /\ Len(names) \in Nat \ {0}
      BY <2>1, <3>2, <3>3
    <3>8. QED  BY ONLY <3>1, <3>4, <3>5, <3>6, <3>7 DEF KeyAgrees
  <2>6. QED  BY <2>2, <2>3, <2>4, <2>5
<1>9. Agree("df_get_rmd")
  <2>1. /\ Schemas["df_get_rmd"] = ContentSchemas["df_get_rmd"]
        /\ Handlers["df_get_rmd"] = ContentHandlers["df_get_rmd"]
        /\ UseCases["df_get_rmd"] = ContentUseCases["df_get_rmd"]
        /\ Endpoints["get_rmd"] = ContentEndpoints["get_rmd"]
        /\ "rmd" \in DOMAIN KeyBuilders /\ KeyBuilders["rmd"] = ContentKeys["rmd"]
    BY <1>1, <1>2, <1>3 DEF ContentEndpoints, ContentKeys
  <2>2. HandlerAgrees("df_get_rmd") /\ IdsAgree("df_get_rmd")
    BY <2>1 DEF HandlerAgrees, IdsAgree, EntityIds, ContentSchemas, ContentHandlers,
                ContentUseCases, ContentEndpoints
  <2>3. QueryAgrees("df_get_rmd")
    <3>1. /\ EndpointOf("df_get_rmd").query = Lang
          /\ EndpointOf("df_get_rmd").resource = "rmd"
          /\ EndpointOf("df_get_rmd").flags = {"include_sql"}
          /\ Subjects["df_get_rmd"] = "rmd"
      BY <2>1 DEF Subjects, ContentUseCases, ContentEndpoints
    <3>2. Opt("df_get_rmd") = {"language", "include_sql", "include_raw"}
      BY <2>1 DEF ContentSchemas
    <3>3. QED  BY ONLY <3>1, <3>2 DEF QueryAgrees, Flags, Parameter, ParameterNames, Lang
  <2>4. TwinAgrees("df_get_rmd")
    BY <2>1 DEF TwinAgrees, Twin, ToolAbout, ToolOf,
           Subjects, ContentUseCases
  <2>5. KeyAgrees("df_get_rmd")
    <3>1. PICK names : names = NamesOf("df_get_rmd")
      OBVIOUS
    <3>2. /\ Len(names) = 4 /\ 1..4 = {1, 2, 3, 4}
          /\ names[1] = "project_id" /\ names[2] = "version_id" /\ names[3] = "language"
          /\ names[4] = "include_sql"
      BY <2>1, <3>1 DEF ContentKeys, ContentUseCases, PVL
    <3>3. /\ KeyName("df_get_rmd") = "rmd" /\ Req("df_get_rmd") = {"project_id",
             "version_id"}
          /\ Counts("df_get_rmd") = {"project_id", "version_id", "language",
             "include_sql"}
      BY <2>1 DEF ContentSchemas, ContentUseCases
    <3> HIDE DEF KeyName, Req, Counts, NamesOf
    <3>4. \A i \in 1..Len(names) :
             names[i] \in Counts("df_get_rmd") /\ (names[i] = "search" => i = Len(names))
      BY ONLY <3>2, <3>3
    <3>5. \A n \in Counts("df_get_rmd") : \E i \in 1..Len(names) : names[i] = n
      BY ONLY <3>2, <3>3
    <3>6. /\ PV \subseteq Req("df_get_rmd") =>
               /\ Len(names) >= 2 /\ names[1] = "project_id" /\ names[2] = "version_id"
               /\ KeyName("df_get_rmd") \in Scopes!VersionFamilies
          /\ Req("df_get_rmd") = {"project_id"} =>
               names[1] = "project_id" /\ KeyName("df_get_rmd") \in Scopes!ProjectFamilies
          /\ Req("df_get_rmd") \cap PV = {} => KeyName("df_get_rmd") \in Scopes!CompanyFamilies
      BY ONLY <3>2, <3>3 DEF PV, Scopes!VersionFamilies, Scopes!ProjectFamilies,
                             Scopes!CompanyFamilies
    <3>7. KeyName("df_get_rmd") \in DOMAIN KeyBuilders /\ Len(names) \in Nat \ {0}
      BY <2>1, <3>2, <3>3
    <3>8. QED  BY ONLY <3>1, <3>4, <3>5, <3>6, <3>7 DEF KeyAgrees
  <2>6. QED  BY <2>2, <2>3, <2>4, <2>5
<1>10. Agree("df_get_consolidated_rmd")
  <2>1. /\ Schemas["df_get_consolidated_rmd"] = ContentSchemas["df_get_consolidated_rmd"]
        /\ Handlers["df_get_consolidated_rmd"] = ContentHandlers["df_get_consolidated_rmd"]
        /\ UseCases["df_get_consolidated_rmd"] = ContentUseCases["df_get_consolidated_rmd"]
        /\ Endpoints["get_rmd"] = ContentEndpoints["get_rmd"]
        /\ "rmd" \in DOMAIN KeyBuilders /\ KeyBuilders["rmd"] = ContentKeys["rmd"]
    BY <1>1, <1>2, <1>3 DEF ContentEndpoints, ContentKeys
  <2>2. HandlerAgrees("df_get_consolidated_rmd") /\ IdsAgree("df_get_consolidated_rmd")
    BY <2>1 DEF HandlerAgrees, IdsAgree, EntityIds, ContentSchemas, ContentHandlers,
                ContentUseCases, ContentEndpoints
  <2>3. QueryAgrees("df_get_consolidated_rmd")
    <3>1. /\ EndpointOf("df_get_consolidated_rmd").query = Lang
          /\ EndpointOf("df_get_consolidated_rmd").resource = "rmd"
          /\ EndpointOf("df_get_consolidated_rmd").flags = {"include_sql"}
          /\ Subjects["df_get_consolidated_rmd"] = "rmd"
      BY <2>1 DEF Subjects, ContentUseCases, ContentEndpoints
    <3>2. Opt("df_get_consolidated_rmd") = {"language", "include_sql"}
      BY <2>1 DEF ContentSchemas
    <3>3. QED  BY ONLY <3>1, <3>2 DEF QueryAgrees, Flags, Parameter, ParameterNames, Lang
  <2>4. /\ UseCases["df_get_rmd"] = ContentUseCases["df_get_rmd"]
        /\ Schemas["df_get_rmd"] = ContentSchemas["df_get_rmd"]
    BY <1>1, <1>2
  <2>5. TwinAgrees("df_get_consolidated_rmd")
    <3>1. Twin("df_get_consolidated_rmd") = "df_get_rmd"
      BY DEF Twin
    <3>2. /\ Req("df_get_rmd") = Req("df_get_consolidated_rmd")
          /\ Opt("df_get_rmd") \ {"include_raw"} = Opt("df_get_consolidated_rmd") \ {"include_raw"}
      BY <2>1, <2>4 DEF ContentSchemas
    <3>3. /\ UseCases["df_get_rmd"] = UseCases["df_get_consolidated_rmd"]
          /\ KeyName("df_get_consolidated_rmd") = "rmd"
      BY <2>1, <2>4 DEF ContentUseCases
    <3>4. /\ Subjects["df_get_rmd"] = "rmd" /\ Subjects["df_get_consolidated_rmd"] = "rmd"
      BY DEF Subjects
    <3>5. "df_get_rmd" = ToolAbout("rmd") /\ "df_get_rmd" = ToolOf("rmd")
      BY DEF ToolAbout, ToolOf
    <3> HIDE DEF Req, Opt, KeyName
    <3>6. QED  BY <3>1, <3>2, <3>3, <3>4, <3>5 DEF TwinAgrees
  <2>6. KeyAgrees("df_get_consolidated_rmd")
    <3>1. PICK names : names = NamesOf("df_get_consolidated_rmd")
      OBVIOUS
    <3>2. /\ Len(names) = 4 /\ 1..4 = {1, 2, 3, 4}
          /\ names[1] = "project_id" /\ names[2] = "version_id" /\ names[3] = "language"
          /\ names[4] = "include_sql"
      BY <2>1, <3>1 DEF ContentKeys, ContentUseCases, PVL
    <3>3. /\ KeyName("df_get_consolidated_rmd") = "rmd" /\ Req("df_get_consolidated_rmd") = {"project_id",
             "version_id"}
          /\ Counts("df_get_consolidated_rmd") = {"project_id", "version_id",
             "language", "include_sql"}
      BY <2>1 DEF ContentSchemas, ContentUseCases
    <3> HIDE DEF KeyName, Req, Counts, NamesOf
    <3>4. \A i \in 1..Len(names) :
             names[i] \in Counts("df_get_consolidated_rmd") /\ (names[i] = "search" => i = Len(names))
      BY ONLY <3>2, <3>3
    <3>5. \A n \in Counts("df_get_consolidated_rmd") : \E i \in 1..Len(names) : names[i] = n
      BY ONLY <3>2, <3>3
    <3>6. /\ PV \subseteq Req("df_get_consolidated_rmd") =>
               /\ Len(names) >= 2 /\ names[1] = "project_id" /\ names[2] = "version_id"
               /\ KeyName("df_get_consolidated_rmd") \in Scopes!VersionFamilies
          /\ Req("df_get_consolidated_rmd") = {"project_id"} =>
               names[1] = "project_id" /\ KeyName("df_get_consolidated_rmd") \in Scopes!ProjectFamilies
          /\ Req("df_get_consolidated_rmd") \cap PV = {} => KeyName("df_get_consolidated_rmd") \in Scopes!CompanyFamilies
      BY ONLY <3>2, <3>3 DEF PV, Scopes!VersionFamilies, Scopes!ProjectFamilies,
                             Scopes!CompanyFamilies
    <3>7. KeyName("df_get_consolidated_rmd") \in DOMAIN KeyBuilders /\ Len(names) \in Nat \ {0}
      BY <2>1, <3>2, <3>3
    <3>8. QED  BY ONLY <3>1, <3>4, <3>5, <3>6, <3>7 DEF KeyAgrees
  <2>7. QED  BY <2>2, <2>3, <2>4, <2>5, <2>6
<1> HIDE DEF Agree
<1>11. QED  BY <1>1, <1>4, <1>5, <1>6, <1>7, <1>8, <1>9, <1>10

LEMMA MartToolsAgree == \A t \in DOMAIN MartSchemas : Agree(t)
<1>1. DOMAIN MartSchemas = {"df_list_data_marts", "df_get_data_mart",
          "df_get_data_mart_view", "df_generate_sql"}
  BY DEF MartSchemas
<1>2. /\ \A t \in DOMAIN MartSchemas :
            Schemas[t] = MartSchemas[t] /\ Handlers[t] = MartHandlers[t] /\ UseCases[t] = MartUseCases[t]
      /\ \A x \in DOMAIN MartEndpoints : Endpoints[x] = MartEndpoints[x]
  BY <1>1, SchemaRows, HandlerRows, UseCaseRows, EndpointRows DEF MartHandlers, MartUseCases
<1>3. \A x \in DOMAIN ModelKeys : x \in DOMAIN KeyBuilders /\ KeyBuilders[x] = ModelKeys[x]
  BY KeyRows
<1> USE DEF Agree, Req, Opt, Counts, KeyName, NamesOf, EndpointOf, DefaultNames, Defaults,
            PV, Paging, Schema, Uses, Get
<1>4. Agree("df_list_data_marts")
  <2>1. /\ Schemas["df_list_data_marts"] = MartSchemas["df_list_data_marts"]
        /\ Handlers["df_list_data_marts"] = MartHandlers["df_list_data_marts"]
        /\ UseCases["df_list_data_marts"] = MartUseCases["df_list_data_marts"]
        /\ Endpoints["get_data_marts"] = MartEndpoints["get_data_marts"]
        /\ "data_marts" \in DOMAIN KeyBuilders /\ KeyBuilders["data_marts"] = ModelKeys["data_marts"]
    BY <1>1, <1>2, <1>3 DEF MartEndpoints, ModelKeys
  <2>2. HandlerAgrees("df_list_data_marts") /\ IdsAgree("df_list_data_marts")
    BY <2>1 DEF HandlerAgrees, IdsAgree, EntityIds, MartSchemas, MartHandlers,
                MartUseCases, MartEndpoints
  <2>3. QueryAgrees("df_list_data_marts")
    <3>1. PICK q, f, g : q = f ++ g /\ f = Lang ++ Paged
                          /\ g = [type |-> "mart_type", merge_type |-> "merge_type", search |-> "search"]
      OBVIOUS
    <3>a. /\ DOMAIN f = {"language", "page", "pageSize"}
          /\ f["language"] = "language"
          /\ f["page"] = "page"
          /\ f["pageSize"] = "page_size"
      BY <3>1, LangAndPage
    <3>b. /\ DOMAIN g = {"type", "merge_type", "search"}
          /\ g["type"] = "mart_type"
          /\ g["merge_type"] = "merge_type"
          /\ g["search"] = "search"
      BY <3>1
    <3>2. /\ DOMAIN q = {"language", "page", "pageSize", "type", "merge_type", "search"}
          /\ q["language"] = "language"
          /\ q["page"] = "page"
          /\ q["pageSize"] = "page_size"
          /\ q["type"] = "mart_type"
          /\ q["merge_type"] = "merge_type"
          /\ q["search"] = "search"
      <4>1. q = f ++ g
        BY <3>1
      <4>2. /\ DOMAIN q = DOMAIN f \cup DOMAIN g
            /\ \A x \in DOMAIN f : q[x] = f[x]
            /\ \A x \in DOMAIN g : x \notin DOMAIN f => q[x] = g[x]
        BY ONLY <4>1 DEF ++
      <4>3. QED  BY ONLY <3>a, <3>b, <4>2
    <3>3. MartEndpoints["get_data_marts"].query = q
      BY <3>1 DEF MartEndpoints
    <3>4. /\ EndpointOf("df_list_data_marts").query = q
          /\ EndpointOf("df_list_data_marts").resource = "data-marts"
          /\ EndpointOf("df_list_data_marts").flags = {}
          /\ Subjects["df_list_data_marts"] = "data-marts"
      BY <2>1, <3>3 DEF Subjects, MartUseCases, MartEndpoints
    <3>5. Opt("df_list_data_marts") = {"language", "page", "page_size", "mart_type",
            "merge_type", "search"}
      BY <2>1 DEF MartSchemas
    <3>6. QED  BY ONLY <3>2, <3>4, <3>5 DEF QueryAgrees, Flags, Parameter, ParameterNames
  <2>4. TwinAgrees("df_list_data_marts")
    BY <2>1 DEF TwinAgrees, Twin, ToolAbout,
           ToolOf, Subjects, MartUseCases
  <2>5. KeyAgrees("df_list_data_marts")
    <3>1. PICK names : names = NamesOf("df_list_data_marts")
      OBVIOUS
    <3>2. /\ Len(names) = 8 /\ 1..8 = {1, 2, 3, 4, 5, 6, 7, 8}
          /\ names[1] = "project_id" /\ names[2] = "version_id" /\ names[3] = "language"
          /\ names[4] = "page" /\ names[5] = "page_size" /\ names[6] = "mart_type"
          /\ names[7] = "merge_type" /\ names[8] = "search"
      BY <2>1, <3>1 DEF ModelKeys, MartUseCases, PVL
    <3>3. /\ KeyName("df_list_data_marts") = "data_marts" /\ Req("df_list_data_marts") = {"project_id",
             "version_id"}
          /\ Counts("df_list_data_marts") = {"project_id", "version_id", "language",
             "page", "page_size", "mart_type", "merge_type", "search"}
      BY <2>1 DEF MartSchemas, MartUseCases
    <3> HIDE DEF KeyName, Req, Counts, NamesOf
    <3>4. \A i \in 1..Len(names) :
             names[i] \in Counts("df_list_data_marts") /\ (names[i] = "search" => i = Len(names))
      BY ONLY <3>2, <3>3
    <3>5. \A n \in Counts("df_list_data_marts") : \E i \in 1..Len(names) : names[i] = n
      BY ONLY <3>2, <3>3
    <3>6. /\ PV \subseteq Req("df_list_data_marts") =>
               /\ Len(names) >= 2 /\ names[1] = "project_id" /\ names[2] = "version_id"
               /\ KeyName("df_list_data_marts") \in Scopes!VersionFamilies
          /\ Req("df_list_data_marts") = {"project_id"} =>
               names[1] = "project_id" /\ KeyName("df_list_data_marts") \in Scopes!ProjectFamilies
          /\ Req("df_list_data_marts") \cap PV = {} => KeyName("df_list_data_marts") \in Scopes!CompanyFamilies
      BY ONLY <3>2, <3>3 DEF PV, Scopes!VersionFamilies, Scopes!ProjectFamilies,
                             Scopes!CompanyFamilies
    <3>7. KeyName("df_list_data_marts") \in DOMAIN KeyBuilders /\ Len(names) \in Nat \ {0}
      BY <2>1, <3>2, <3>3
    <3>8. QED  BY ONLY <3>1, <3>4, <3>5, <3>6, <3>7 DEF KeyAgrees
  <2>6. QED  BY <2>2, <2>3, <2>4, <2>5
<1>5. Agree("df_get_data_mart")
  <2>1. /\ Schemas["df_get_data_mart"] = MartSchemas["df_get_data_mart"]
        /\ Handlers["df_get_data_mart"] = MartHandlers["df_get_data_mart"]
        /\ UseCases["df_get_data_mart"] = MartUseCases["df_get_data_mart"]
        /\ Endpoints["get_data_mart"] = MartEndpoints["get_data_mart"]
        /\ "data_mart" \in DOMAIN KeyBuilders /\ KeyBuilders["data_mart"] = ModelKeys["data_mart"]
    BY <1>1, <1>2, <1>3 DEF MartEndpoints, ModelKeys
  <2>a. Req("df_get_data_mart") = PV \cup {"data_mart_id"} /\ EndpointOf("df_get_data_mart").ids = InVersion \o <<"data_mart_id">>
    BY <2>1 DEF MartSchemas, MartUseCases, MartEndpoints
  <2>b. IdsAgree("df_get_data_mart")
    BY <2>a DEF IdsAgree, EntityIds
  <2>2. HandlerAgrees("df_get_data_mart")
    BY <2>1 DEF HandlerAgrees, MartSchemas, MartHandlers
  <2>3. QueryAgrees("df_get_data_mart")
    BY <2>1 DEF QueryAgrees, Flags, Subjects, ParameterNames, Parameter, MartSchemas,
           MartUseCases, MartEndpoints, Lang
  <2>4. TwinAgrees("df_get_data_mart")
    BY <2>1 DEF TwinAgrees, Twin, ToolAbout,
           ToolOf, Subjects, MartUseCases
  <2>5. KeyAgrees("df_get_data_mart")
    <3>1. PICK names : names = NamesOf("df_get_data_mart")
      OBVIOUS
    <3>2. /\ Len(names) = 4 /\ 1..4 = {1, 2, 3, 4}
          /\ names[1] = "project_id" /\ names[2] = "version_id" /\ names[3] = "data_mart_id"
          /\ names[4] = "language"
      BY <2>1, <3>1 DEF ModelKeys, MartUseCases
    <3>3. /\ KeyName("df_get_data_mart") = "data_mart" /\ Req("df_get_data_mart") = {"project_id",
             "version_id", "data_mart_id"}
          /\ Counts("df_get_data_mart") = {"project_id", "version_id", "data_mart_id",
             "language"}
      BY <2>1 DEF MartSchemas, MartUseCases
    <3> HIDE DEF KeyName, Req, Counts, NamesOf
    <3>4. \A i \in 1..Len(names) :
             names[i] \in Counts("df_get_data_mart") /\ (names[i] = "search" => i = Len(names))
      BY ONLY <3>2, <3>3
    <3>5. \A n \in Counts("df_get_data_mart") : \E i \in 1..Len(names) : names[i] = n
      BY ONLY <3>2, <3>3
    <3>6. /\ PV \subseteq Req("df_get_data_mart") =>
               /\ Len(names) >= 2 /\ names[1] = "project_id" /\ names[2] = "version_id"
               /\ KeyName("df_get_data_mart") \in Scopes!VersionFamilies
          /\ Req("df_get_data_mart") = {"project_id"} =>
               names[1] = "project_id" /\ KeyName("df_get_data_mart") \in Scopes!ProjectFamilies
          /\ Req("df_get_data_mart") \cap PV = {} => KeyName("df_get_data_mart") \in Scopes!CompanyFamilies
      BY ONLY <3>2, <3>3 DEF PV, Scopes!VersionFamilies, Scopes!ProjectFamilies,
                             Scopes!CompanyFamilies
    <3>7. KeyName("df_get_data_mart") \in DOMAIN KeyBuilders /\ Len(names) \in Nat \ {0}
      BY <2>1, <3>2, <3>3
    <3>8. QED  BY ONLY <3>1, <3>4, <3>5, <3>6, <3>7 DEF KeyAgrees
  <2>6. QED  BY <2>b, <2>2, <2>3, <2>4, <2>5
<1>6. Agree("df_get_data_mart_view")
  <2>1. /\ Schemas["df_get_data_mart_view"] = MartSchemas["df_get_data_mart_view"]
        /\ Handlers["df_get_data_mart_view"] = MartHandlers["df_get_data_mart_view"]
        /\ UseCases["df_get_data_mart_view"] = MartUseCases["df_get_data_mart_view"]
        /\ Endpoints["get_data_mart_view"] = MartEndpoints["get_data_mart_view"]
        /\ "data_mart_view" \in DOMAIN KeyBuilders /\ KeyBuilders["data_mart_view"] = ModelKeys["data_mart_view"]
    BY <1>1, <1>2, <1>3 DEF MartEndpoints, ModelKeys
  <2>a. Req("df_get_data_mart_view") = PV \cup {"data_mart_id"} /\ EndpointOf("df_get_data_mart_view").ids = InVersion \o <<"data_mart_id">>
    BY <2>1 DEF MartSchemas, MartUseCases, MartEndpoints
  <2>b. IdsAgree("df_get_data_mart_view")
    BY <2>a DEF IdsAgree, EntityIds
  <2>2. HandlerAgrees("df_get_data_mart_view")
    BY <2>1 DEF HandlerAgrees, MartSchemas, MartHandlers
  <2>3. QueryAgrees("df_get_data_mart_view")
    BY <2>1 DEF QueryAgrees, Flags, Subjects, ParameterNames, Parameter, MartSchemas,
           MartUseCases, MartEndpoints, Lang
  <2>4. TwinAgrees("df_get_data_mart_view")
    BY <2>1 DEF TwinAgrees, Twin, ToolAbout,
           ToolOf, Subjects, MartUseCases
  <2>5. KeyAgrees("df_get_data_mart_view")
    <3>1. PICK names : names = NamesOf("df_get_data_mart_view")
      OBVIOUS
    <3>2. /\ Len(names) = 4 /\ 1..4 = {1, 2, 3, 4}
          /\ names[1] = "project_id" /\ names[2] = "version_id" /\ names[3] = "data_mart_id"
          /\ names[4] = "language"
      BY <2>1, <3>1 DEF ModelKeys, MartUseCases
    <3>3. /\ KeyName("df_get_data_mart_view") = "data_mart_view" /\ Req("df_get_data_mart_view") = {"project_id",
             "version_id", "data_mart_id"}
          /\ Counts("df_get_data_mart_view") = {"project_id", "version_id",
             "data_mart_id", "language"}
      BY <2>1 DEF MartSchemas, MartUseCases
    <3> HIDE DEF KeyName, Req, Counts, NamesOf
    <3>4. \A i \in 1..Len(names) :
             names[i] \in Counts("df_get_data_mart_view") /\ (names[i] = "search" => i = Len(names))
      BY ONLY <3>2, <3>3
    <3>5. \A n \in Counts("df_get_data_mart_view") : \E i \in 1..Len(names) : names[i] = n
      BY ONLY <3>2, <3>3
    <3>6. /\ PV \subseteq Req("df_get_data_mart_view") =>
               /\ Len(names) >= 2 /\ names[1] = "project_id" /\ names[2] = "version_id"
               /\ KeyName("df_get_data_mart_view") \in Scopes!VersionFamilies
          /\ Req("df_get_data_mart_view") = {"project_id"} =>
               names[1] = "project_id" /\ KeyName("df_get_data_mart_view") \in Scopes!ProjectFamilies
          /\ Req("df_get_data_mart_view") \cap PV = {} => KeyName("df_get_data_mart_view") \in Scopes!CompanyFamilies
      BY ONLY <3>2, <3>3 DEF PV, Scopes!VersionFamilies, Scopes!ProjectFamilies,
                             Scopes!CompanyFamilies
    <3>7. KeyName("df_get_data_mart_view") \in DOMAIN KeyBuilders /\ Len(names) \in Nat \ {0}
      BY <2>1, <3>2, <3>3
    <3>8. QED  BY ONLY <3>1, <3>4, <3>5, <3>6, <3>7 DEF KeyAgrees
  <2>6. QED  BY <2>b, <2>2, <2>3, <2>4, <2>5
<1>7. Agree("df_generate_sql")
  <2>1. /\ Schemas["df_generate_sql"] = MartSchemas["df_generate_sql"]
        /\ Handlers["df_generate_sql"] = MartHandlers["df_generate_sql"]
        /\ UseCases["df_generate_sql"] = MartUseCases["df_generate_sql"]
        /\ Endpoints["generate_sql"] = MartEndpoints["generate_sql"]
    BY <1>1, <1>2, <1>3 DEF MartEndpoints
  <2>a. Req("df_generate_sql") = PV \cup {"data_mart_id"} /\ EndpointOf("df_generate_sql").ids = InVersion \o <<"data_mart_id">>
    BY <2>1 DEF MartSchemas, MartUseCases, MartEndpoints
  <2>b. IdsAgree("df_generate_sql")
    BY <2>a DEF IdsAgree, EntityIds
  <2>2. HandlerAgrees("df_generate_sql")
    BY <2>1 DEF HandlerAgrees, MartSchemas, MartHandlers
  <2>3. QueryAgrees("df_generate_sql")
    <3>1. PICK q, f, g : q = f ++ g /\ f = Lang
                          /\ g = [limit |-> "limit", offset |-> "offset"]
      OBVIOUS
    <3>a. /\ DOMAIN f = {"language"}
          /\ f["language"] = "language"
      BY <3>1, LangAndPage DEF Lang
    <3>b. /\ DOMAIN g = {"limit", "offset"}
          /\ g["limit"] = "limit"
          /\ g["offset"] = "offset"
      BY <3>1
    <3>2. /\ DOMAIN q = {"language", "limit", "offset"}
          /\ q["language"] = "language"
          /\ q["limit"] = "limit"
          /\ q["offset"] = "offset"
      <4>1. q = f ++ g
        BY <3>1
      <4>2. /\ DOMAIN q = DOMAIN f \cup DOMAIN g
            /\ \A x \in DOMAIN f : q[x] = f[x]
            /\ \A x \in DOMAIN g : x \notin DOMAIN f => q[x] = g[x]
        BY ONLY <4>1 DEF ++
      <4>3. QED  BY ONLY <3>a, <3>b, <4>2
    <3>3. MartEndpoints["generate_sql"].query = q
      BY <3>1 DEF MartEndpoints
    <3>4. /\ EndpointOf("df_generate_sql").query = q
          /\ EndpointOf("df_generate_sql").resource = "data-marts/*/generate-sql"
          /\ EndpointOf("df_generate_sql").flags = {}
          /\ Subjects["df_generate_sql"] = "data-marts/*/generate-sql"
      BY <2>1, <3>3 DEF Subjects, MartUseCases, MartEndpoints
    <3>5. Opt("df_generate_sql") = {"language", "limit", "offset"}
      BY <2>1 DEF MartSchemas
    <3>6. QED  BY ONLY <3>2, <3>4, <3>5 DEF QueryAgrees, Flags, Parameter, ParameterNames
  <2>4. TwinAgrees("df_generate_sql")
    BY <2>1 DEF TwinAgrees, Twin, ToolAbout,
           ToolOf, Subjects, MartUseCases
  <2>5. KeyName("df_generate_sql") = "none"
    BY <2>1 DEF MartUseCases
  <2>6. QED  BY <2>b, <2>2, <2>3, <2>4, <2>5
<1> HIDE DEF Agree
<1>8. QED  BY <1>1, <1>4, <1>5, <1>6, <1>7

LEMMA ConnectionToolsAgree == \A t \in DOMAIN ConnectionSchemas : Agree(t)
<1>1. DOMAIN ConnectionSchemas = {"df_list_connections", "df_get_connection",
          "df_get_connection_schema"}
  BY DEF ConnectionSchemas
<1>2. /\ \A t \in DOMAIN ConnectionSchemas :
            Schemas[t] = ConnectionSchemas[t] /\ Handlers[t] = ConnectionHandlers[t] /\ UseCases[t] = ConnectionUseCases[t]
      /\ \A x \in DOMAIN ConnectionEndpoints : Endpoints[x] = ConnectionEndpoints[x]
  BY <1>1, SchemaRows, HandlerRows, UseCaseRows, EndpointRows DEF ConnectionHandlers, ConnectionUseCases
<1>3. \A x \in DOMAIN ModelKeys : x \in DOMAIN KeyBuilders /\ KeyBuilders[x] = ModelKeys[x]
  BY KeyRows
<1> USE DEF Agree, Req, Opt, Counts, KeyName, NamesOf, EndpointOf, DefaultNames, Defaults,
            PV, Paging, Schema, Uses, Get
<1>4. Agree("df_list_connections")
  <2>1. /\ Schemas["df_list_connections"] = ConnectionSchemas["df_list_connections"]
        /\ Handlers["df_list_connections"] = ConnectionHandlers["df_list_connections"]
        /\ UseCases["df_list_connections"] = ConnectionUseCases["df_list_connections"]
        /\ Endpoints["get_connections"] = ConnectionEndpoints["get_connections"]
        /\ "connections" \in DOMAIN KeyBuilders /\ KeyBuilders["connections"] = ModelKeys["connections"]
    BY <1>1, <1>2, <1>3 DEF ConnectionEndpoints, ModelKeys
  <2>2. HandlerAgrees("df_list_connections") /\ IdsAgree("df_list_connections")
    BY <2>1 DEF HandlerAgrees, IdsAgree, EntityIds, ConnectionSchemas,
                ConnectionHandlers, ConnectionUseCases, ConnectionEndpoints
  <2>3. QueryAgrees("df_list_connections")
    <3>1. PICK q, f, g : q = f ++ g /\ f = Lang ++ Paged
                          /\ g = [db_type |-> "db_type", status |-> "status"]
      OBVIOUS
    <3>a. /\ DOMAIN f = {"language", "page", "pageSize"}
          /\ f["language"] = "language"
          /\ f["page"] = "page"
          /\ f["pageSize"] = "page_size"
      BY <3>1, LangAndPage
    <3>b. /\ DOMAIN g = {"db_type", "status"}
          /\ g["db_type"] = "db_type"
          /\ g["status"] = "status"
      BY <3>1
    <3>2. /\ DOMAIN q = {"language", "page", "pageSize", "db_type", "status"}
          /\ q["language"] = "language"
          /\ q["page"] = "page"
          /\ q["pageSize"] = "page_size"
          /\ q["db_type"] = "db_type"
          /\ q["status"] = "status"
      <4>1. q = f ++ g
        BY <3>1
      <4>2. /\ DOMAIN q = DOMAIN f \cup DOMAIN g
            /\ \A x \in DOMAIN f : q[x] = f[x]
            /\ \A x \in DOMAIN g : x \notin DOMAIN f => q[x] = g[x]
        BY ONLY <4>1 DEF ++
      <4>3. QED  BY ONLY <3>a, <3>b, <4>2
    <3>3. ConnectionEndpoints["get_connections"].query = q
      BY <3>1 DEF ConnectionEndpoints
    <3>4. /\ EndpointOf("df_list_connections").query = q
          /\ EndpointOf("df_list_connections").resource = "connections"
          /\ EndpointOf("df_list_connections").flags = {}
          /\ Subjects["df_list_connections"] = "connections"
      BY <2>1, <3>3 DEF Subjects, ConnectionUseCases, ConnectionEndpoints
    <3>5. Opt("df_list_connections") = {"language", "page", "page_size", "db_type",
            "status"}
      BY <2>1 DEF ConnectionSchemas
    <3>6. QED  BY ONLY <3>2, <3>4, <3>5 DEF QueryAgrees, Flags, Parameter, ParameterNames
  <2>4. TwinAgrees("df_list_connections")
    BY <2>1 DEF TwinAgrees, Twin, ToolAbout,
           ToolOf, Subjects, ConnectionUseCases
  <2>5. KeyAgrees("df_list_connections")
    <3>1. PICK names : names = NamesOf("df_list_connections")
      OBVIOUS
    <3>2. /\ Len(names) = 7 /\ 1..7 = {1, 2, 3, 4, 5, 6, 7}
          /\ names[1] = "project_id" /\ names[2] = "version_id" /\ names[3] = "language"
          /\ names[4] = "page" /\ names[5] = "page_size" /\ names[6] = "db_type"
          /\ names[7] = "status"
      BY <2>1, <3>1 DEF ModelKeys, ConnectionUseCases, PVL
    <3>3. /\ KeyName("df_list_connections") = "connections" /\ Req("df_list_connections") = {"project_id",
             "version_id"}
          /\ Counts("df_list_connections") = {"project_id", "version_id", "language",
             "page", "page_size", "db_type", "status"}
      BY <2>1 DEF ConnectionSchemas, ConnectionUseCases
    <3> HIDE DEF KeyName, Req, Counts, NamesOf
    <3>4. \A i \in 1..Len(names) :
             names[i] \in Counts("df_list_connections") /\ (names[i] = "search" => i = Len(names))
      BY ONLY <3>2, <3>3
    <3>5. \A n \in Counts("df_list_connections") : \E i \in 1..Len(names) : names[i] = n
      BY ONLY <3>2, <3>3
    <3>6. /\ PV \subseteq Req("df_list_connections") =>
               /\ Len(names) >= 2 /\ names[1] = "project_id" /\ names[2] = "version_id"
               /\ KeyName("df_list_connections") \in Scopes!VersionFamilies
          /\ Req("df_list_connections") = {"project_id"} =>
               names[1] = "project_id" /\ KeyName("df_list_connections") \in Scopes!ProjectFamilies
          /\ Req("df_list_connections") \cap PV = {} => KeyName("df_list_connections") \in Scopes!CompanyFamilies
      BY ONLY <3>2, <3>3 DEF PV, Scopes!VersionFamilies, Scopes!ProjectFamilies,
                             Scopes!CompanyFamilies
    <3>7. KeyName("df_list_connections") \in DOMAIN KeyBuilders /\ Len(names) \in Nat \ {0}
      BY <2>1, <3>2, <3>3
    <3>8. QED  BY ONLY <3>1, <3>4, <3>5, <3>6, <3>7 DEF KeyAgrees
  <2>6. QED  BY <2>2, <2>3, <2>4, <2>5
<1>5. Agree("df_get_connection")
  <2>1. /\ Schemas["df_get_connection"] = ConnectionSchemas["df_get_connection"]
        /\ Handlers["df_get_connection"] = ConnectionHandlers["df_get_connection"]
        /\ UseCases["df_get_connection"] = ConnectionUseCases["df_get_connection"]
        /\ Endpoints["get_connection"] = ConnectionEndpoints["get_connection"]
        /\ "connection" \in DOMAIN KeyBuilders /\ KeyBuilders["connection"] = ModelKeys["connection"]
    BY <1>1, <1>2, <1>3 DEF ConnectionEndpoints, ModelKeys
  <2>a. Req("df_get_connection") = PV \cup {"connection_id"} /\ EndpointOf("df_get_connection").ids = InVersion \o <<"connection_id">>
    BY <2>1 DEF ConnectionSchemas, ConnectionUseCases, ConnectionEndpoints
  <2>b. IdsAgree("df_get_connection")
    BY <2>a DEF IdsAgree, EntityIds
  <2>2. HandlerAgrees("df_get_connection")
    BY <2>1 DEF HandlerAgrees, ConnectionSchemas, ConnectionHandlers
  <2>3. QueryAgrees("df_get_connection")
    <3>1. /\ EndpointOf("df_get_connection").query = Lang
          /\ EndpointOf("df_get_connection").resource = "connections/*"
          /\ EndpointOf("df_get_connection").flags = {"include_db_schema"}
          /\ Subjects["df_get_connection"] = "connections/*"
      BY <2>1 DEF Subjects, ConnectionUseCases, ConnectionEndpoints
    <3>2. Opt("df_get_connection") = {"language", "include_db_schema"}
      BY <2>1 DEF ConnectionSchemas
    <3>3. QED  BY ONLY <3>1, <3>2 DEF QueryAgrees, Flags, Parameter, ParameterNames, Lang
  <2>4. TwinAgrees("df_get_connection")
    BY <2>1 DEF TwinAgrees, Twin, ToolAbout,
           ToolOf, Subjects, ConnectionUseCases
  <2>5. KeyAgrees("df_get_connection")
    <3>1. PICK names : names = NamesOf("df_get_connection")
      OBVIOUS
    <3>2. /\ Len(names) = 5 /\ 1..5 = {1, 2, 3, 4, 5}
          /\ names[1] = "project_id" /\ names[2] = "version_id" /\ names[3] = "connection_id"
          /\ names[4] = "language" /\ names[5] = "include_db_schema"
      BY <2>1, <3>1 DEF ModelKeys, ConnectionUseCases
    <3>3. /\ KeyName("df_get_connection") = "connection" /\ Req("df_get_connection") = {"project_id",
             "version_id", "connection_id"}
          /\ Counts("df_get_connection") = {"project_id", "version_id", "connection_id",
             "language", "include_db_schema"}
      BY <2>1 DEF ConnectionSchemas, ConnectionUseCases
    <3> HIDE DEF KeyName, Req, Counts, NamesOf
    <3>4. \A i \in 1..Len(names) :
             names[i] \in Counts("df_get_connection") /\ (names[i] = "search" => i = Len(names))
      BY ONLY <3>2, <3>3
    <3>5. \A n \in Counts("df_get_connection") : \E i \in 1..Len(names) : names[i] = n
      BY ONLY <3>2, <3>3
    <3>6. /\ PV \subseteq Req("df_get_connection") =>
               /\ Len(names) >= 2 /\ names[1] = "project_id" /\ names[2] = "version_id"
               /\ KeyName("df_get_connection") \in Scopes!VersionFamilies
          /\ Req("df_get_connection") = {"project_id"} =>
               names[1] = "project_id" /\ KeyName("df_get_connection") \in Scopes!ProjectFamilies
          /\ Req("df_get_connection") \cap PV = {} => KeyName("df_get_connection") \in Scopes!CompanyFamilies
      BY ONLY <3>2, <3>3 DEF PV, Scopes!VersionFamilies, Scopes!ProjectFamilies,
                             Scopes!CompanyFamilies
    <3>7. KeyName("df_get_connection") \in DOMAIN KeyBuilders /\ Len(names) \in Nat \ {0}
      BY <2>1, <3>2, <3>3
    <3>8. QED  BY ONLY <3>1, <3>4, <3>5, <3>6, <3>7 DEF KeyAgrees
  <2>6. QED  BY <2>b, <2>2, <2>3, <2>4, <2>5
<1>6. Agree("df_get_connection_schema")
  <2>1. /\ Schemas["df_get_connection_schema"] = ConnectionSchemas["df_get_connection_schema"]
        /\ Handlers["df_get_connection_schema"] = ConnectionHandlers["df_get_connection_schema"]
        /\ UseCases["df_get_connection_schema"] = ConnectionUseCases["df_get_connection_schema"]
        /\ Endpoints["get_connection_schema"] = ConnectionEndpoints["get_connection_schema"]
        /\ "connection_schema" \in DOMAIN KeyBuilders /\ KeyBuilders["connection_schema"] = ModelKeys["connection_schema"]
    BY <1>1, <1>2, <1>3 DEF ConnectionEndpoints, ModelKeys
  <2>a. Req("df_get_connection_schema") = PV \cup {"connection_id"} /\ EndpointOf("df_get_connection_schema").ids = InVersion \o <<"connection_id">>
    BY <2>1 DEF ConnectionSchemas, ConnectionUseCases, ConnectionEndpoints
  <2>b. IdsAgree("df_get_connection_schema")
    BY <2>a DEF IdsAgree, EntityIds
  <2>2. HandlerAgrees("df_get_connection_schema")
    BY <2>1 DEF HandlerAgrees, ConnectionSchemas, ConnectionHandlers
  <2>3. QueryAgrees("df_get_connection_schema")
    BY <2>1 DEF QueryAgrees, Flags, Subjects, ParameterNames, Parameter,
           ConnectionSchemas, ConnectionUseCases, ConnectionEndpoints, Lang
  <2>4. TwinAgrees("df_get_connection_schema")
    BY <2>1 DEF TwinAgrees, Twin,
           ToolAbout, ToolOf, Subjects, ConnectionUseCases
  <2>5. KeyAgrees("df_get_connection_schema")
    <3>1. PICK names : names = NamesOf("df_get_connection_schema")
      OBVIOUS
    <3>2. /\ Len(names) = 4 /\ 1..4 = {1, 2, 3, 4}
          /\ names[1] = "project_id" /\ names[2] = "version_id" /\ names[3] = "connection_id"
          /\ names[4] = "language"
      BY <2>1, <3>1 DEF ModelKeys, ConnectionUseCases
    <3>3. /\ KeyName("df_get_connection_schema") = "connection_schema" /\ Req("df_get_connection_schema") = {"project_id",
             "version_id", "connection_id"}
          /\ Counts("df_get_connection_schema") = {"project_id", "version_id",
             "connection_id", "language"}
      BY <2>1 DEF ConnectionSchemas, ConnectionUseCases
    <3> HIDE DEF KeyName, Req, Counts, NamesOf
    <3>4. \A i \in 1..Len(names) :
             names[i] \in Counts("df_get_connection_schema") /\ (names[i] = "search" => i = Len(names))
      BY ONLY <3>2, <3>3
    <3>5. \A n \in Counts("df_get_connection_schema") : \E i \in 1..Len(names) : names[i] = n
      BY ONLY <3>2, <3>3
    <3>6. /\ PV \subseteq Req("df_get_connection_schema") =>
               /\ Len(names) >= 2 /\ names[1] = "project_id" /\ names[2] = "version_id"
               /\ KeyName("df_get_connection_schema") \in Scopes!VersionFamilies
          /\ Req("df_get_connection_schema") = {"project_id"} =>
               names[1] = "project_id" /\ KeyName("df_get_connection_schema") \in Scopes!ProjectFamilies
          /\ Req("df_get_connection_schema") \cap PV = {} => KeyName("df_get_connection_schema") \in Scopes!CompanyFamilies
      BY ONLY <3>2, <3>3 DEF PV, Scopes!VersionFamilies, Scopes!ProjectFamilies,
                             Scopes!CompanyFamilies
    <3>7. KeyName("df_get_connection_schema") \in DOMAIN KeyBuilders /\ Len(names) \in Nat \ {0}
      BY <2>1, <3>2, <3>3
    <3>8. QED  BY ONLY <3>1, <3>4, <3>5, <3>6, <3>7 DEF KeyAgrees
  <2>6. QED  BY <2>b, <2>2, <2>3, <2>4, <2>5
<1> HIDE DEF Agree
<1>7. QED  BY <1>1, <1>4, <1>5, <1>6

LEMMA ModelToolsAgree == \A t \in DOMAIN ModelSchemas : Agree(t)
<1>1. DOMAIN ModelSchemas = {"df_list_dimension_groups", "df_get_dimension_group",
          "df_list_fact_tables", "df_get_fact_table", "df_list_relationships",
          "df_get_relationship"}
  BY DEF ModelSchemas
<1>2. /\ \A t \in DOMAIN ModelSchemas :
            Schemas[t] = ModelSchemas[t] /\ Handlers[t] = ModelHandlers[t] /\ UseCases[t] = ModelUseCases[t]
      /\ \A x \in DOMAIN ModelEndpoints : Endpoints[x] = ModelEndpoints[x]
  BY <1>1, SchemaRows, HandlerRows, UseCaseRows, EndpointRows DEF ModelHandlers, ModelUseCases
<1>3. \A x \in DOMAIN ModelKeys : x \in DOMAIN KeyBuilders /\ KeyBuilders[x] = ModelKeys[x]
  BY KeyRows
<1> USE DEF Agree, Req, Opt, Counts, KeyName, NamesOf, EndpointOf, DefaultNames, Defaults,
            PV, Paging, Schema, Uses, Get
<1>4. Agree("df_list_dimension_groups")
  <2>1. /\ Schemas["df_list_dimension_groups"] = ModelSchemas["df_list_dimension_groups"]
        /\ Handlers["df_list_dimension_groups"] = ModelHandlers["df_list_dimension_groups"]
        /\ UseCases["df_list_dimension_groups"] = ModelUseCases["df_list_dimension_groups"]
        /\ Endpoints["get_dimension_groups"] = ModelEndpoints["get_dimension_groups"]
        /\ "dimension_groups" \in DOMAIN KeyBuilders /\ KeyBuilders["dimension_groups"] = ModelKeys["dimension_groups"]
    BY <1>1, <1>2, <1>3 DEF ModelEndpoints, ModelKeys
  <2>2. HandlerAgrees("df_list_dimension_groups") /\ IdsAgree("df_list_dimension_groups")
    BY <2>1 DEF HandlerAgrees, IdsAgree, EntityIds, ModelSchemas, ModelHandlers,
                ModelUseCases, ModelEndpoints
  <2>3. QueryAgrees("df_list_dimension_groups")
    <3>1. PICK q : q = Lang ++ Paged
      OBVIOUS
    <3>2. /\ DOMAIN q = {"language", "page", "pageSize"}
          /\ q["language"] = "language"
          /\ q["page"] = "page"
          /\ q["pageSize"] = "page_size"
      BY <3>1, LangAndPage
    <3>3. ModelEndpoints["get_dimension_groups"].query = q
      BY <3>1 DEF ModelEndpoints
    <3>4. /\ EndpointOf("df_list_dimension_groups").query = q
          /\ EndpointOf("df_list_dimension_groups").resource = "dimension-groups"
          /\ EndpointOf("df_list_dimension_groups").flags = {}
          /\ Subjects["df_list_dimension_groups"] = "dimension-groups"
      BY <2>1, <3>3 DEF Subjects, ModelUseCases, ModelEndpoints
    <3>5. Opt("df_list_dimension_groups") = {"language", "page", "page_size"}
      BY <2>1 DEF ModelSchemas
    <3>6. QED  BY ONLY <3>2, <3>4, <3>5 DEF QueryAgrees, Flags, Parameter, ParameterNames
  <2>4. TwinAgrees("df_list_dimension_groups")
    BY <2>1 DEF TwinAgrees, Twin,
           ToolAbout, ToolOf, Subjects, ModelUseCases
  <2>5. KeyAgrees("df_list_dimension_groups")
    <3>1. PICK names : names = NamesOf("df_list_dimension_groups")
      OBVIOUS
    <3>2. /\ Len(names) = 5 /\ 1..5 = {1, 2, 3, 4, 5}
          /\ names[1] = "project_id" /\ names[2] = "version_id" /\ names[3] = "language"
          /\ names[4] = "page" /\ names[5] = "page_size"
      BY <2>1, <3>1 DEF ModelKeys, ModelUseCases, PVL
    <3>3. /\ KeyName("df_list_dimension_groups") = "dimension_groups" /\ Req("df_list_dimension_groups") = {"project_id",
             "version_id"}
          /\ Counts("df_list_dimension_groups") = {"project_id", "version_id",
             "language", "page", "page_size"}
      BY <2>1 DEF ModelSchemas, ModelUseCases
    <3> HIDE DEF KeyName, Req, Counts, NamesOf
    <3>4. \A i \in 1..Len(names) :
             names[i] \in Counts("df_list_dimension_groups") /\ (names[i] = "search" => i = Len(names))
      BY ONLY <3>2, <3>3
    <3>5. \A n \in Counts("df_list_dimension_groups") : \E i \in 1..Len(names) : names[i] = n
      BY ONLY <3>2, <3>3
    <3>6. /\ PV \subseteq Req("df_list_dimension_groups") =>
               /\ Len(names) >= 2 /\ names[1] = "project_id" /\ names[2] = "version_id"
               /\ KeyName("df_list_dimension_groups") \in Scopes!VersionFamilies
          /\ Req("df_list_dimension_groups") = {"project_id"} =>
               names[1] = "project_id" /\ KeyName("df_list_dimension_groups") \in Scopes!ProjectFamilies
          /\ Req("df_list_dimension_groups") \cap PV = {} => KeyName("df_list_dimension_groups") \in Scopes!CompanyFamilies
      BY ONLY <3>2, <3>3 DEF PV, Scopes!VersionFamilies, Scopes!ProjectFamilies,
                             Scopes!CompanyFamilies
    <3>7. KeyName("df_list_dimension_groups") \in DOMAIN KeyBuilders /\ Len(names) \in Nat \ {0}
      BY <2>1, <3>2, <3>3
    <3>8. QED  BY ONLY <3>1, <3>4, <3>5, <3>6, <3>7 DEF KeyAgrees
  <2>6. QED  BY <2>2, <2>3, <2>4, <2>5
<1>5. Agree("df_get_dimension_group")
  <2>1. /\ Schemas["df_get_dimension_group"] = ModelSchemas["df_get_dimension_group"]
        /\ Handlers["df_get_dimension_group"] = ModelHandlers["df_get_dimension_group"]
        /\ UseCases["df_get_dimension_group"] = ModelUseCases["df_get_dimension_group"]
        /\ Endpoints["get_dimension_group"] = ModelEndpoints["get_dimension_group"]
        /\ "dimension_group" \in DOMAIN KeyBuilders /\ KeyBuilders["dimension_group"] = ModelKeys["dimension_group"]
    BY <1>1, <1>2, <1>3 DEF ModelEndpoints, ModelKeys
  <2>a. Req("df_get_dimension_group") = PV \cup {"dimension_group_id"} /\ EndpointOf("df_get_dimension_group").ids = InVersion \o <<"dimension_group_id">>
    BY <2>1 DEF ModelSchemas, ModelUseCases, ModelEndpoints
  <2>b. IdsAgree("df_get_dimension_group")
    BY <2>a DEF IdsAgree, EntityIds
  <2>2. HandlerAgrees("df_get_dimension_group")
    BY <2>1 DEF HandlerAgrees, ModelSchemas, ModelHandlers
  <2>3. QueryAgrees("df_get_dimension_group")
    BY <2>1 DEF QueryAgrees, Flags, Subjects, ParameterNames, Parameter, ModelSchemas,
           ModelUseCases, ModelEndpoints, Lang
  <2>4. TwinAgrees("df_get_dimension_group")
    BY <2>1 DEF TwinAgrees, Twin,
           ToolAbout, ToolOf, Subjects, ModelUseCases
  <2>5. KeyAgrees("df_get_dimension_group")
    <3>1. PICK names : names = NamesOf("df_get_dimension_group")
      OBVIOUS
    <3>2. /\ Len(names) = 4 /\ 1..4 = {1, 2, 3, 4}
          /\ names[1] = "project_id" /\ names[2] = "version_id" /\ names[3] = "dimension_group_id"
          /\ names[4] = "language"
      BY <2>1, <3>1 DEF ModelKeys, ModelUseCases
    <3>3. /\ KeyName("df_get_dimension_group") = "dimension_group" /\ Req("df_get_dimension_group") = {"project_id",
             "version_id", "dimension_group_id"}
          /\ Counts("df_get_dimension_group") = {"project_id", "version_id",
             "dimension_group_id", "language"}
      BY <2>1 DEF ModelSchemas, ModelUseCases
    <3> HIDE DEF KeyName, Req, Counts, NamesOf
    <3>4. \A i \in 1..Len(names) :
             names[i] \in Counts("df_get_dimension_group") /\ (names[i] = "search" => i = Len(names))
      BY ONLY <3>2, <3>3
    <3>5. \A n \in Counts("df_get_dimension_group") : \E i \in 1..Len(names) : names[i] = n
      BY ONLY <3>2, <3>3
    <3>6. /\ PV \subseteq Req("df_get_dimension_group") =>
               /\ Len(names) >= 2 /\ names[1] = "project_id" /\ names[2] = "version_id"
               /\ KeyName("df_get_dimension_group") \in Scopes!VersionFamilies
          /\ Req("df_get_dimension_group") = {"project_id"} =>
               names[1] = "project_id" /\ KeyName("df_get_dimension_group") \in Scopes!ProjectFamilies
          /\ Req("df_get_dimension_group") \cap PV = {} => KeyName("df_get_dimension_group") \in Scopes!CompanyFamilies
      BY ONLY <3>2, <3>3 DEF PV, Scopes!VersionFamilies, Scopes!ProjectFamilies,
                             Scopes!CompanyFamilies
    <3>7. KeyName("df_get_dimension_group") \in DOMAIN KeyBuilders /\ Len(names) \in Nat \ {0}
      BY <2>1, <3>2, <3>3
    <3>8. QED  BY ONLY <3>1, <3>4, <3>5, <3>6, <3>7 DEF KeyAgrees
  <2>6. QED  BY <2>b, <2>2, <2>3, <2>4, <2>5
<1>6. Agree("df_list_fact_tables")
  <2>1. /\ Schemas["df_list_fact_tables"] = ModelSchemas["df_list_fact_tables"]
        /\ Handlers["df_list_fact_tables"] = ModelHandlers["df_list_fact_tables"]
        /\ UseCases["df_list_fact_tables"] = ModelUseCases["df_list_fact_tables"]
        /\ Endpoints["get_fact_tables"] = ModelEndpoints["get_fact_tables"]
        /\ "fact_tables" \in DOMAIN KeyBuilders /\ KeyBuilders["fact_tables"] = ModelKeys["fact_tables"]
    BY <1>1, <1>2, <1>3 DEF ModelEndpoints, ModelKeys
  <2>2. HandlerAgrees("df_list_fact_tables") /\ IdsAgree("df_list_fact_tables")
    BY <2>1 DEF HandlerAgrees, IdsAgree, EntityIds, ModelSchemas, ModelHandlers,
                ModelUseCases, ModelEndpoints
  <2>3. QueryAgrees("df_list_fact_tables")
    <3>1. PICK q : q = Lang ++ Paged
      OBVIOUS
    <3>2. /\ DOMAIN q = {"language", "page", "pageSize"}
          /\ q["language"] = "language"
          /\ q["page"] = "page"
          /\ q["pageSize"] = "page_size"
      BY <3>1, LangAndPage
    <3>3. ModelEndpoints["get_fact_tables"].query = q
      BY <3>1 DEF ModelEndpoints
    <3>4. /\ EndpointOf("df_list_fact_tables").query = q
          /\ EndpointOf("df_list_fact_tables").resource = "fact-tables"
          /\ EndpointOf("df_list_fact_tables").flags = {}
          /\ Subjects["df_list_fact_tables"] = "fact-tables"
      BY <2>1, <3>3 DEF Subjects, ModelUseCases, ModelEndpoints
    <3>5. Opt("df_list_fact_tables") = {"language", "page", "page_size"}
      BY <2>1 DEF ModelSchemas
    <3>6. QED  BY ONLY <3>2, <3>4, <3>5 DEF QueryAgrees, Flags, Parameter, ParameterNames
  <2>4. TwinAgrees("df_list_fact_tables")
    BY <2>1 DEF TwinAgrees, Twin, ToolAbout,
           ToolOf, Subjects, ModelUseCases
  <2>5. KeyAgrees("df_list_fact_tables")
    <3>1. PICK names : names = NamesOf("df_list_fact_tables")
      OBVIOUS
    <3>2. /\ Len(names) = 5 /\ 1..5 = {1, 2, 3, 4, 5}
          /\ names[1] = "project_id" /\ names[2] = "version_id" /\ names[3] = "language"
          /\ names[4] = "page" /\ names[5] = "page_size"
      BY <2>1, <3>1 DEF ModelKeys, ModelUseCases, PVL
    <3>3. /\ KeyName("df_list_fact_tables") = "fact_tables" /\ Req("df_list_fact_tables") = {"project_id",
             "version_id"}
          /\ Counts("df_list_fact_tables") = {"project_id", "version_id", "language",
             "page", "page_size"}
      BY <2>1 DEF ModelSchemas, ModelUseCases
    <3> HIDE DEF KeyName, Req, Counts, NamesOf
    <3>4. \A i \in 1..Len(names) :
             names[i] \in Counts("df_list_fact_tables") /\ (names[i] = "search" => i = Len(names))
      BY ONLY <3>2, <3>3
    <3>5. \A n \in Counts("df_list_fact_tables") : \E i \in 1..Len(names) : names[i] = n
      BY ONLY <3>2, <3>3
    <3>6. /\ PV \subseteq Req("df_list_fact_tables") =>
               /\ Len(names) >= 2 /\ names[1] = "project_id" /\ names[2] = "version_id"
               /\ KeyName("df_list_fact_tables") \in Scopes!VersionFamilies
          /\ Req("df_list_fact_tables") = {"project_id"} =>
               names[1] = "project_id" /\ KeyName("df_list_fact_tables") \in Scopes!ProjectFamilies
          /\ Req("df_list_fact_tables") \cap PV = {} => KeyName("df_list_fact_tables") \in Scopes!CompanyFamilies
      BY ONLY <3>2, <3>3 DEF PV, Scopes!VersionFamilies, Scopes!ProjectFamilies,
                             Scopes!CompanyFamilies
    <3>7. KeyName("df_list_fact_tables") \in DOMAIN KeyBuilders /\ Len(names) \in Nat \ {0}
      BY <2>1, <3>2, <3>3
    <3>8. QED  BY ONLY <3>1, <3>4, <3>5, <3>6, <3>7 DEF KeyAgrees
  <2>6. QED  BY <2>2, <2>3, <2>4, <2>5
<1>7. Agree("df_get_fact_table")
  <2>1. /\ Schemas["df_get_fact_table"] = ModelSchemas["df_get_fact_table"]
        /\ Handlers["df_get_fact_table"] = ModelHandlers["df_get_fact_table"]
        /\ UseCases["df_get_fact_table"] = ModelUseCases["df_get_fact_table"]
        /\ Endpoints["get_fact_table"] = ModelEndpoints["get_fact_table"]
        /\ "fact_table" \in DOMAIN KeyBuilders /\ KeyBuilders["fact_table"] = ModelKeys["fact_table"]
    BY <1>1, <1>2, <1>3 DEF ModelEndpoints, ModelKeys
  <2>a. Req("df_get_fact_table") = PV \cup {"fact_table_id"} /\ EndpointOf("df_get_fact_table").ids = InVersion \o <<"fact_table_id">>
    BY <2>1 DEF ModelSchemas, ModelUseCases, ModelEndpoints
  <2>b. IdsAgree("df_get_fact_table")
    BY <2>a DEF IdsAgree, EntityIds
  <2>2. HandlerAgrees("df_get_fact_table")
    BY <2>1 DEF HandlerAgrees, ModelSchemas, ModelHandlers
  <2>3. QueryAgrees("df_get_fact_table")
    <3>1. /\ EndpointOf("df_get_fact_table").query = Lang
          /\ EndpointOf("df_get_fact_table").resource = "fact-tables/*"
          /\ EndpointOf("df_get_fact_table").flags = {"include_dependencies"}
          /\ Subjects["df_get_fact_table"] = "fact-tables/*"
      BY <2>1 DEF Subjects, ModelUseCases, ModelEndpoints
    <3>2. Opt("df_get_fact_table") = {"language", "include_dependencies"}
      BY <2>1 DEF ModelSchemas
    <3>3. QED  BY ONLY <3>1, <3>2 DEF QueryAgrees, Flags, Parameter, ParameterNames, Lang
  <2>4. TwinAgrees("df_get_fact_table")
    BY <2>1 DEF TwinAgrees, Twin, ToolAbout,
           ToolOf, Subjects, ModelUseCases
  <2>5. KeyAgrees("df_get_fact_table")
    <3>1. PICK names : names = NamesOf("df_get_fact_table")
      OBVIOUS
    <3>2. /\ Len(names) = 5 /\ 1..5 = {1, 2, 3, 4, 5}
          /\ names[1] = "project_id" /\ names[2] = "version_id" /\ names[3] = "fact_table_id"
          /\ names[4] = "language" /\ names[5] = "include_dependencies"
      BY <2>1, <3>1 DEF ModelKeys, ModelUseCases
    <3>3. /\ KeyName("df_get_fact_table") = "fact_table" /\ Req("df_get_fact_table") = {"project_id",
             "version_id", "fact_table_id"}
          /\ Counts("df_get_fact_table") = {"project_id", "version_id", "fact_table_id",
             "language", "include_dependencies"}
      BY <2>1 DEF ModelSchemas, ModelUseCases
    <3> HIDE DEF KeyName, Req, Counts, NamesOf
    <3>4. \A i \in 1..Len(names) :
             names[i] \in Counts("df_get_fact_table") /\ (names[i] = "search" => i = Len(names))
      BY ONLY <3>2, <3>3
    <3>5. \A n \in Counts("df_get_fact_table") : \E i \in 1..Len(names) : names[i] = n
      BY ONLY <3>2, <3>3
    <3>6. /\ PV \subseteq Req("df_get_fact_table") =>
               /\ Len(names) >= 2 /\ names[1] = "project_id" /\ names[2] = "version_id"
               /\ KeyName("df_get_fact_table") \in Scopes!VersionFamilies
          /\ Req("df_get_fact_table") = {"project_id"} =>
               names[1] = "project_id" /\ KeyName("df_get_fact_table") \in Scopes!ProjectFamilies
          /\ Req("df_get_fact_table") \cap PV = {} => KeyName("df_get_fact_table") \in Scopes!CompanyFamilies
      BY ONLY <3>2, <3>3 DEF PV, Scopes!VersionFamilies, Scopes!ProjectFamilies,
                             Scopes!CompanyFamilies
    <3>7. KeyName("df_get_fact_table") \in DOMAIN KeyBuilders /\ Len(names) \in Nat \ {0}
      BY <2>1, <3>2, <3>3
    <3>8. QED  BY ONLY <3>1, <3>4, <3>5, <3>6, <3>7 DEF KeyAgrees
  <2>6. QED  BY <2>b, <2>2, <2>3, <2>4, <2>5
<1>8. Agree("df_list_relationships")
  <2>1. /\ Schemas["df_list_relationships"] = ModelSchemas["df_list_relationships"]
        /\ Handlers["df_list_relationships"] = ModelHandlers["df_list_relationships"]
        /\ UseCases["df_list_relationships"] = ModelUseCases["df_list_relationships"]
        /\ Endpoints["get_relationships"] = ModelEndpoints["get_relationships"]
        /\ "relationships" \in DOMAIN KeyBuilders /\ KeyBuilders["relationships"] = ModelKeys["relationships"]
    BY <1>1, <1>2, <1>3 DEF ModelEndpoints, ModelKeys
  <2>2. HandlerAgrees("df_list_relationships") /\ IdsAgree("df_list_relationships")
    BY <2>1 DEF HandlerAgrees, IdsAgree, EntityIds, ModelSchemas, ModelHandlers,
                ModelUseCases, ModelEndpoints
  <2>3. QueryAgrees("df_list_relationships")
    <3>1. PICK q, f, g : q = f ++ g /\ f = Lang ++ Paged
                          /\ g = [fact_table_id |-> "fact_table_id", dimension_group_id |-> "dimension_group_id"]
      OBVIOUS
    <3>a. /\ DOMAIN f = {"language", "page", "pageSize"}
          /\ f["language"] = "language"
          /\ f["page"] = "page"
          /\ f["pageSize"] = "page_size"
      BY <3>1, LangAndPage
    <3>b. /\ DOMAIN g = {"fact_table_id", "dimension_group_id"}
          /\ g["fact_table_id"] = "fact_table_id"
          /\ g["dimension_group_id"] = "dimension_group_id"
      BY <3>1
    <3>2. /\ DOMAIN q = {"language", "page", "pageSize", "fact_table_id",
                     "dimension_group_id"}
          /\ q["language"] = "language"
          /\ q["page"] = "page"
          /\ q["pageSize"] = "page_size"
          /\ q["fact_table_id"] = "fact_table_id"
          /\ q["dimension_group_id"] = "dimension_group_id"
      <4>1. q = f ++ g
        BY <3>1
      <4>2. /\ DOMAIN q = DOMAIN f \cup DOMAIN g
            /\ \A x \in DOMAIN f : q[x] = f[x]
            /\ \A x \in DOMAIN g : x \notin DOMAIN f => q[x] = g[x]
        BY ONLY <4>1 DEF ++
      <4>3. QED  BY ONLY <3>a, <3>b, <4>2
    <3>3. ModelEndpoints["get_relationships"].query = q
      BY <3>1 DEF ModelEndpoints
    <3>4. /\ EndpointOf("df_list_relationships").query = q
          /\ EndpointOf("df_list_relationships").resource = "relationships"
          /\ EndpointOf("df_list_relationships").flags = {}
          /\ Subjects["df_list_relationships"] = "relationships"
      BY <2>1, <3>3 DEF Subjects, ModelUseCases, ModelEndpoints
    <3>5. Opt("df_list_relationships") = {"language", "page", "page_size",
            "fact_table_id", "dimension_group_id"}
      BY <2>1 DEF ModelSchemas
    <3>6. QED  BY ONLY <3>2, <3>4, <3>5 DEF QueryAgrees, Flags, Parameter, ParameterNames
  <2>4. TwinAgrees("df_list_relationships")
    BY <2>1 DEF TwinAgrees, Twin, ToolAbout,
           ToolOf, Subjects, ModelUseCases
  <2>5. KeyAgrees("df_list_relationships")
    <3>1. PICK names : names = NamesOf("df_list_relationships")
      OBVIOUS
    <3>2. /\ Len(names) = 7 /\ 1..7 = {1, 2, 3, 4, 5, 6, 7}
          /\ names[1] = "project_id" /\ names[2] = "version_id" /\ names[3] = "language"
          /\ names[4] = "page" /\ names[5] = "page_size" /\ names[6] = "fact_table_id"
          /\ names[7] = "dimension_group_id"
      BY <2>1, <3>1 DEF ModelKeys, ModelUseCases, PVL
    <3>3. /\ KeyName("df_list_relationships") = "relationships" /\ Req("df_list_relationships") = {"project_id",
             "version_id"}
          /\ Counts("df_list_relationships") = {"project_id", "version_id", "language",
             "page", "page_size", "fact_table_id", "dimension_group_id"}
      BY <2>1 DEF ModelSchemas, ModelUseCases
    <3> HIDE DEF KeyName, Req, Counts, NamesOf
    <3>4. \A i \in 1..Len(names) :
             names[i] \in Counts("df_list_relationships") /\ (names[i] = "search" => i = Len(names))
      BY ONLY <3>2, <3>3
    <3>5. \A n \in Counts("df_list_relationships") : \E i \in 1..Len(names) : names[i] = n
      BY ONLY <3>2, <3>3
    <3>6. /\ PV \subseteq Req("df_list_relationships") =>
               /\ Len(names) >= 2 /\ names[1] = "project_id" /\ names[2] = "version_id"
               /\ KeyName("df_list_relationships") \in Scopes!VersionFamilies
          /\ Req("df_list_relationships") = {"project_id"} =>
               names[1] = "project_id" /\ KeyName("df_list_relationships") \in Scopes!ProjectFamilies
          /\ Req("df_list_relationships") \cap PV = {} => KeyName("df_list_relationships") \in Scopes!CompanyFamilies
      BY ONLY <3>2, <3>3 DEF PV, Scopes!VersionFamilies, Scopes!ProjectFamilies,
                             Scopes!CompanyFamilies
    <3>7. KeyName("df_list_relationships") \in DOMAIN KeyBuilders /\ Len(names) \in Nat \ {0}
      BY <2>1, <3>2, <3>3
    <3>8. QED  BY ONLY <3>1, <3>4, <3>5, <3>6, <3>7 DEF KeyAgrees
  <2>6. QED  BY <2>2, <2>3, <2>4, <2>5
<1>9. Agree("df_get_relationship")
  <2>1. /\ Schemas["df_get_relationship"] = ModelSchemas["df_get_relationship"]
        /\ Handlers["df_get_relationship"] = ModelHandlers["df_get_relationship"]
        /\ UseCases["df_get_relationship"] = ModelUseCases["df_get_relationship"]
        /\ Endpoints["get_relationship"] = ModelEndpoints["get_relationship"]
        /\ "relationship" \in DOMAIN KeyBuilders /\ KeyBuilders["relationship"] = ModelKeys["relationship"]
    BY <1>1, <1>2, <1>3 DEF ModelEndpoints, ModelKeys
  <2>a. Req("df_get_relationship") = PV \cup {"relationship_id"} /\ EndpointOf("df_get_relationship").ids = InVersion \o <<"relationship_id">>
    BY <2>1 DEF ModelSchemas, ModelUseCases, ModelEndpoints
  <2>b. IdsAgree("df_get_relationship")
    BY <2>a DEF IdsAgree, EntityIds
  <2>2. HandlerAgrees("df_get_relationship")
    BY <2>1 DEF HandlerAgrees, ModelSchemas, ModelHandlers
  <2>3. QueryAgrees("df_get_relationship")
    BY <2>1 DEF QueryAgrees, Flags, Subjects, ParameterNames, Parameter, ModelSchemas,
           ModelUseCases, ModelEndpoints, Lang
  <2>4. TwinAgrees("df_get_relationship")
    BY <2>1 DEF TwinAgrees, Twin, ToolAbout,
           ToolOf, Subjects, ModelUseCases
  <2>5. KeyAgrees("df_get_relationship")
    <3>1. PICK names : names = NamesOf("df_get_relationship")
      OBVIOUS
    <3>2. /\ Len(names) = 4 /\ 1..4 = {1, 2, 3, 4}
          /\ names[1] = "project_id" /\ names[2] = "version_id" /\ names[3] = "relationship_id"
          /\ names[4] = "language"
      BY <2>1, <3>1 DEF ModelKeys, ModelUseCases
    <3>3. /\ KeyName("df_get_relationship") = "relationship" /\ Req("df_get_relationship") = {"project_id",
             "version_id", "relationship_id"}
          /\ Counts("df_get_relationship") = {"project_id", "version_id",
             "relationship_id", "language"}
      BY <2>1 DEF ModelSchemas, ModelUseCases
    <3> HIDE DEF KeyName, Req, Counts, NamesOf
    <3>4. \A i \in 1..Len(names) :
             names[i] \in Counts("df_get_relationship") /\ (names[i] = "search" => i = Len(names))
      BY ONLY <3>2, <3>3
    <3>5. \A n \in Counts("df_get_relationship") : \E i \in 1..Len(names) : names[i] = n
      BY ONLY <3>2, <3>3
    <3>6. /\ PV \subseteq Req("df_get_relationship") =>
               /\ Len(names) >= 2 /\ names[1] = "project_id" /\ names[2] = "version_id"
               /\ KeyName("df_get_relationship") \in Scopes!VersionFamilies
          /\ Req("df_get_relationship") = {"project_id"} =>
               names[1] = "project_id" /\ KeyName("df_get_relationship") \in Scopes!ProjectFamilies
          /\ Req("df_get_relationship") \cap PV = {} => KeyName("df_get_relationship") \in Scopes!CompanyFamilies
      BY ONLY <3>2, <3>3 DEF PV, Scopes!VersionFamilies, Scopes!ProjectFamilies,
                             Scopes!CompanyFamilies
    <3>7. KeyName("df_get_relationship") \in DOMAIN KeyBuilders /\ Len(names) \in Nat \ {0}
      BY <2>1, <3>2, <3>3
    <3>8. QED  BY ONLY <3>1, <3>4, <3>5, <3>6, <3>7 DEF KeyAgrees
  <2>6. QED  BY <2>b, <2>2, <2>3, <2>4, <2>5
<1> HIDE DEF Agree
<1>10. QED  BY <1>1, <1>4, <1>5, <1>6, <1>7, <1>8, <1>9

LEMMA RegistryToolsAgree == \A t \in DOMAIN RegistrySchemas : Agree(t)
<1>1. DOMAIN RegistrySchemas = {"df_get_project_access", "df_list_git_connections",
          "df_get_git_connection"}
  BY DEF RegistrySchemas
<1>2. /\ \A t \in DOMAIN RegistrySchemas :
            Schemas[t] = RegistrySchemas[t] /\ Handlers[t] = RegistryHandlers[t] /\ UseCases[t] = RegistryUseCases[t]
      /\ \A x \in DOMAIN RegistryEndpoints : Endpoints[x] = RegistryEndpoints[x]
  BY <1>1, SchemaRows, HandlerRows, UseCaseRows, EndpointRows DEF RegistryHandlers, RegistryUseCases
<1>3. \A x \in DOMAIN RegistryKeys : x \in DOMAIN KeyBuilders /\ KeyBuilders[x] = RegistryKeys[x]
  BY KeyRows
<1> USE DEF Agree, Req, Opt, Counts, KeyName, NamesOf, EndpointOf, DefaultNames, Defaults,
            PV, Paging, Schema, Uses, Get
<1>4. Agree("df_get_project_access")
  <2>1. /\ Schemas["df_get_project_access"] = RegistrySchemas["df_get_project_access"]
        /\ Handlers["df_get_project_access"] = RegistryHandlers["df_get_project_access"]
        /\ UseCases["df_get_project_access"] = RegistryUseCases["df_get_project_access"]
        /\ Endpoints["get_project_access"] = RegistryEndpoints["get_project_access"]
        /\ "project_access" \in DOMAIN KeyBuilders /\ KeyBuilders["project_access"] = RegistryKeys["project_access"]
    BY <1>1, <1>2, <1>3 DEF RegistryEndpoints, RegistryKeys
  <2>2. HandlerAgrees("df_get_project_access") /\ IdsAgree("df_get_project_access")
    BY <2>1 DEF HandlerAgrees, IdsAgree, EntityIds, RegistrySchemas, RegistryHandlers,
                RegistryUseCases, RegistryEndpoints
  <2>3. QueryAgrees("df_get_project_access")
    BY <2>1 DEF QueryAgrees, Flags, Subjects, ParameterNames, Parameter,
           RegistrySchemas, RegistryUseCases, RegistryEndpoints, Lang
  <2>4. TwinAgrees("df_get_project_access")
    BY <2>1 DEF TwinAgrees, Twin, ToolAbout,
           ToolOf, Subjects, RegistryUseCases
  <2>5. KeyAgrees("df_get_project_access")
    <3>1. PICK names : names = NamesOf("df_get_project_access")
      OBVIOUS
    <3>2. /\ Len(names) = 2 /\ 1..2 = {1, 2}
          /\ names[1] = "project_id" /\ names[2] = "language"
      BY <2>1, <3>1 DEF RegistryKeys, RegistryUseCases
    <3>3. /\ KeyName("df_get_project_access") = "project_access" /\ Req("df_get_project_access") = {"project_id"}
          /\ Counts("df_get_project_access") = {"project_id", "language"}
      BY <2>1 DEF RegistrySchemas, RegistryUseCases
    <3> HIDE DEF KeyName, Req, Counts, NamesOf
    <3>4. \A i \in 1..Len(names) :
             names[i] \in Counts("df_get_project_access") /\ (names[i] = "search" => i = Len(names))
      BY ONLY <3>2, <3>3
    <3>5. \A n \in Counts("df_get_project_access") : \E i \in 1..Len(names) : names[i] = n
      BY ONLY <3>2, <3>3
    <3>6. /\ PV \subseteq Req("df_get_project_access") =>
               /\ Len(names) >= 2 /\ names[1] = "project_id" /\ names[2] = "version_id"
               /\ KeyName("df_get_project_access") \in Scopes!VersionFamilies
          /\ Req("df_get_project_access") = {"project_id"} =>
               names[1] = "project_id" /\ KeyName("df_get_project_access") \in Scopes!ProjectFamilies
          /\ Req("df_get_project_access") \cap PV = {} => KeyName("df_get_project_access") \in Scopes!CompanyFamilies
      BY ONLY <3>2, <3>3 DEF PV, Scopes!VersionFamilies, Scopes!ProjectFamilies,
                             Scopes!CompanyFamilies
    <3>7. KeyName("df_get_project_access") \in DOMAIN KeyBuilders /\ Len(names) \in Nat \ {0}
      BY <2>1, <3>2, <3>3
    <3>8. QED  BY ONLY <3>1, <3>4, <3>5, <3>6, <3>7 DEF KeyAgrees
  <2>6. QED  BY <2>2, <2>3, <2>4, <2>5
<1>5. Agree("df_list_git_connections")
  <2>1. /\ Schemas["df_list_git_connections"] = RegistrySchemas["df_list_git_connections"]
        /\ Handlers["df_list_git_connections"] = RegistryHandlers["df_list_git_connections"]
        /\ UseCases["df_list_git_connections"] = RegistryUseCases["df_list_git_connections"]
        /\ Endpoints["list_git_connections"] = RegistryEndpoints["list_git_connections"]
        /\ "git_connections" \in DOMAIN KeyBuilders /\ KeyBuilders["git_connections"] = RegistryKeys["git_connections"]
    BY <1>1, <1>2, <1>3 DEF RegistryEndpoints, RegistryKeys
  <2>2. HandlerAgrees("df_list_git_connections") /\ IdsAgree("df_list_git_connections")
    BY <2>1 DEF HandlerAgrees, IdsAgree, EntityIds, RegistrySchemas, RegistryHandlers,
                RegistryUseCases, RegistryEndpoints
  <2>3. QueryAgrees("df_list_git_connections")
    BY <2>1 DEF QueryAgrees, Flags, Subjects, ParameterNames, Parameter,
           RegistrySchemas, RegistryUseCases, RegistryEndpoints, Paged
  <2>4. TwinAgrees("df_list_git_connections")
    BY <2>1 DEF TwinAgrees, Twin,
           ToolAbout, ToolOf, Subjects, RegistryUseCases
  <2>5. KeyAgrees("df_list_git_connections")
    <3>1. PICK names : names = NamesOf("df_list_git_connections")
      OBVIOUS
    <3>2. /\ Len(names) = 2 /\ 1..2 = {1, 2}
          /\ names[1] = "page" /\ names[2] = "page_size"
      BY <2>1, <3>1 DEF RegistryKeys, RegistryUseCases
    <3>3. /\ KeyName("df_list_git_connections") = "git_connections" /\ Req("df_list_git_connections") = {}
          /\ Counts("df_list_git_connections") = {"page", "page_size"}
      BY <2>1 DEF RegistrySchemas, RegistryUseCases
    <3> HIDE DEF KeyName, Req, Counts, NamesOf
    <3>4. \A i \in 1..Len(names) :
             names[i] \in Counts("df_list_git_connections") /\ (names[i] = "search" => i = Len(names))
      BY ONLY <3>2, <3>3
    <3>5. \A n \in Counts("df_list_git_connections") : \E i \in 1..Len(names) : names[i] = n
      BY ONLY <3>2, <3>3
    <3>6. /\ PV \subseteq Req("df_list_git_connections") =>
               /\ Len(names) >= 2 /\ names[1] = "project_id" /\ names[2] = "version_id"
               /\ KeyName("df_list_git_connections") \in Scopes!VersionFamilies
          /\ Req("df_list_git_connections") = {"project_id"} =>
               names[1] = "project_id" /\ KeyName("df_list_git_connections") \in Scopes!ProjectFamilies
          /\ Req("df_list_git_connections") \cap PV = {} => KeyName("df_list_git_connections") \in Scopes!CompanyFamilies
      BY ONLY <3>2, <3>3 DEF PV, Scopes!VersionFamilies, Scopes!ProjectFamilies,
                             Scopes!CompanyFamilies
    <3>7. KeyName("df_list_git_connections") \in DOMAIN KeyBuilders /\ Len(names) \in Nat \ {0}
      BY <2>1, <3>2, <3>3
    <3>8. QED  BY ONLY <3>1, <3>4, <3>5, <3>6, <3>7 DEF KeyAgrees
  <2>6. QED  BY <2>2, <2>3, <2>4, <2>5
<1>6. Agree("df_get_git_connection")
  <2>1. /\ Schemas["df_get_git_connection"] = RegistrySchemas["df_get_git_connection"]
        /\ Handlers["df_get_git_connection"] = RegistryHandlers["df_get_git_connection"]
        /\ UseCases["df_get_git_connection"] = RegistryUseCases["df_get_git_connection"]
        /\ Endpoints["get_git_connection"] = RegistryEndpoints["get_git_connection"]
        /\ "git_connection" \in DOMAIN KeyBuilders /\ KeyBuilders["git_connection"] = RegistryKeys["git_connection"]
    BY <1>1, <1>2, <1>3 DEF RegistryEndpoints, RegistryKeys
  <2>2. HandlerAgrees("df_get_git_connection") /\ IdsAgree("df_get_git_connection")
    BY <2>1 DEF HandlerAgrees, IdsAgree, EntityIds, RegistrySchemas, RegistryHandlers,
                RegistryUseCases, RegistryEndpoints
  <2>3. QueryAgrees("df_get_git_connection")
    BY <2>1 DEF QueryAgrees, Flags, Subjects, ParameterNames, Parameter,
           RegistrySchemas, RegistryUseCases, RegistryEndpoints, NoQuery
  <2>4. TwinAgrees("df_get_git_connection")
    BY <2>1 DEF TwinAgrees, Twin, ToolAbout,
           ToolOf, Subjects, RegistryUseCases
  <2>5. KeyAgrees("df_get_git_connection")
    <3>1. PICK names : names = NamesOf("df_get_git_connection")
      OBVIOUS
    <3>2. /\ Len(names) = 1 /\ 1..1 = {1}
          /\ names[1] = "connection_id"
      BY <2>1, <3>1 DEF RegistryKeys, RegistryUseCases
    <3>3. /\ KeyName("df_get_git_connection") = "git_connection" /\ Req("df_get_git_connection") = {"connection_id"}
          /\ Counts("df_get_git_connection") = {"connection_id"}
      BY <2>1 DEF RegistrySchemas, RegistryUseCases
    <3> HIDE DEF KeyName, Req, Counts, NamesOf
    <3>4. \A i \in 1..Len(names) :
             names[i] \in Counts("df_get_git_connection") /\ (names[i] = "search" => i = Len(names))
      BY ONLY <3>2, <3>3
    <3>5. \A n \in Counts("df_get_git_connection") : \E i \in 1..Len(names) : names[i] = n
      BY ONLY <3>2, <3>3
    <3>6. /\ PV \subseteq Req("df_get_git_connection") =>
               /\ Len(names) >= 2 /\ names[1] = "project_id" /\ names[2] = "version_id"
               /\ KeyName("df_get_git_connection") \in Scopes!VersionFamilies
          /\ Req("df_get_git_connection") = {"project_id"} =>
               names[1] = "project_id" /\ KeyName("df_get_git_connection") \in Scopes!ProjectFamilies
          /\ Req("df_get_git_connection") \cap PV = {} => KeyName("df_get_git_connection") \in Scopes!CompanyFamilies
      BY ONLY <3>2, <3>3 DEF PV, Scopes!VersionFamilies, Scopes!ProjectFamilies,
                             Scopes!CompanyFamilies
    <3>7. KeyName("df_get_git_connection") \in DOMAIN KeyBuilders /\ Len(names) \in Nat \ {0}
      BY <2>1, <3>2, <3>3
    <3>8. QED  BY ONLY <3>1, <3>4, <3>5, <3>6, <3>7 DEF KeyAgrees
  <2>6. QED  BY <2>2, <2>3, <2>4, <2>5
<1> HIDE DEF Agree
<1>7. QED  BY <1>1, <1>4, <1>5, <1>6

LEMMA ToolsAgree == \A t \in Tools : Agree(t)
<1>1. Tools = UNION {DOMAIN part : part \in
         {ContentSchemas, MartSchemas, ConnectionSchemas, ModelSchemas, RegistrySchemas}}
  BY RowsOfAll DEF Tools, Schemas
<1>2. QED  BY <1>1, ContentToolsAgree, MartToolsAgree, ConnectionToolsAgree,
            ModelToolsAgree, RegistryToolsAgree

-----------------------------------------------------------------------------
(* The arguments of a call, and what the use case is called with: the same *)
(* arguments, and every optional one that has a default.                   *)
Fill(n) == IF n = "language" THEN DefaultLanguage ELSE Defaults[n]

LEMMA CallShape ==
    ASSUME NEW c \in Calls
    PROVE  /\ c.tool \in Tools
           /\ Req(c.tool) \subseteq DOMAIN c.args
           /\ DOMAIN c.args \subseteq Req(c.tool) \cup Opt(c.tool)
           /\ \A n \in DOMAIN c.args : c.args[n] \in Values(n)
<1>1. PICK t, r, P, o :
        /\ t \in Tools /\ r \in Arguments(Schemas[t].required)
        /\ P \in SUBSET Schemas[t].optional /\ o \in Arguments(P)
        /\ c = [tool |-> t, args |-> r ++ o]
  BY DEF Calls
<1>2. /\ DOMAIN r = Req(t) /\ \A n \in DOMAIN r : r[n] \in Values(n)
      /\ DOMAIN o = P /\ \A n \in DOMAIN o : o[n] \in Values(n)
  BY <1>1 DEF Arguments, Req
<1>3. PICK a : a = r ++ o
  OBVIOUS
<1>4. /\ DOMAIN a = DOMAIN r \cup DOMAIN o
      /\ \A n \in DOMAIN r : a[n] = r[n]
      /\ \A n \in DOMAIN o : n \notin DOMAIN r => a[n] = o[n]
  BY ONLY <1>3 DEF ++
<1>5. c.tool = t /\ c.args = a
  BY <1>1, <1>3
<1>6. QED  BY <1>1, <1>2, <1>4, <1>5 DEF Opt

LEMMA Restricted ==
    ASSUME NEW f, NEW S
    PROVE  /\ DOMAIN OnlyIn(f, S) = DOMAIN f \cap S
           /\ \A n \in DOMAIN f \cap S : OnlyIn(f, S)[n] = f[n]
BY DEF OnlyIn

LEMMA ServiceShape ==
    ASSUME NEW c \in Calls
    PROVE  /\ DOMAIN Service(c) = DOMAIN c.args \cup (DefaultNames \cap Opt(c.tool))
           /\ \A n \in DOMAIN c.args : Service(c)[n] = c.args[n]
           /\ \A n \in DefaultNames \cap Opt(c.tool) :
                n \notin DOMAIN c.args => Service(c)[n] = Fill(n)
<1>1. PICK t, a : t = c.tool /\ a = c.args
  OBVIOUS
<1>2. /\ t \in Tools /\ Req(t) \subseteq DOMAIN a /\ DOMAIN a \subseteq Req(t) \cup Opt(t)
  BY <1>1, CallShape
<1>3. Handlers[t] = Req(t) \cup Opt(t) /\ Req(t) \cap (Opt(t) \cup DefaultNames) = {}
  BY <1>2, ToolsAgree DEF Agree, HandlerAgrees
<1>4. PICK f, g, q : f = OnlyIn(a, Handlers[t]) /\ g = OnlyIn(Defaults, Handlers[t])
                     /\ q = f ++ g
  OBVIOUS
<1>5. /\ DOMAIN f = DOMAIN a /\ \A n \in DOMAIN a : f[n] = a[n]
      /\ DOMAIN g = DOMAIN Defaults \cap Opt(t)
      /\ \A n \in DOMAIN g : g[n] = Defaults[n]
  <2>1. DOMAIN a \cap Handlers[t] = DOMAIN a
    BY <1>2, <1>3
  <2>2. DOMAIN Defaults \cap Handlers[t] = DOMAIN Defaults \cap Opt(t)
    BY <1>3 DEF DefaultNames
  <2>3. QED  BY <1>4, <2>1, <2>2, Restricted
<1>6. /\ DOMAIN q = DOMAIN f \cup DOMAIN g
      /\ \A x \in DOMAIN f : q[x] = f[x]
      /\ \A x \in DOMAIN g : x \notin DOMAIN f => q[x] = g[x]
  <2>1. q = f ++ g
    BY <1>4
  <2>2. QED  BY ONLY <2>1 DEF ++
<1>7. Service(c) = IF "language" \in Handlers[t]
                   THEN q ++ [language |-> DefaultLanguage] ELSE q
  BY <1>1, <1>4 DEF Service, WithLanguage, Handled
<1>8. "language" \notin DOMAIN Defaults /\ "language" \notin Req(t)
  BY <1>3 DEF Defaults, DefaultNames
<1>9. CASE "language" \in Opt(t)
  <2>1. PICK h, s : h = [language |-> DefaultLanguage] /\ s = q ++ h
    OBVIOUS
  <2>2. /\ DOMAIN s = DOMAIN q \cup DOMAIN h
        /\ \A x \in DOMAIN q : s[x] = q[x]
        /\ \A x \in DOMAIN h : x \notin DOMAIN q => s[x] = h[x]
    <3>1. s = q ++ h
      BY <2>1
    <3>2. QED  BY ONLY <3>1 DEF ++
  <2>3. DOMAIN h = {"language"} /\ h["language"] = DefaultLanguage
    BY <2>1
  <2>4. s = Service(c)
    BY <1>3, <1>7, <1>9, <2>1
  <2>5. DOMAIN s = DOMAIN a \cup (DefaultNames \cap Opt(t))
    BY <1>5, <1>6, <1>9, <2>2, <2>3 DEF DefaultNames
  <2>6. \A n \in DOMAIN a : s[n] = a[n]
    BY <1>5, <1>6, <2>2
  <2>7. ASSUME NEW n \in DefaultNames \cap Opt(t), n \notin DOMAIN a PROVE s[n] = Fill(n)
    <3>1. CASE n = "language"
      BY <1>5, <1>6, <1>8, <2>2, <2>3, <2>7, <3>1 DEF Fill
    <3>2. CASE n # "language"
      BY <1>5, <1>6, <2>2, <2>7, <3>2 DEF Fill, DefaultNames
    <3>3. QED  BY <3>1, <3>2
  <2>8. QED  BY <1>1, <2>4, <2>5, <2>6, <2>7
<1>10. CASE "language" \notin Opt(t)
  <2>1. q = Service(c)
    BY <1>3, <1>7, <1>8, <1>10
  <2>2. DOMAIN q = DOMAIN a \cup (DefaultNames \cap Opt(t))
    BY <1>5, <1>6, <1>10 DEF DefaultNames
  <2>3. \A n \in DOMAIN a : q[n] = a[n]
    BY <1>5, <1>6
  <2>4. \A n \in DefaultNames \cap Opt(t) : n \notin DOMAIN a => q[n] = Fill(n)
    BY <1>5, <1>6, <1>10 DEF Fill, DefaultNames
  <2>5. QED  BY <1>1, <2>1, <2>2, <2>3, <2>4
<1>11. QED  BY <1>9, <1>10

(* A flag that a tool has is always set or not; the rest may be absent.    *)
LEMMA FlagsAreSet ==
    ASSUME NEW c \in Calls, NEW n \in Opt(c.tool) \cap Flags
    PROVE  n \in DOMAIN Service(c) /\ Service(c)[n] \in {<<"True">>, <<"False">>}
<1>1. n \in DefaultNames /\ Fill(n) = <<"False">>
  BY DEF Flags, DefaultNames, Defaults, Fill
<1>2. Values(n) = {<<"True">>, <<"False">>}
  BY DEF Flags, Values
<1>3. n \in DOMAIN c.args => c.args[n] \in Values(n)
  BY CallShape
<1>4. QED  BY <1>1, <1>2, <1>3, ServiceShape

-----------------------------------------------------------------------------
(* The arguments that are shown to the API: the flags that are set, and    *)
(* everything else that is there but include_raw.                          *)
Shown(c) ==
    {n \in DOMAIN Service(c) \cap (Opt(c.tool) \ {"include_raw"}) :
       n \in Flags => Service(c)[n] = <<"True">>}
Carried(c, n) == IF n \in Flags THEN <<"true">> ELSE Service(c)[n]
IdValues(c) ==
    [i \in 1..Len(EndpointOf(c.tool).ids) |-> Service(c)[EndpointOf(c.tool).ids[i]]]

LEMMA ParametersDiffer ==
    ASSUME NEW m, NEW n, m \notin {"type", "pageSize"}, n \notin {"type", "pageSize"},
           Parameter(m) = Parameter(n)
    PROVE  m = n
BY DEF Parameter

LEMMA AskedFilter ==
    ASSUME NEW c \in Calls
    PROVE  /\ DOMAIN Asked[c] = {"resource", "ids", "filter"}
           /\ Asked[c] = [resource |-> Asked[c].resource, ids |-> Asked[c].ids,
                          filter |-> Asked[c].filter]
           /\ Asked[c].resource = Subjects[c.tool]
           /\ Asked[c].filter =
                [q \in {Parameter(n) : n \in Shown(c)} |->
                   Carried(c, CHOOSE n \in Shown(c) : Parameter(n) = q)]
           /\ \A n \in Shown(c) : Asked[c].filter[Parameter(n)] = Carried(c, n)
<1>1. PICK t, a : t = c.tool /\ a = c.args
  OBVIOUS
<1>2. /\ t \in Tools /\ Req(t) \subseteq DOMAIN a /\ DOMAIN a \subseteq Req(t) \cup Opt(t)
      /\ Opt(t) = Schemas[t].optional
  BY <1>1, CallShape DEF Opt
<1>3. PICK h, g, given :
         /\ h = [page |-> <<"1">>, page_size |-> <<"100">>, language |-> DefaultLanguage]
         /\ g = OnlyIn(h, Opt(t)) /\ given = a ++ g
  OBVIOUS
<1>4. /\ DOMAIN h = {"page", "page_size", "language"}
      /\ \A n \in DOMAIN h : n \in DefaultNames /\ h[n] = Fill(n)
  BY <1>3 DEF DefaultNames, Defaults, Fill
<1>5. /\ DOMAIN g = DOMAIN h \cap Opt(t) /\ \A n \in DOMAIN g : g[n] = h[n]
  BY <1>3, Restricted, ZenonT(40)
<1>6. /\ DOMAIN given = DOMAIN a \cup DOMAIN g
      /\ \A n \in DOMAIN a : given[n] = a[n]
      /\ \A n \in DOMAIN g : n \notin DOMAIN a => given[n] = g[n]
  <2>1. given = a ++ g
    BY <1>3
  <2>2. QED  BY ONLY <2>1 DEF ++
<1>7. PICK s : s = Service(c)
  OBVIOUS
<1>8. /\ DOMAIN s = DOMAIN a \cup (DefaultNames \cap Opt(t))
      /\ \A n \in DOMAIN a : s[n] = a[n]
      /\ \A n \in DefaultNames \cap Opt(t) : n \notin DOMAIN a => s[n] = Fill(n)
  BY <1>1, <1>7, ServiceShape
<1>9. \A n \in DOMAIN given \cap Opt(t) : n \in DOMAIN s /\ given[n] = s[n]
  BY <1>4, <1>5, <1>6, <1>8
<1>10. ASSUME NEW n \in DOMAIN s \cap Opt(t), n \notin DOMAIN given
       PROVE  n \in Flags \cup {"include_raw"} /\ s[n] = <<"False">>
  BY <1>4, <1>5, <1>6, <1>8, <1>10 DEF DefaultNames, Defaults, Fill, Flags
<1> DEFINE shown == {n \in DOMAIN given \cap (Opt(t) \ {"include_raw"}) :
                       n \in Flags => given[n] = <<"True">>}
<1>11. shown = Shown(c)
  <2>1. Shown(c) = {n \in DOMAIN s \cap (Opt(t) \ {"include_raw"}) :
                      n \in Flags => s[n] = <<"True">>}
    BY <1>1, <1>7 DEF Shown
  <2>2. <<"False">> # <<"True">>
    OBVIOUS
  <2>3. QED  BY <1>9, <1>10, <2>1, <2>2
<1> DEFINE value(q) == LET n == CHOOSE m \in shown : Parameter(m) = q
                       IN IF n \in Flags THEN <<"true">> ELSE given[n]
<1>12. /\ DOMAIN Asked[c] = {"resource", "ids", "filter"}
       /\ Asked[c].resource = Subjects[t]
       /\ Asked[c].filter = [q \in {Parameter(n) : n \in shown} |-> value(q)]
       /\ Asked[c] = [resource |-> Asked[c].resource, ids |-> Asked[c].ids,
                      filter |-> Asked[c].filter]
  <2>1. PICK ids :
          ids = [i \in 1..Cardinality(Schemas[t].required \cap PV) |-> a[InVersion[i]]]
                 \o (IF Schemas[t].required \ PV = {} THEN <<>>
                     ELSE <<a[CHOOSE n \in Schemas[t].required \ PV : TRUE]>>)
    OBVIOUS
  <2>2. given = a ++ OnlyIn([page |-> <<"1">>, page_size |-> <<"100">>,
                             language |-> DefaultLanguage], Schemas[t].optional)
    BY <1>2, <1>3
  <2>3. Asked[c] = Wanted(t, a)
    BY <1>1 DEF Asked
  <2>4. Wanted(t, a) = [resource |-> Subjects[t], ids |-> ids,
                        filter |-> [q \in {Parameter(n) : n \in shown} |-> value(q)]]
    BY <1>2, <2>1, <2>2 DEF Wanted
  <2> HIDE DEF value, shown
  <2>5. QED  BY <2>3, <2>4
<1>13. ASSUME NEW q \in {Parameter(n) : n \in shown}
       PROVE  value(q) = Carried(c, CHOOSE m \in Shown(c) : Parameter(m) = q)
  <2>1. PICK m : m = CHOOSE k \in shown : Parameter(k) = q
    OBVIOUS
  <2>2. m \in shown
    BY <2>1
  <2>3. given[m] = s[m]
    BY <1>9, <2>2
  <2>4. value(q) = IF m \in Flags THEN <<"true">> ELSE given[m]
    BY <2>1
  <2>5. m = CHOOSE k \in Shown(c) : Parameter(k) = q
    BY <1>11, <2>1
  <2>6. QED  BY <1>7, <2>3, <2>4, <2>5 DEF Carried
<1> HIDE DEF value, shown
<1>14. Asked[c].filter = [q \in {Parameter(n) : n \in Shown(c)} |->
                            Carried(c, CHOOSE m \in Shown(c) : Parameter(m) = q)]
  BY <1>11, <1>12, <1>13
<1>15. ASSUME NEW n \in Shown(c) PROVE Asked[c].filter[Parameter(n)] = Carried(c, n)
  <2>1. PICK m : m = CHOOSE k \in Shown(c) : Parameter(k) = Parameter(n)
    OBVIOUS
  <2>2. m \in Shown(c) /\ Parameter(m) = Parameter(n)
    BY <2>1
  <2>3. \A k \in Shown(c) : k \notin {"type", "pageSize"}
    BY <1>1, <1>2, ToolsAgree DEF Shown, Agree, QueryAgrees
  <2>4. m = n
    BY <2>2, <2>3, ParametersDiffer
  <2>5. QED  BY <1>14, <2>1, <2>4
<1>16. QED  BY <1>1, <1>12, <1>14, <1>15

LEMMA Appended ==
    ASSUME NEW u, NEW v, NEW w PROVE <<u, v>> \o <<w>> = <<u, v, w>>
<1>1. PICK a, b, d : a = <<u, v>> /\ b = <<w>> /\ d = <<u, v, w>>
  OBVIOUS
<1>2. /\ Len(a) = 2 /\ a[1] = u /\ a[2] = v /\ Len(b) = 1 /\ b[1] = w
      /\ Len(d) = 3 /\ d[1] = u /\ d[2] = v /\ d[3] = w
  BY <1>1
<1>3. {a, b, d} \subseteq Seq({u, v, w})
  BY <1>1
<1>4. PICK ab : ab = a \o b
  OBVIOUS
<1>5. ab \in Seq({u, v, w}) /\ Len(ab) = 3 /\ ab[1] = u /\ ab[2] = v /\ ab[3] = w
  <2>1. /\ a \o b \in Seq({u, v, w}) /\ Len(a \o b) = Len(a) + Len(b)
        /\ \A i \in 1..Len(a) + Len(b) :
             (a \o b)[i] = IF i <= Len(a) THEN a[i] ELSE b[i - Len(a)]
    BY <1>3, ConcatProperties
  <2>2. QED  BY <1>2, <1>4, <2>1
<1>6. Len(ab) = Len(d) /\ \A i \in 1..Len(ab) : ab[i] = d[i]
  BY <1>2, <1>5
<1>7. QED  BY <1>1, <1>3, <1>4, <1>5, <1>6, SeqEqual

(* The ids in the path of the request are those the question names: the    *)
(* project and the version where the tool has them, and then its entity.   *)
LEMMA AskedIds ==
    ASSUME NEW c \in Calls
    PROVE  /\ Asked[c].ids = IdValues(c)
           /\ Len(Asked[c].ids) = Len(EndpointOf(c.tool).ids)
           /\ \A i \in 1..Len(EndpointOf(c.tool).ids) :
                /\ EndpointOf(c.tool).ids[i] \in Req(c.tool)
                /\ Asked[c].ids[i] = Service(c)[EndpointOf(c.tool).ids[i]]
           /\ \A n \in Req(c.tool) :
                \E i \in 1..Len(EndpointOf(c.tool).ids) : EndpointOf(c.tool).ids[i] = n
<1>1. PICK t, a, s, e :
        t = c.tool /\ a = c.args /\ s = Service(c) /\ e = EndpointOf(c.tool).ids
  OBVIOUS
<1>2. /\ t \in Tools /\ Req(t) \subseteq DOMAIN a /\ Req(t) = Schemas[t].required
      /\ \A n \in DOMAIN a : s[n] = a[n]
  BY <1>1, CallShape, ServiceShape DEF Req
<1>3. PICK k, entity :
        k = Cardinality(Req(t) \cap PV) /\ entity = Req(t) \ PV
  OBVIOUS
<1>4. PICK ids :
        ids = [i \in 1..k |-> a[InVersion[i]]]
              \o (IF entity = {} THEN <<>> ELSE <<a[CHOOSE n \in entity : TRUE]>>)
  OBVIOUS
<1>5. Asked[c].ids = ids
  <2>1. Wanted(t, a).ids = ids
    BY <1>2, <1>3, <1>4 DEF Wanted
  <2>2. QED  BY <1>1, <2>1 DEF Asked
<1>6. Cardinality({}) = 0 /\ Cardinality({"project_id"}) = 1 /\ Cardinality(PV) = 2
  <2>1. IsFiniteSet({"project_id"}) /\ Cardinality({"project_id"}) = 1
    BY FS_Singleton
  <2>2. Cardinality({"project_id"} \cup {"version_id"}) = 1 + 1
    BY <2>1, FS_AddElement
  <2>3. PV = {"project_id"} \cup {"version_id"}
    BY DEF PV
  <2>4. QED  BY <2>1, <2>2, <2>3, FS_EmptySet
<1>7. IdValues(c) = [i \in 1..Len(e) |-> s[e[i]]]
  BY <1>1 DEF IdValues
<1>8. InVersion[1] = "project_id" /\ InVersion[2] = "version_id"
  BY DEF InVersion
<1> DEFINE values == [i \in 1..Len(e) |-> s[e[i]]]
           named == \A i \in 1..Len(e) : e[i] \in Req(t)
           covered == \A n \in Req(t) : \E i \in 1..Len(e) : e[i] = n
           Goal == covered /\ Len(e) \in Nat /\ ids = values /\ named
<1>9. ASSUME Req(t) = {}, e = <<>> PROVE Goal
  <2>1. Req(t) \cap PV = {}
    BY <1>9
  <2>2. k = 0 /\ entity = {}
    BY <1>3, <1>6, <1>9, <2>1
  <2>3. ids = <<>>
    BY <1>4, <2>2
  <2>4. values = <<>> /\ Len(e) = 0
    BY <1>9
  <2>5. named /\ covered
    BY <1>9, <2>4
  <2> HIDE DEF values, named, covered
  <2>6. QED  BY <2>3, <2>4, <2>5
<1>10. ASSUME Req(t) = {"project_id"}, e = <<"project_id">> PROVE Goal
  <2>1. Req(t) \cap PV = {"project_id"}
    BY <1>10 DEF PV
  <2>2. k = 1 /\ entity = {}
    BY <1>3, <1>6, <1>10, <2>1 DEF PV
  <2>3. [i \in 1..1 |-> a[InVersion[i]]] = <<a["project_id"]>>
    BY <1>8
  <2>4. ids = <<a["project_id"]>>
    BY <1>4, <2>2, <2>3
  <2>5. Len(e) = 1 /\ e[1] = "project_id" /\ "project_id" \in Req(t)
    BY <1>10
  <2>6. [i \in 1..1 |-> s[e[i]]] = <<a["project_id"]>>
    BY <1>2, <2>5
  <2>7. named /\ covered
    BY <1>10, <2>5
  <2>8. ids = values /\ Len(e) \in Nat
    BY <2>4, <2>5, <2>6
  <2>9. QED  BY <2>7, <2>8
<1>11. ASSUME Req(t) = {"connection_id"}, e = <<"connection_id">> PROVE Goal
  <2>1. Req(t) \cap PV = {} /\ Req(t) \ PV = {"connection_id"}
    BY <1>11 DEF PV
  <2>2. k = 0 /\ entity = {"connection_id"}
    BY <1>3, <1>6, <2>1
  <2>3. ids = <<a["connection_id"]>>
    BY <1>4, <2>2
  <2>4. Len(e) = 1 /\ e[1] = "connection_id" /\ "connection_id" \in Req(t)
    BY <1>11
  <2>5. [i \in 1..1 |-> s[e[i]]] = <<a["connection_id"]>>
    BY <1>2, <2>4
  <2>6. named /\ covered
    BY <1>11, <2>4
  <2>7. ids = values /\ Len(e) \in Nat
    BY <2>3, <2>4, <2>5
  <2>8. QED  BY <2>6, <2>7
<1>12. ASSUME Req(t) = PV, e = InVersion PROVE Goal
  <2>1. k = 2 /\ entity = {}
    <3>1. Req(t) \cap PV = PV /\ Req(t) \ PV = {}
      BY <1>12
    <3>2. QED  BY <1>3, <1>6, <3>1
  <2>2. [i \in 1..2 |-> a[InVersion[i]]] = <<a["project_id"], a["version_id"]>>
    BY <1>8
  <2>3. ids = <<a["project_id"], a["version_id"]>>
    BY <1>4, <2>1, <2>2
  <2>4. Len(e) = 2 /\ e[1] = "project_id" /\ e[2] = "version_id" /\ PV \subseteq Req(t)
    BY <1>12 DEF InVersion
  <2>5. "project_id" \in Req(t) /\ "version_id" \in Req(t)
    BY <2>4 DEF PV
  <2>6. [i \in 1..2 |-> s[e[i]]] = <<a["project_id"], a["version_id"]>>
    BY <1>2, <2>4, <2>5
  <2>7. named /\ covered
    BY <1>12, <2>4, <2>5 DEF PV
  <2>8. ids = values /\ Len(e) \in Nat
    BY <2>3, <2>4, <2>6
  <2>9. QED  BY <2>7, <2>8
<1>13. ASSUME NEW x \in EntityIds, Req(t) = PV \cup {x}, e = InVersion \o <<x>>
       PROVE  Goal
  <2>1. x \notin PV
    BY DEF EntityIds, PV
  <2>2. k = 2 /\ entity = {x}
    <3>1. Req(t) \cap PV = PV /\ Req(t) \ PV = {x}
      BY <1>13, <2>1
    <3>2. QED  BY <1>3, <1>6, <3>1
  <2>3. [i \in 1..2 |-> a[InVersion[i]]] = <<a["project_id"], a["version_id"]>>
    BY <1>8
  <2>4. ids = <<a["project_id"], a["version_id"]>> \o <<a[x]>>
    BY <1>4, <2>2, <2>3
  <2>5. ids = <<a["project_id"], a["version_id"], a[x]>>
    BY <2>4, Appended
  <2>6. e = <<"project_id", "version_id", x>>
    BY <1>13, Appended DEF InVersion
  <2>7. Len(e) = 3 /\ e[1] = "project_id" /\ e[2] = "version_id" /\ e[3] = x
    BY <2>6
  <2>8. "project_id" \in Req(t) /\ "version_id" \in Req(t) /\ x \in Req(t)
    BY <1>13 DEF PV
  <2>9. [i \in 1..3 |-> s[e[i]]] = <<a["project_id"], a["version_id"], a[x]>>
    BY <1>2, <2>7, <2>8
  <2>10. named /\ covered
    BY <1>13, <2>7, <2>8 DEF PV
  <2>11. ids = values /\ Len(e) \in Nat
    BY <2>5, <2>7, <2>9
  <2>12. QED  BY <2>10, <2>11
<1>14. \/ Req(t) = {} /\ e = <<>>
       \/ Req(t) = {"project_id"} /\ e = <<"project_id">>
       \/ Req(t) = {"connection_id"} /\ e = <<"connection_id">>
       \/ Req(t) = PV /\ e = InVersion
       \/ \E x \in EntityIds : Req(t) = PV \cup {x} /\ e = InVersion \o <<x>>
  BY <1>1, <1>2, ToolsAgree DEF Agree, IdsAgree
<1> HIDE DEF Goal
<1>15. Goal
  BY <1>9, <1>10, <1>11, <1>12, <1>13, <1>14
<1> USE DEF Goal
<1>16. Len(ids) = Len(e) /\ \A i \in 1..Len(e) : ids[i] = s[e[i]]
  BY <1>15
<1> HIDE DEF values
<1>17. QED  BY <1>1, <1>5, <1>7, <1>15, <1>16 DEF values

LEMMA AskedParts ==
    ASSUME NEW c \in Calls
    PROVE  /\ Asked[c].resource = Subjects[c.tool]
           /\ DOMAIN Asked[c].filter = {Parameter(n) : n \in Shown(c)}
           /\ \A n \in Shown(c) : Asked[c].filter[Parameter(n)] = Carried(c, n)
<1>1. PICK S : S = {Parameter(n) : n \in Shown(c)}
  OBVIOUS
<1>2. PICK C : C = [q \in S |-> Carried(c, CHOOSE n \in Shown(c) : Parameter(n) = q)]
  OBVIOUS
<1>3. DOMAIN C = S
  BY <1>2
<1>4. Asked[c].filter = C
  BY <1>1, <1>2, AskedFilter
<1>5. QED  BY <1>1, <1>3, <1>4, AskedFilter

(* The API is asked for exactly what the call asks for, but for the cap on *)
(* the page size.                                                          *)
LEMMA FetchedIs ==
    ASSUME NEW c \in Calls
    PROVE  /\ Fetched[c] = [Asked[c] EXCEPT !.filter = Capped(@)]
           /\ Fetched[c].resource = Asked[c].resource /\ Fetched[c].ids = Asked[c].ids
           /\ Fetched[c] # Failed
<1>1. PICK t, s, e : t = c.tool /\ s = Service(c) /\ e = EndpointOf(c.tool)
  OBVIOUS
<1> DEFINE plain == Opt(t) \ (Flags \cup {"include_raw"})
<1>2. /\ t \in Tools /\ DOMAIN s \subseteq Req(t) \cup Opt(t)
      /\ \A n \in Opt(t) \cap Flags : n \in DOMAIN s
  BY <1>1, CallShape, ServiceShape, FlagsAreSet, ZenonT(40)
<1>3. /\ e.resource = Subjects[t]
      /\ \A q \in DOMAIN e.query : e.query[q] \in plain /\ q = Parameter(e.query[q])
      /\ \A n \in plain : Parameter(n) \in DOMAIN e.query /\ e.query[Parameter(n)] = n
      /\ e.flags = Opt(t) \cap Flags
      /\ \A n \in Opt(t) : n \notin {"type", "pageSize"}
      /\ \A n \in Opt(t) \ {"include_raw"} : Parameter(n) \in ParameterNames
  BY <1>1, <1>2, ToolsAgree DEF Agree, QueryAgrees
<1>4. PICK sent, shown :
        /\ sent = {q \in DOMAIN e.query : e.query[q] \in DOMAIN s}
        /\ shown = {n \in DOMAIN s \cap (Opt(t) \ {"include_raw"}) :
                      n \in Flags => s[n] = <<"True">>}
  OBVIOUS
<1>5. shown = Shown(c) /\ \A n \in shown : Carried(c, n) = IF n \in Flags THEN <<"true">> ELSE s[n]
  BY <1>1, <1>4 DEF Shown, Carried
<1>6. PICK q1, q2, query :
        /\ q1 = [q \in sent |-> s[e.query[q]]]
        /\ q2 = [f \in {g \in e.flags : s[g] = <<"True">>} |-> <<"true">>]
        /\ query = q1 ++ q2
  OBVIOUS
<1>7. /\ DOMAIN query = DOMAIN q1 \cup DOMAIN q2
      /\ \A x \in DOMAIN q1 : query[x] = q1[x]
      /\ \A x \in DOMAIN q2 : x \notin DOMAIN q1 => query[x] = q2[x]
  <2>1. query = q1 ++ q2
    BY <1>6
  <2>2. QED  BY ONLY <2>1 DEF ++
<1>8. ASSUME NEW x \in DOMAIN q1
      PROVE  /\ e.query[x] \in shown \ Flags /\ x = Parameter(e.query[x])
             /\ q1[x] = s[e.query[x]]
  BY <1>3, <1>4, <1>6
<1>9. ASSUME NEW x \in DOMAIN q2
      PROVE  x \in shown \cap Flags /\ x = Parameter(x) /\ q2[x] = <<"true">>
  <2>1. x \in Opt(t) \cap Flags /\ s[x] = <<"True">> /\ q2[x] = <<"true">>
    BY <1>3, <1>6
  <2>2. x = Parameter(x) /\ x # "include_raw"
    BY <2>1 DEF Flags, Parameter
  <2>3. QED  BY <1>2, <1>4, <2>1, <2>2
<1>10. ASSUME NEW n \in shown
       PROVE  /\ Parameter(n) \in DOMAIN query \cap ParameterNames
              /\ query[Parameter(n)] = Carried(c, n)
  <2>1. Parameter(n) \in ParameterNames
    BY <1>3, <1>4
  <2>2. CASE n \in Flags
    <3>1. Parameter(n) = n
      BY <2>2 DEF Flags, Parameter
    <3>2. n \in DOMAIN q2
      BY <1>3, <1>4, <1>6, <2>2
    <3>3. n \notin DOMAIN q1
      <4>1. ASSUME n \in DOMAIN q1 PROVE FALSE
        <5>1. e.query[n] \in shown \ Flags /\ Parameter(n) = Parameter(e.query[n])
          BY <1>8, <3>1, <4>1
        <5>2. n = e.query[n]
          BY <1>3, <1>4, <5>1, ParametersDiffer
        <5>3. QED  BY <2>2, <5>1, <5>2
      <4>2. QED  BY <4>1
    <3>4. QED  BY <1>5, <1>7, <1>9, <2>1, <2>2, <3>1, <3>2, <3>3
  <2>3. CASE n \notin Flags
    <3>1. Parameter(n) \in DOMAIN q1 /\ e.query[Parameter(n)] = n
      BY <1>3, <1>4, <1>6, <2>3
    <3>2. QED  BY <1>5, <1>7, <1>8, <2>1, <2>3, <3>1
  <2>4. QED  BY <2>2, <2>3
<1>11. DOMAIN query = {Parameter(n) : n \in shown}
  BY <1>7, <1>8, <1>9, <1>10
<1>12. PICK F : F = Asked[c].filter
  OBVIOUS
<1>13. /\ F = [q \in {Parameter(n) : n \in shown} |->
                 Carried(c, CHOOSE n \in shown : Parameter(n) = q)]
       /\ \A n \in shown : F[Parameter(n)] = Carried(c, n)
       /\ Asked[c].resource = Subjects[t] /\ Asked[c].ids = IdValues(c)
       /\ Asked[c] = [resource |-> Subjects[t], ids |-> IdValues(c), filter |-> F]
  <2>1. /\ Asked[c] = [resource |-> Asked[c].resource, ids |-> Asked[c].ids, filter |-> F]
        /\ F = [q \in {Parameter(n) : n \in Shown(c)} |->
                  Carried(c, CHOOSE n \in Shown(c) : Parameter(n) = q)]
    BY <1>12, AskedFilter
  <2>2. Asked[c].resource = Subjects[t] /\ Asked[c].ids = IdValues(c)
    BY <1>1, AskedParts, AskedIds
  <2>3. \A n \in Shown(c) : F[Parameter(n)] = Carried(c, n)
    BY <1>12, AskedParts
  <2>4. shown = Shown(c)
    BY <1>5
  <2>5. QED  BY <2>1, <2>2, <2>3, <2>4
<1>14. OnlyIn(query, ParameterNames) = F
  <2>1. PICK D : D = {Parameter(n) : n \in shown}
    OBVIOUS
  <2>2. /\ DOMAIN query = D /\ DOMAIN query \cap ParameterNames = D
        /\ DOMAIN F = D /\ F = [q \in D |-> F[q]]
    BY <1>10, <1>11, <1>13, <2>1
  <2>3. \A q \in D : query[q] = F[q]
    BY <1>10, <1>13, <2>1
  <2>4. QED  BY <2>2, <2>3 DEF OnlyIn
<1>15. Fetched[c] = [resource |-> Subjects[t], ids |-> IdValues(c), filter |-> Capped(F)]
  <2>1. PICK r : r = Request(t, s)
    OBVIOUS
  <2>2. r.resource = e.resource /\ r.ids = IdValues(c) /\ r.query = query
    BY <1>1, <1>4, <1>6, <2>1 DEF Request, IdValues, EndpointOf
  <2>3. Fetched[c] = Answer(r)
    BY <1>1, <2>1 DEF Fetched
  <2>4. QED  BY <1>3, <1>14, <2>2, <2>3 DEF Answer
<1>16. Fetched[c] # Failed
  <2>1. DOMAIN Fetched[c] = {"resource", "ids", "filter"} /\ DOMAIN Failed = {"resource"}
    BY <1>15 DEF Failed
  <2>2. QED  BY <2>1
<1>17. QED  BY <1>13, <1>15, <1>16

-----------------------------------------------------------------------------
(* Two calls that are the same question: the same subject, and the same    *)
(* text in the key for every argument that counts.                         *)
Same(c, d) ==
    /\ Twin(c.tool) = Twin(d.tool)
    /\ \A n \in Counts(c.tool) : Printed(Service(c), n) = Printed(Service(d), n)

LEMMA TwinsAgree ==
    ASSUME NEW t \in Tools, NEW u \in Tools, Twin(t) = Twin(u)
    PROVE  /\ Req(t) = Req(u) /\ Counts(t) = Counts(u)
           /\ Opt(t) \ {"include_raw"} = Opt(u) \ {"include_raw"}
           /\ UseCases[t] = UseCases[u] /\ Subjects[t] = Subjects[u]
<1>1. \A x \in {t, u} :
        /\ Req(Twin(x)) = Req(x) /\ Opt(Twin(x)) \ {"include_raw"} = Opt(x) \ {"include_raw"}
        /\ UseCases[Twin(x)] = UseCases[x] /\ Subjects[Twin(x)] = Subjects[x]
  BY ToolsAgree DEF Agree, TwinAgrees
<1>2. /\ Req(t) = Req(u) /\ Opt(t) \ {"include_raw"} = Opt(u) \ {"include_raw"}
      /\ UseCases[t] = UseCases[u] /\ Subjects[t] = Subjects[u]
  BY <1>1
<1>3. Counts(t) = Counts(u)
  BY <1>2 DEF Counts
<1>4. QED  BY <1>2, <1>3

LEMMA CachedAgree ==
    ASSUME NEW c \in CachedCalls
    PROVE  c \in Calls /\ c.tool \in Tools /\ KeyName(c.tool) # "none" /\ KeyAgrees(c.tool)
<1>1. c \in Calls /\ Cached(c.tool) /\ c.tool \in Tools
  BY CallShape DEF CachedCalls
<1>2. QED  BY <1>1, ToolsAgree DEF Cached, KeyName, Agree

LEMMA SameKey ==
    ASSUME NEW c \in CachedCalls, NEW d \in CachedCalls, Same(c, d)
    PROVE  KeyOf[c] = KeyOf[d] /\ FileOf[c] = FileOf[d]
<1>1. PICK names : names = NamesOf(c.tool)
  OBVIOUS
<1>2. UseCases[c.tool] = UseCases[d.tool] /\ names = NamesOf(d.tool)
  BY <1>1, CachedAgree, TwinsAgree DEF Same, NamesOf, KeyName
<1>3. \A i \in 1..Len(names) :
        Printed(Service(c), names[i]) = Printed(Service(d), names[i])
  BY <1>1, CachedAgree DEF KeyAgrees, Same
<1>4. [i \in 1..Len(names) |-> Printed(Service(c), names[i])]
        = [i \in 1..Len(names) |-> Printed(Service(d), names[i])]
  BY <1>3
<1>5. /\ KeyOf[c] = << <<UseCases[c.tool].key>> >>
                      \o [i \in 1..Len(names) |-> Printed(Service(c), names[i])]
      /\ KeyOf[d] = << <<UseCases[d.tool].key>> >>
                      \o [i \in 1..Len(names) |-> Printed(Service(d), names[i])]
  BY <1>1, <1>2 DEF KeyOf, Key, NamesOf, KeyName
<1>6. KeyOf[c] = KeyOf[d]
  BY <1>2, <1>4, <1>5
<1>7. QED  BY <1>6 DEF FileOf

LEMMA FromAsked ==
    ASSUME NEW c \in Calls, NEW d \in Calls, Asked[c] = Asked[d]
    PROVE  Same(c, d)
<1>1. PICK t, u, s, r :
        t = c.tool /\ u = d.tool /\ s = Service(c) /\ r = Service(d)
  OBVIOUS
<1>2. t \in Tools /\ u \in Tools
  BY <1>1, CallShape
<1>3. Twin(t) = Twin(u)
  <2>1. Subjects[t] = Subjects[u]
    BY <1>1, AskedParts
  <2>2. QED  BY <1>2, <2>1, ToolsAgree DEF Agree, TwinAgrees
<1>4. /\ Req(t) = Req(u) /\ Opt(t) \ {"include_raw"} = Opt(u) \ {"include_raw"}
      /\ EndpointOf(t) = EndpointOf(u)
  BY <1>2, <1>3, TwinsAgree DEF EndpointOf
<1>5. /\ Req(t) \subseteq DOMAIN s /\ Req(t) \subseteq DOMAIN r
      /\ \A n \in Opt(t) \ {"include_raw"} : n \notin {"type", "pageSize"}
  <2>1. \A x \in Calls : Req(x.tool) \subseteq DOMAIN Service(x)
    BY CallShape, ServiceShape
  <2>2. \A n \in Opt(t) : n \notin {"type", "pageSize"}
    BY <1>2, ToolsAgree DEF Agree, QueryAgrees
  <2>3. QED  BY <1>1, <1>4, <2>1, <2>2
<1>6. ASSUME NEW n \in Req(t) PROVE Printed(s, n) = Printed(r, n)
  <2>1. PICK i \in 1..Len(EndpointOf(t).ids) : EndpointOf(t).ids[i] = n
    BY <1>1, AskedIds
  <2>2. s[n] = Asked[c].ids[i] /\ r[n] = Asked[d].ids[i]
    BY <1>1, <1>4, <2>1, AskedIds
  <2>3. QED  BY <1>5, <2>2 DEF Printed
<1>7. ASSUME NEW n \in Opt(t) \ {"include_raw"} PROVE Printed(s, n) = Printed(r, n)
  <2>1. \A x \in {c, d} : n \in Shown(x) <=> Parameter(n) \in DOMAIN Asked[x].filter
    <3> SUFFICES ASSUME NEW x \in {c, d}
                 PROVE  n \in Shown(x) <=> Parameter(n) \in DOMAIN Asked[x].filter
      OBVIOUS
    <3>1. \A m \in Shown(x) : m \in Opt(t) \ {"include_raw"}
      BY <1>1, <1>4 DEF Shown
    <3>2. DOMAIN Asked[x].filter = {Parameter(m) : m \in Shown(x)}
      BY AskedParts
    <3>3. \A m \in Shown(x) : Parameter(m) = Parameter(n) => m = n
      BY <1>5, <3>1, ParametersDiffer
    <3>4. QED  BY <3>2, <3>3
  <2>2. n \in Shown(c) <=> n \in Shown(d)
    BY <2>1
  <2>3. n \in Shown(c) => Carried(c, n) = Carried(d, n)
    <3>1. ASSUME n \in Shown(c) PROVE Carried(c, n) = Carried(d, n)
      <4>1. Carried(c, n) = Asked[c].filter[Parameter(n)]
        BY <3>1, AskedParts
      <4>2. Carried(d, n) = Asked[d].filter[Parameter(n)]
        BY <2>2, <3>1, AskedParts
      <4>3. QED  BY <4>1, <4>2
    <3>2. QED  BY <3>1
  <2>4. CASE n \in Flags
    <3>1. /\ n \in DOMAIN s /\ s[n] \in {<<"True">>, <<"False">>}
          /\ n \in DOMAIN r /\ r[n] \in {<<"True">>, <<"False">>}
      BY <1>1, <1>4, <2>4, FlagsAreSet
    <3>2. (s[n] = <<"True">>) <=> (r[n] = <<"True">>)
      BY <1>1, <1>4, <2>2, <2>4, <3>1 DEF Shown
    <3>3. QED  BY <3>1, <3>2 DEF Printed
  <2>5. CASE n \notin Flags
    <3>1. (n \in DOMAIN s) <=> (n \in DOMAIN r)
      BY <1>1, <1>4, <2>2, <2>5 DEF Shown
    <3>2. ASSUME n \in DOMAIN s PROVE s[n] = r[n]
      <4>1. n \in Shown(c)
        BY <1>1, <2>5, <3>2 DEF Shown
      <4>2. QED  BY <1>1, <2>3, <2>5, <4>1 DEF Carried
    <3>3. QED  BY <3>1, <3>2 DEF Printed
  <2>6. QED  BY <2>4, <2>5
<1>8. QED  BY <1>1, <1>3, <1>6, <1>7 DEF Same, Counts

-----------------------------------------------------------------------------
(* What a cache key can tell apart: ids and languages that are one token,  *)
(* texts to look for without the separators of keys and paths, and none of *)
(* them the text that stands for an argument that is not there.            *)
Plain ==
    /\ \A v \in Ids \cup Languages \cup {DefaultLanguage} : Word(v)
    /\ \A v \in Searches : Text(v)
    /\ <<"None">> \notin Ids \cup Searches

LEMMA AWord ==
    ASSUME NEW x, x # ":", x # "/" PROVE Word(<<x>>)
BY DEF Word, Text, Listed, IsSeparator

LEMMA FixedWords ==
    \A x \in {"1", "2", "50", "100", "101", "True", "False", "None", "mart_type",
              "merge_type", "db_type", "status"} : Word(<<x>>)
BY AWord

LEMMA ValuesArePlain ==
    ASSUME Plain, NEW n, NEW v \in Values(n)
    PROVE  /\ Text(v) /\ (n # "search" => Word(v))
           /\ n # "language" => v # <<"None">>
<1>1. CASE n = "page"
  <2>1. v \in {<<"1">>, <<"2">>}
    BY <1>1 DEF Values, Flags
  <2>2. QED  BY <2>1, FixedWords DEF Word
<1>2. CASE n = "page_size"
  <2>1. v \in {<<"50">>, <<"101">>}
    BY <1>2 DEF Values, Flags, TooLarge
  <2>2. QED  BY <2>1, FixedWords DEF Word
<1>3. CASE n = "language"
  <2>1. v \in Languages
    BY <1>3 DEF Values, Flags
  <2>2. QED  BY <1>3, <2>1 DEF Plain, Word
<1>4. CASE n = "search"
  <2>1. v \in Searches
    BY <1>4 DEF Values, Flags
  <2>2. QED  BY <1>4, <2>1 DEF Plain, Word
<1>5. CASE n \in Flags \cup {"include_raw"}
  <2>1. v \in {<<"True">>, <<"False">>}
    BY <1>5 DEF Values, Flags
  <2>2. QED  BY <2>1, FixedWords DEF Word
<1>6. CASE n \in {"mart_type", "merge_type", "db_type", "status"}
  <2>1. v = <<n>>
    BY <1>6 DEF Values, Flags
  <2>2. QED  BY <1>6, <2>1, FixedWords DEF Word
<1>7. CASE n \notin {"page", "page_size", "language", "search", "include_raw", "mart_type",
                     "merge_type", "db_type", "status"} \cup Flags
  <2>1. v \in Ids
    BY <1>7 DEF Values
  <2>2. QED  BY <1>7, <2>1 DEF Plain, Word
<1>8. QED  BY <1>1, <1>2, <1>3, <1>4, <1>5, <1>6, <1>7

LEMMA FillsArePlain ==
    ASSUME Plain, NEW n \in DefaultNames
    PROVE  Word(Fill(n)) /\ (n # "language" => Fill(n) # <<"None">>)
<1>1. CASE n = "language"
  BY <1>1 DEF Plain, Fill
<1>2. CASE n # "language"
  <2>1. Fill(n) \in {<<"1">>, <<"100">>, <<"False">>}
    BY <1>2 DEF DefaultNames, Defaults, Fill
  <2>2. QED  BY <1>2, <2>1, FixedWords
<1>3. QED  BY <1>1, <1>2

(* A call's own values are never the text for what is not there, and a     *)
(* language is always there.                                               *)
LEMMA PrintedIsPlain ==
    ASSUME Plain, NEW c \in Calls, NEW n
    PROVE  /\ Text(Printed(Service(c), n))
           /\ n # "search" => Word(Printed(Service(c), n))
           /\ n \in DOMAIN Service(c) /\ n # "language" => Service(c)[n] # <<"None">>
<1>1. n \notin DOMAIN Service(c) => Printed(Service(c), n) = <<"None">>
  BY DEF Printed
<1>2. n \in DOMAIN Service(c) => Printed(Service(c), n) = Service(c)[n]
  BY DEF Printed
<1>3. CASE n \in DOMAIN c.args
  <2>1. n \in DOMAIN Service(c) /\ Service(c)[n] \in Values(n)
    BY <1>3, CallShape, ServiceShape
  <2>2. QED  BY <1>2, <2>1, ValuesArePlain
<1>4. CASE n \notin DOMAIN c.args /\ n \in DOMAIN Service(c)
  <2>1. n \in DefaultNames /\ Service(c)[n] = Fill(n)
    BY <1>4, ServiceShape
  <2>2. QED  BY <1>2, <1>4, <2>1, FillsArePlain DEF Word
<1>5. CASE n \notin DOMAIN Service(c)
  BY <1>1, <1>5, FixedWords DEF Word
<1>6. QED  BY <1>3, <1>4, <1>5

LEMMA LanguageIsThere ==
    ASSUME NEW c \in Calls, "language" \in Counts(c.tool)
    PROVE  "language" \in DOMAIN Service(c)
<1>1. c.tool \in Tools /\ "language" \in DefaultNames
  BY CallShape DEF DefaultNames
<1>2. "language" \in Opt(c.tool)
  BY <1>1, ToolsAgree DEF Agree, HandlerAgrees, Counts
<1>3. QED  BY <1>1, <1>2, ServiceShape

(* The same text in the key is the same argument.                          *)
LEMMA SameArguments ==
    ASSUME Plain, NEW c \in Calls, NEW d \in Calls, Same(c, d), NEW n \in Counts(c.tool)
    PROVE  /\ n \in DOMAIN Service(c) <=> n \in DOMAIN Service(d)
           /\ n \in DOMAIN Service(c) => Service(c)[n] = Service(d)[n]
<1>1. Printed(Service(c), n) = Printed(Service(d), n)
  BY DEF Same
<1>2. n \in Counts(d.tool)
  BY CallShape, TwinsAgree DEF Same
<1>3. \A x \in {c, d} : Printed(Service(x), n) = <<"None">> /\ n # "language" =>
                          n \notin DOMAIN Service(x)
  BY PrintedIsPlain DEF Printed
<1>4. n \in DOMAIN Service(c) <=> n \in DOMAIN Service(d)
  <2>1. CASE n = "language"
    BY <1>2, <2>1, LanguageIsThere
  <2>2. CASE n # "language"
    BY <1>1, <1>3, <2>2 DEF Printed
  <2>3. QED  BY <2>1, <2>2
<1>5. QED  BY <1>1, <1>4 DEF Printed

LEMMA SameAsked ==
    ASSUME Plain, NEW c \in Calls, NEW d \in Calls, Same(c, d)
    PROVE  Asked[c] = Asked[d] /\ Fetched[c] = Fetched[d]
<1>1. PICK t, u : t = c.tool /\ u = d.tool
  OBVIOUS
<1>2. t \in Tools /\ u \in Tools /\ Twin(t) = Twin(u)
  BY <1>1, CallShape DEF Same
<1>3. /\ Req(t) = Req(u) /\ Counts(t) = Counts(u)
      /\ Opt(t) \ {"include_raw"} = Opt(u) \ {"include_raw"}
      /\ EndpointOf(t) = EndpointOf(u) /\ Subjects[t] = Subjects[u]
  BY <1>2, TwinsAgree DEF EndpointOf
<1>4. \A n \in Counts(t) : /\ n \in DOMAIN Service(c) <=> n \in DOMAIN Service(d)
                           /\ n \in DOMAIN Service(c) => Service(c)[n] = Service(d)[n]
  BY <1>1, SameArguments
<1>5. Opt(t) \ {"include_raw"} \subseteq Counts(t) /\ Req(t) \subseteq Counts(t)
  <2>1. "include_raw" \notin Req(t)
    BY <1>2, ToolsAgree DEF Agree, HandlerAgrees, DefaultNames, Defaults
  <2>2. QED  BY <2>1 DEF Counts
<1>6. Shown(c) = Shown(d) /\ \A n \in Shown(c) : Carried(c, n) = Carried(d, n)
  <2>1. PICK S, s, r : S = Opt(t) \ {"include_raw"} /\ s = Service(c) /\ r = Service(d)
    OBVIOUS
  <2>2. /\ Shown(c) = {n \in DOMAIN s \cap S : n \in Flags => s[n] = <<"True">>}
        /\ Shown(d) = {n \in DOMAIN r \cap S : n \in Flags => r[n] = <<"True">>}
    BY <1>1, <1>3, <2>1 DEF Shown
  <2>3. \A n \in S : /\ n \in DOMAIN s <=> n \in DOMAIN r
                     /\ n \in DOMAIN s => s[n] = r[n]
    BY <1>4, <1>5, <2>1
  <2>4. Shown(c) = Shown(d)
    BY <2>2, <2>3
  <2>5. \A n \in Shown(c) : s[n] = r[n]
    BY <2>2, <2>3
  <2>6. QED  BY <2>1, <2>4, <2>5 DEF Carried
<1>7. Asked[c].ids = Asked[d].ids
  <2>1. PICK e : e = EndpointOf(t).ids
    OBVIOUS
  <2>2. \A i \in 1..Len(e) : Service(c)[e[i]] = Service(d)[e[i]]
    <3>1. \A i \in 1..Len(e) : e[i] \in Req(t)
      BY <1>1, <2>1, AskedIds
    <3>2. Req(t) \subseteq DOMAIN Service(c)
      BY <1>1, CallShape, ServiceShape
    <3>3. QED  BY <1>4, <1>5, <3>1, <3>2
  <2>3. /\ Asked[c].ids = [i \in 1..Len(e) |-> Service(c)[e[i]]]
        /\ Asked[d].ids = [i \in 1..Len(e) |-> Service(d)[e[i]]]
    <3>1. Asked[c].ids = IdValues(c) /\ Asked[d].ids = IdValues(d)
      BY AskedIds
    <3>2. EndpointOf(c.tool).ids = e /\ EndpointOf(d.tool).ids = e
      BY <1>1, <1>3, <2>1
    <3>3. QED  BY <3>1, <3>2 DEF IdValues
  <2>4. QED  BY <2>2, <2>3
<1>8. Asked[c].resource = Asked[d].resource
  BY <1>1, <1>3, AskedParts
<1>9. Asked[c].filter = Asked[d].filter
  <2>1. PICK S : S = {Parameter(n) : n \in Shown(c)}
    OBVIOUS
  <2>2. /\ Asked[c].filter =
             [q \in S |-> Carried(c, CHOOSE n \in Shown(c) : Parameter(n) = q)]
        /\ Asked[d].filter =
             [q \in S |-> Carried(d, CHOOSE n \in Shown(c) : Parameter(n) = q)]
    <3>1. /\ Asked[c].filter =
               [q \in {Parameter(n) : n \in Shown(c)} |->
                  Carried(c, CHOOSE n \in Shown(c) : Parameter(n) = q)]
          /\ Asked[d].filter =
               [q \in {Parameter(n) : n \in Shown(d)} |->
                  Carried(d, CHOOSE n \in Shown(d) : Parameter(n) = q)]
      BY AskedFilter
    <3>2. Shown(c) = Shown(d)
      BY <1>6
    <3>3. QED  BY <2>1, <3>1, <3>2
  <2>3. ASSUME NEW q \in S
        PROVE  Carried(c, CHOOSE n \in Shown(c) : Parameter(n) = q)
                 = Carried(d, CHOOSE n \in Shown(c) : Parameter(n) = q)
    <3>1. PICK m : m = CHOOSE n \in Shown(c) : Parameter(n) = q
      OBVIOUS
    <3>2. m \in Shown(c)
      BY <2>1, <2>3, <3>1
    <3>3. QED  BY <1>6, <3>1, <3>2
  <2>4. QED  BY <2>2, <2>3
<1>10. Asked[c] = Asked[d]
  <2>1. \A x \in {c, d} : Asked[x] = [resource |-> Asked[x].resource, ids |-> Asked[x].ids,
                                      filter |-> Asked[x].filter]
    BY AskedFilter
  <2>2. QED  BY <1>7, <1>8, <1>9, <2>1
<1>11. Fetched[c] = Fetched[d]
  <2>1. PICK a : a = Asked[c] /\ a = Asked[d]
    BY <1>10
  <2>2. /\ Fetched[c] = [a EXCEPT !.filter = Capped(@)]
        /\ Fetched[d] = [a EXCEPT !.filter = Capped(@)]
    BY <2>1, FetchedIs
  <2>3. QED  BY <2>2
<1>12. QED  BY <1>10, <1>11

-----------------------------------------------------------------------------
(* Keys and files: the family, then what each name of the key prints as.   *)
LEMMA KeyShape ==
    ASSUME NEW c \in CachedCalls, NEW names, names = NamesOf(c.tool)
    PROVE  /\ Listed(KeyOf[c]) /\ Len(KeyOf[c]) = Len(names) + 1
           /\ KeyOf[c][1] = <<KeyName(c.tool)>>
           /\ \A i \in 1..Len(names) : KeyOf[c][i + 1] = Printed(Service(c), names[i])
<1>1. Len(names) \in Nat
  BY CachedAgree DEF KeyAgrees
<1>2. PICK n, a, b, S :
        /\ n = Len(names) /\ a = << <<KeyName(c.tool)>> >>
        /\ b = [i \in 1..n |-> Printed(Service(c), names[i])]
        /\ S = {<<KeyName(c.tool)>>} \cup {Printed(Service(c), names[i]) : i \in 1..n}
  OBVIOUS
<1>3. KeyOf[c] = a \o b
  BY <1>2 DEF KeyOf, Key, NamesOf, KeyName
<1>4. a \in Seq(S) /\ Len(a) = 1 /\ a[1] = <<KeyName(c.tool)>>
  BY <1>2
<1>5. b \in Seq(S) /\ Len(b) = n
  <2>1. b \in [1..n -> S]
    BY <1>2
  <2>2. QED  BY <1>1, <1>2, <2>1, Sequenced
<1>6. \A i \in 1..n : b[i] = Printed(Service(c), names[i])
  BY <1>2
<1>7. PICK k : k = a \o b
  OBVIOUS
<1>8. /\ k \in Seq(S) /\ Len(k) = 1 + n /\ k[1] = a[1]
      /\ \A i \in 1..n : k[1 + i] = b[i]
  BY <1>1, <1>2, <1>4, <1>5, <1>7, Glued
<1>9. Listed(k)
  BY <1>8 DEF Listed
<1>10. Len(k) = n + 1 /\ \A i \in 1..n : k[i + 1] = b[i]
  BY <1>1, <1>2, <1>8
<1>11. QED  BY <1>2, <1>3, <1>4, <1>6, <1>7, <1>8, <1>9, <1>10

LEMMA FamiliesArePlain ==
    /\ \A f \in Scopes!VersionFamilies : f # ":" /\ f # "/"
    /\ \A f \in Scopes!ProjectFamilies : f # ":" /\ f # "/"
    /\ \A f \in Scopes!CompanyFamilies : f # ":" /\ f # "/"
BY DEF Scopes!VersionFamilies, Scopes!ProjectFamilies, Scopes!CompanyFamilies

LEMMA FamilyOf ==
    ASSUME NEW c \in CachedCalls
    PROVE  /\ PV \subseteq Req(c.tool) => KeyName(c.tool) \in Scopes!VersionFamilies
           /\ Req(c.tool) = {"project_id"} => KeyName(c.tool) \in Scopes!ProjectFamilies
           /\ Req(c.tool) \cap PV = {} => KeyName(c.tool) \in Scopes!CompanyFamilies
           /\ \/ PV \subseteq Req(c.tool) \/ Req(c.tool) = {"project_id"}
              \/ Req(c.tool) \cap PV = {}
           /\ KeyName(c.tool) # ":" /\ KeyName(c.tool) # "/"
<1>1. KeyAgrees(c.tool) /\ c.tool \in Tools
  BY CachedAgree
<1>2. /\ PV \subseteq Req(c.tool) => KeyName(c.tool) \in Scopes!VersionFamilies
      /\ Req(c.tool) = {"project_id"} => KeyName(c.tool) \in Scopes!ProjectFamilies
      /\ Req(c.tool) \cap PV = {} => KeyName(c.tool) \in Scopes!CompanyFamilies
  BY <1>1 DEF KeyAgrees
<1>3. \/ PV \subseteq Req(c.tool) \/ Req(c.tool) = {"project_id"}
      \/ Req(c.tool) \cap PV = {}
  <2>1. IdsAgree(c.tool)
    BY <1>1, ToolsAgree DEF Agree
  <2>2. \/ Req(c.tool) = {} \/ Req(c.tool) = {"project_id"} \/ Req(c.tool) = {"connection_id"}
        \/ PV \subseteq Req(c.tool)
    BY <2>1 DEF IdsAgree
  <2>3. QED  BY <2>2 DEF PV
<1>4. QED  BY <1>2, <1>3, FamiliesArePlain

Spells(path, names, n, s) ==
    /\ n \in Nat \ {0} /\ Listed(path)
    /\ Len(path) = n + Len(Printed(s, names[n])) /\ Text(Printed(s, names[n]))
    /\ \A i \in 1..n - 1 :
         path[i + 1] = Printed(s, names[i])[1] /\ Word(Printed(s, names[i]))
    /\ \A j \in 1..Len(Printed(s, names[n])) : path[n + j] = Printed(s, names[n])[j]
    /\ \A i \in 1..n : Word(Printed(s, names[i])) =>
         Len(path) >= i + 1 /\ path[i + 1] = Printed(s, names[i])[1]

LEMMA FileShape ==
    ASSUME Plain, NEW c \in CachedCalls, NEW names, names = NamesOf(c.tool),
           NEW n, n = Len(names), NEW s, s = Service(c), NEW path, path = FileOf[c]
    PROVE  path[1] = KeyName(c.tool) /\ Spells(path, names, n, s)
<1>2. /\ n \in Nat /\ n >= 1 /\ n - 1 \in Nat /\ n \in 1..n
      /\ \A i \in 1..n : names[i] = "search" => i = n
  <2>1. n \in Nat \ {0} /\ \A i \in 1..n : names[i] = "search" => i = n
    BY CachedAgree DEF KeyAgrees
  <2>2. QED  BY <2>1
<1>3. /\ \A i \in 1..n : Text(Printed(s, names[i]))
      /\ \A i \in 1..n - 1 : Word(Printed(s, names[i]))
  <2>1. \A i \in 1..n - 1 : i \in 1..n /\ i # n
    BY <1>2
  <2>2. \A m : Text(Printed(s, m)) /\ (m # "search" => Word(Printed(s, m)))
    BY CachedAgree, PrintedIsPlain
  <2>3. QED  BY <1>2, <2>1, <2>2
<1>4. PICK k : k = KeyOf[c]
  OBVIOUS
<1>5. /\ Listed(k) /\ Len(k) = n + 1 /\ k[1] = <<KeyName(c.tool)>>
      /\ \A i \in 1..n : k[i + 1] = Printed(s, names[i])
  BY <1>4, KeyShape
<1>6. Word(k[1])
  BY <1>5, FamilyOf, AWord
<1>7. ASSUME NEW i \in 1..n PROVE Len(k[i]) = 1 /\ Text(k[i])
  <2>1. CASE i = 1
    BY <1>6, <2>1 DEF Word
  <2>2. CASE i # 1
    <3>1. i - 1 \in 1..n - 1 /\ (i - 1) + 1 = i /\ i - 1 \in 1..n
      BY <1>2, <2>2
    <3>2. k[i] = Printed(s, names[i - 1])
      BY <1>5, <3>1
    <3>3. QED  BY <1>3, <3>1, <3>2 DEF Word
  <2>3. QED  BY <2>1, <2>2
<1>8. k[n + 1] = Printed(s, names[n]) /\ Text(k[n + 1])
  BY <1>2, <1>3, <1>5
<1>9. path = Path(k)
  BY <1>4 DEF FileOf
<1>11. /\ Listed(path) /\ Len(path) = n + Len(k[n + 1])
       /\ \A i \in 1..n : path[i] = k[i][1]
       /\ \A j \in 1..Len(k[n + 1]) : path[n + j] = k[n + 1][j]
  <2>1. Len(k) - 1 = n /\ Len(k) >= 1
    BY <1>2, <1>5
  <2>2. \A i \in 1..Len(k) - 1 : Len(k[i]) = 1
    BY <1>7, <2>1
  <2>3. \A i \in 1..Len(k) : Text(k[i])
    BY <1>2, <1>5, <1>7, <1>8
  <2>4. /\ Listed(path) /\ Len(path) = Len(k) - 1 + Len(k[Len(k)])
        /\ \A i \in 1..Len(k) - 1 : path[i] = k[i][1]
        /\ \A j \in 1..Len(k[Len(k)]) : path[Len(k) - 1 + j] = k[Len(k)][j]
    BY <1>5, <1>9, <2>1, <2>2, <2>3, PathOfTexts, ZenonT(40)
  <2>5. QED  BY <1>5, <2>1, <2>4
<1>12. path[1] = KeyName(c.tool)
  BY <1>2, <1>5, <1>11
<1>13. \A i \in 1..n - 1 : path[i + 1] = Printed(s, names[i])[1]
  <2>1. \A i \in 1..n - 1 : i \in 1..n /\ i + 1 \in 1..n
    BY <1>2
  <2>2. QED  BY <1>5, <1>11, <2>1
<1>14. ASSUME NEW i \in 1..n, Word(Printed(s, names[i]))
       PROVE  Len(path) >= i + 1 /\ path[i + 1] = Printed(s, names[i])[1]
  <2>1. CASE i = n
    <3>1. Len(k[n + 1]) = 1 /\ k[n + 1] = Printed(s, names[i])
      BY <1>8, <1>14, <2>1 DEF Word
    <3>2. 1 \in 1..Len(k[n + 1])
      BY <3>1
    <3>3. QED  BY <1>2, <1>11, <2>1, <3>1, <3>2
  <2>2. CASE i # n
    <3>1. i \in 1..n - 1 /\ Len(k[n + 1]) \in Nat
      BY <1>2, <1>8, <2>2 DEF Text, Listed
    <3>2. path[i + 1] = Printed(s, names[i])[1]
      BY <1>13, <3>1
    <3>3. PICK m \in Nat : m = Len(k[n + 1]) /\ Len(path) = n + m
      BY <1>11, <3>1
    <3>4. n + m >= i + 1
      <4>1. n \in Nat /\ i \in Nat /\ i <= n - 1
        BY <1>2, <3>1
      <4>2. QED  BY <4>1
    <3>5. QED  BY <3>2, <3>3, <3>4
  <2>3. QED  BY <2>1, <2>2
<1>15. Spells(path, names, n, s)
  BY <1>2, <1>3, <1>8, <1>11, <1>13, <1>14 DEF Spells
<1>16. QED  BY <1>12, <1>15

(* The file names the question: two calls that share one are the same.     *)
LEMMA FromFile ==
    ASSUME Plain, NEW c \in CachedCalls, NEW d \in CachedCalls, FileOf[c] = FileOf[d]
    PROVE  Same(c, d)
<1>1. PICK names, n, s, r, path :
        /\ names = NamesOf(c.tool) /\ n = Len(names)
        /\ s = Service(c) /\ r = Service(d) /\ path = FileOf[c] /\ path = FileOf[d]
  OBVIOUS
<1>2. path[1] = KeyName(c.tool) /\ path[1] = KeyName(d.tool)
      /\ Spells(path, names, n, s) /\ n \in Nat \ {0}
  <2>1. path[1] = KeyName(c.tool) /\ Spells(path, names, n, s)
    BY <1>1, FileShape
  <2>2. path[1] = KeyName(d.tool)
    BY <1>1, FileShape
  <2>3. QED  BY <2>1, <2>2 DEF Spells
<1>3. Twin(c.tool) = Twin(d.tool)
  <2>1. KeyName(c.tool) # "none" /\ KeyName(d.tool) # "none"
    BY CachedAgree
  <2>2. TwinAgrees(c.tool) /\ TwinAgrees(d.tool)
    BY CachedAgree, ToolsAgree DEF Agree
  <2>3. Twin(c.tool) = ToolOf(KeyName(c.tool)) /\ Twin(d.tool) = ToolOf(KeyName(d.tool))
    BY <2>1, <2>2 DEF TwinAgrees
  <2>4. QED  BY <1>2, <2>3
<1>4. names = NamesOf(d.tool)
  BY <1>1, <1>2 DEF NamesOf
<1>5. PICK u, w : u = Printed(s, names[n]) /\ w = Printed(r, names[n])
  OBVIOUS
<1>6. /\ Len(path) = n + Len(u) /\ Text(u)
      /\ \A i \in 1..n - 1 : path[i + 1] = Printed(s, names[i])[1] /\ Word(Printed(s, names[i]))
      /\ \A j \in 1..Len(u) : path[n + j] = u[j]
  <2>1. /\ Len(path) = n + Len(Printed(s, names[n])) /\ Text(Printed(s, names[n]))
        /\ \A i \in 1..n - 1 :
             path[i + 1] = Printed(s, names[i])[1] /\ Word(Printed(s, names[i]))
        /\ \A j \in 1..Len(Printed(s, names[n])) : path[n + j] = Printed(s, names[n])[j]
    BY <1>2 DEF Spells
  <2>2. QED  BY <1>5, <2>1
<1>7. /\ Len(path) = n + Len(w) /\ Text(w)
      /\ \A i \in 1..n - 1 : path[i + 1] = Printed(r, names[i])[1] /\ Word(Printed(r, names[i]))
      /\ \A j \in 1..Len(w) : path[n + j] = w[j]
  <2>1. /\ Len(path) = n + Len(Printed(r, names[n])) /\ Text(Printed(r, names[n]))
        /\ \A i \in 1..n - 1 :
             path[i + 1] = Printed(r, names[i])[1] /\ Word(Printed(r, names[i]))
        /\ \A j \in 1..Len(Printed(r, names[n])) : path[n + j] = Printed(r, names[n])[j]
    <3>1. Spells(path, names, n, r)
      BY <1>1, <1>4, FileShape
    <3>2. QED  BY <3>1 DEF Spells
  <2>2. QED  BY <1>5, <2>1
<1>8. u = w
  <2>1. Listed(u) /\ Listed(w) /\ Len(u) \in Nat /\ Len(w) \in Nat
    BY <1>6, <1>7 DEF Text, Listed
  <2>2. Len(u) = Len(w)
    BY <1>2, <1>6, <1>7, <2>1
  <2>3. \A j \in 1..Len(u) : u[j] = w[j]
    BY <1>6, <1>7, <2>2
  <2>4. QED  BY <2>1, <2>2, <2>3, ListsAreEqual
<1>9. ASSUME NEW i \in 1..n PROVE Printed(s, names[i]) = Printed(r, names[i])
  <2>1. CASE i = n
    BY <1>5, <1>8, <2>1
  <2>2. CASE i # n
    <3>1. PICK x, y : x = Printed(s, names[i]) /\ y = Printed(r, names[i])
      OBVIOUS
    <3>2. i \in 1..n - 1
      BY <1>2, <2>2
    <3>3. Word(x) /\ Word(y) /\ x[1] = y[1]
      BY <1>6, <1>7, <3>1, <3>2
    <3>4. x = y
      <4>1. Listed(x) /\ Listed(y) /\ Len(x) = 1 /\ Len(y) = 1
        BY <3>3 DEF Word, Text
      <4>2. \A j \in 1..Len(x) : x[j] = y[j]
        BY <3>3, <4>1
      <4>3. QED  BY <4>1, <4>2, ListsAreEqual
    <3>5. QED  BY <3>1, <3>4
  <2>3. QED  BY <2>1, <2>2
<1>10. \A m \in Counts(c.tool) : \E i \in 1..n : names[i] = m
  BY <1>1, CachedAgree DEF KeyAgrees
<1>11. \A m \in Counts(c.tool) : Printed(s, m) = Printed(r, m)
  BY <1>9, <1>10
<1>12. QED  BY <1>1, <1>3, <1>11 DEF Same

-----------------------------------------------------------------------------
(* What refresh_cache drops.  Where a path starts with a prefix it agrees  *)
(* with it on every component.                                             *)
LEMMA StartsWith ==
    ASSUME NEW s, NEW t, Listed(s), Listed(t)
    PROVE  Scopes!IsStart(s, t) <=>
             Len(s) <= Len(t) /\ \A i \in 1..Len(s) : t[i] = s[i]
<1>1. PICK m \in Nat, n \in Nat : m = Len(s) /\ n = Len(t)
  BY DEF Listed
<1>2. m <= n => SubSeq(t, 1, m) = [i \in 1..m |-> t[i]]
  <2>1. PICK T : T = {t[i] : i \in 1..n}
    OBVIOUS
  <2>2. t \in Seq(T)
    <3>1. t = [i \in 1..n |-> t[i]]
      BY <1>1 DEF Listed
    <3>2. t \in [1..n -> T]
      BY <2>1, <3>1
    <3>3. QED  BY <3>2, Sequenced
  <2>3. ASSUME m <= n PROVE SubSeq(t, 1, m) = [i \in 1..m |-> t[i]]
    <3>1. PICK u : u = SubSeq(t, 1, m)
      OBVIOUS
    <3>2. /\ u \in Seq(T) /\ Len(u) = m
          /\ \A i \in 1..m : u[i] = t[i]
      BY <1>1, <2>2, <2>3, <3>1
    <3>3. u = [i \in 1..m |-> t[i]]
      BY <3>2
    <3>4. QED  BY <3>1, <3>3
  <2>4. QED  BY <2>3
<1>3. s = [i \in 1..m |-> s[i]]
  BY <1>1 DEF Listed
<1>4. [i \in 1..m |-> t[i]] = s <=> \A i \in 1..m : t[i] = s[i]
  BY <1>3
<1>5. QED  BY <1>1, <1>2, <1>4 DEF Scopes!IsStart

LEMMA StartsOnly ==
    ASSUME NEW s, NEW t, Listed(s), Listed(t), Scopes!IsStart(s, t)
    PROVE  Len(s) <= Len(t) /\ \A i \in 1..Len(s) : t[i] = s[i]
BY StartsWith

LEMMA Starts ==
    ASSUME NEW s, NEW t, Listed(s), Listed(t), Len(s) <= Len(t),
           \A i \in 1..Len(s) : t[i] = s[i]
    PROVE  Scopes!IsStart(s, t)
BY StartsWith

LEMMA PrefixPath ==
    ASSUME NEW k, Listed(k), Len(k) >= 1, \A i \in 1..Len(k) : Word(k[i])
    PROVE  /\ Listed(Path(k)) /\ Len(Path(k)) = Len(k)
           /\ \A i \in 1..Len(k) : Path(k)[i] = k[i][1]
<1>1. PICK n \in Nat : n = Len(k) /\ n >= 1 /\ n \in 1..n /\ n - 1 \in Nat
  BY DEF Listed
<1>2. PICK path : path = Path(k)
  OBVIOUS
<1>3. \A i \in 1..n : Text(k[i]) /\ Len(k[i]) = 1
  BY <1>1 DEF Word
<1>4. /\ Listed(path) /\ Len(path) = Len(k) - 1 + Len(k[Len(k)])
      /\ \A i \in 1..Len(k) - 1 : path[i] = k[i][1]
      /\ \A j \in 1..Len(k[Len(k)]) : path[Len(k) - 1 + j] = k[Len(k)][j]
  <2>1. \A i \in 1..Len(k) - 1 : Len(k[i]) = 1
    BY <1>1, <1>3
  <2>2. \A i \in 1..Len(k) : Text(k[i])
    BY <1>1, <1>3
  <2>3. QED  BY <1>2, <2>1, <2>2, PathOfTexts
<1>5. Len(k[n]) = 1 /\ 1 \in 1..1 /\ n - 1 + 1 = n
  BY <1>1, <1>3
<1>6. path[n] = k[n][1] /\ Len(path) = n
  BY <1>1, <1>4, <1>5
<1>7. ASSUME NEW i \in 1..n PROVE path[i] = k[i][1]
  <2>1. i = n \/ i \in 1..n - 1
    OBVIOUS
  <2>2. QED  BY <1>1, <1>4, <1>6, <2>1
<1>8. QED  BY <1>1, <1>2, <1>4, <1>6, <1>7

(* The directories that refresh_cache drops, by how deep they lie.         *)
OfFamily(f) == << <<f>> >>
OfProject(f, p) == << <<f>>, p >>
OfVersion(f, p, v) == << <<f>>, p, v >>

LEMMA FamilyPath ==
    ASSUME NEW f, f # ":", f # "/", NEW s, s = Path(OfFamily(f))
    PROVE  Listed(s) /\ Len(s) = 1 /\ s[1] = f
<1>1. Word(<<f>>) /\ <<f>>[1] = f
  BY AWord
<1>2. PICK k : k = OfFamily(f)
  OBVIOUS
<1>3. Listed(k) /\ Len(k) = 1 /\ k[1] = <<f>>
  BY <1>2 DEF OfFamily, Listed
<1>4. \A i \in 1..Len(k) : Word(k[i])
  BY <1>1, <1>3
<1>5. Listed(s) /\ Len(s) = Len(k) /\ \A i \in 1..Len(k) : s[i] = k[i][1]
  <2>1. s = Path(k) /\ Len(k) >= 1
    BY <1>2, <1>3
  <2>2. QED  BY <1>3, <1>4, <2>1, PrefixPath
<1>6. QED  BY <1>1, <1>3, <1>5

LEMMA ProjectPath ==
    ASSUME NEW f, f # ":", f # "/", NEW p, Word(p), NEW s, s = Path(OfProject(f, p))
    PROVE  Listed(s) /\ Len(s) = 2 /\ s[1] = f /\ s[2] = p[1]
<1>1. Word(<<f>>) /\ <<f>>[1] = f
  BY AWord
<1>2. PICK k : k = OfProject(f, p)
  OBVIOUS
<1>3. Listed(k) /\ Len(k) = 2 /\ k[1] = <<f>> /\ k[2] = p
  BY <1>2 DEF OfProject, Listed
<1>4. \A i \in 1..Len(k) : Word(k[i])
  BY <1>1, <1>3
<1>5. Listed(s) /\ Len(s) = Len(k) /\ \A i \in 1..Len(k) : s[i] = k[i][1]
  <2>1. s = Path(k) /\ Len(k) >= 1
    BY <1>2, <1>3
  <2>2. QED  BY <1>3, <1>4, <2>1, PrefixPath
<1>6. QED  BY <1>1, <1>3, <1>5

LEMMA VersionPath ==
    ASSUME NEW f, f # ":", f # "/", NEW p, Word(p),
           NEW v, Word(v), NEW s, s = Path(OfVersion(f, p, v))
    PROVE  Listed(s) /\ Len(s) = 3 /\ s[1] = f /\ s[2] = p[1] /\ s[3] = v[1]
<1>1. Word(<<f>>) /\ <<f>>[1] = f
  BY AWord
<1>2. PICK k : k = OfVersion(f, p, v)
  OBVIOUS
<1>3. Listed(k) /\ Len(k) = 3 /\ k[1] = <<f>> /\ k[2] = p /\ k[3] = v
  BY <1>2 DEF OfVersion, Listed
<1>4. \A i \in 1..Len(k) : Word(k[i])
  BY <1>1, <1>3
<1>5. Listed(s) /\ Len(s) = Len(k) /\ \A i \in 1..Len(k) : s[i] = k[i][1]
  <2>1. s = Path(k) /\ Len(k) >= 1
    BY <1>2, <1>3
  <2>2. QED  BY <1>3, <1>4, <2>1, PrefixPath
<1>6. QED  BY <1>1, <1>3, <1>5

(* A prefix never goes deeper than the ids that its family starts with.    *)
LEMMA VersionRows ==
    /\ Len(Scopes!VersionPrefixes) = 17
    /\ \A j \in 1..17 :
         /\ Scopes!VersionPrefixes[j] # ":" /\ Scopes!VersionPrefixes[j] # "/"
         /\ Scopes!VersionPrefixes[j] \notin Scopes!CompanyFamilies \cup Scopes!ProjectFamilies
    /\ \A f \in Scopes!VersionFamilies : \E j \in 1..17 : Scopes!VersionPrefixes[j] = f
<1>1. PICK names : names = Scopes!VersionPrefixes
  OBVIOUS
<1> DEFINE Names == {"measures", "dimensions", "facts", "rmd", "consolidated_rmd",
                     "data_marts", "data_mart", "data_mart_view", "connections",
                     "connection", "connection_schema", "dimension_groups",
                     "dimension_group", "fact_tables", "fact_table", "relationships",
                     "relationship"}
<1>2. /\ Len(names) = 17 /\ names[1] = "measures" /\ names[2] = "dimensions"
      /\ names[3] = "facts" /\ names[4] = "rmd" /\ names[5] = "consolidated_rmd"
      /\ names[6] = "data_marts" /\ names[7] = "data_mart" /\ names[8] = "data_mart_view"
      /\ names[9] = "connections" /\ names[10] = "connection"
      /\ names[11] = "connection_schema" /\ names[12] = "dimension_groups"
      /\ names[13] = "dimension_group" /\ names[14] = "fact_tables"
      /\ names[15] = "fact_table" /\ names[16] = "relationships"
      /\ names[17] = "relationship"
  BY <1>1 DEF Scopes!VersionPrefixes
<1>3. \A f \in Scopes!VersionFamilies : \E j \in 1..17 : names[j] = f
  BY <1>2 DEF Scopes!VersionFamilies
<1>4. 1..17 = {1, 2, 3, 4, 5, 6, 7, 8, 9, 10, 11, 12, 13, 14, 15, 16, 17}
  OBVIOUS
<1>5. \A j \in 1..17 : names[j] \in Names
  BY <1>2, <1>4
<1>6. \A x \in Names : /\ x # ":" /\ x # "/"
                       /\ x \notin Scopes!CompanyFamilies \cup Scopes!ProjectFamilies
  BY DEF Scopes!CompanyFamilies, Scopes!ProjectFamilies
<1> HIDE DEF Names
<1>7. QED  BY <1>1, <1>2, <1>3, <1>5, <1>6

LEMMA ScopePrefixes ==
    ASSUME NEW scope, NEW p, NEW v, NEW prefixes, prefixes = Scopes!prefixes_for(scope, p, v)
    PROVE  /\ scope = "GLOBAL" => DOMAIN prefixes = {1} /\ prefixes[1] = OfFamily("projects")
           /\ scope = "VERSION" =>
                /\ DOMAIN prefixes = 1..17
                /\ \A j \in 1..17 :
                     prefixes[j] = OfVersion(Scopes!VersionPrefixes[j], p, v)
           /\ scope = "PROJECT" =>
                /\ DOMAIN prefixes = 1..20
                /\ \A j \in 1..17 : prefixes[j] = OfProject(Scopes!VersionPrefixes[j], p)
                /\ \A j \in 18..20 :
                     prefixes[j] \in {OfFamily("projects"), OfProject("versions", p),
                                      OfProject("project_access", p)}
<1>1. PICK names : names = Scopes!VersionPrefixes
  OBVIOUS
<1>2. Len(names) = 17
  BY <1>1, VersionRows
<1>3. ASSUME scope = "GLOBAL"
      PROVE  DOMAIN prefixes = {1} /\ prefixes[1] = OfFamily("projects")
  <2>1. prefixes = << OfFamily("projects") >>
    BY <1>3 DEF Scopes!prefixes_for, OfFamily
  <2>2. QED  BY <2>1
<1>4. ASSUME scope = "VERSION"
      PROVE  DOMAIN prefixes = 1..17 /\ \A j \in 1..17 : prefixes[j] = OfVersion(names[j], p, v)
  <2>1. prefixes = [j \in 1..Len(names) |-> OfVersion(names[j], p, v)]
    BY <1>1, <1>4 DEF Scopes!prefixes_for, OfVersion
  <2>2. QED  BY <1>2, <2>1
<1>5. ASSUME scope = "PROJECT"
      PROVE  /\ DOMAIN prefixes = 1..20
             /\ \A j \in 1..17 : prefixes[j] = OfProject(names[j], p)
             /\ \A j \in 18..20 :
                  prefixes[j] \in {OfFamily("projects"), OfProject("versions", p),
                                   OfProject("project_access", p)}
  <2>1. PICK a, b : /\ a = [j \in 1..17 |-> OfProject(names[j], p)]
                    /\ b = << OfFamily("projects"), OfProject("versions", p),
                              OfProject("project_access", p) >>
    OBVIOUS
  <2>2. prefixes = a \o b
    <3>1. prefixes = [j \in 1..Len(names) |-> OfProject(names[j], p)] \o b
      BY <1>1, <1>5, <2>1 DEF Scopes!prefixes_for, OfProject, OfFamily
    <3>2. QED  BY <1>2, <2>1, <3>1
  <2>3. PICK S : S = {a[j] : j \in 1..17} \cup {b[1], b[2], b[3]}
    OBVIOUS
  <2>4. a \in Seq(S) /\ Len(a) = 17
    <3>1. a \in [1..17 -> S]
      BY <2>1, <2>3
    <3>2. QED  BY ONLY <3>1, Sequenced
  <2>5. b \in Seq(S) /\ Len(b) = 3
    BY <2>1, <2>3
  <2>6. /\ prefixes \in Seq(S) /\ Len(prefixes) = Len(a) + Len(b)
        /\ \A j \in 1..Len(a) : prefixes[j] = a[j]
        /\ \A j \in 1..Len(b) : prefixes[Len(a) + j] = b[j]
    <3>1. /\ a \o b \in Seq(S) /\ Len(a \o b) = Len(a) + Len(b)
          /\ \A j \in 1..Len(a) : (a \o b)[j] = a[j]
          /\ \A j \in 1..Len(b) : (a \o b)[Len(a) + j] = b[j]
      <4>1. a \in Seq(S) /\ b \in Seq(S)
        BY <2>4, <2>5
      <4>2. QED  BY ONLY <4>1, Glued
    <3>2. QED  BY <2>2, <3>1
  <2>7. /\ Len(prefixes) = 20 /\ \A j \in 1..17 : prefixes[j] = a[j]
        /\ \A j \in 1..3 : prefixes[17 + j] = b[j]
    BY <2>4, <2>5, <2>6
  <2>8. ASSUME NEW j \in 18..20
        PROVE  prefixes[j] \in {OfFamily("projects"), OfProject("versions", p),
                                OfProject("project_access", p)}
    <3>1. j - 17 \in {1, 2, 3} /\ j - 17 \in 1..3 /\ 17 + (j - 17) = j
      OBVIOUS
    <3>2. prefixes[j] = b[j - 17]
      BY <2>7, <3>1
    <3>3. QED  BY <2>1, <3>1, <3>2
  <2>9. DOMAIN prefixes = 1..20
    <3>1. prefixes \in Seq(S) /\ Len(prefixes) = 20
      BY <2>6, <2>7
    <3>2. DOMAIN prefixes = 1..Len(prefixes)
      BY ONLY <3>1
    <3>3. QED  BY <3>1, <3>2
  <2>10. QED  BY <2>1, <2>7, <2>8, <2>9
<1>6. QED  BY <1>1, <1>3, <1>4, <1>5

LEMMA PrefixesAre ==
    ASSUME NEW scope \in {"VERSION", "PROJECT", "GLOBAL"}, NEW p, NEW v,
           NEW prefixes, prefixes = Scopes!prefixes_for(scope, p, v), NEW i \in DOMAIN prefixes
    PROVE  \E f : /\ f # ":" /\ f # "/"
                  /\ \/ prefixes[i] = OfFamily(f)
                     \/ prefixes[i] = OfProject(f, p) /\ f \notin Scopes!CompanyFamilies
                     \/ /\ prefixes[i] = OfVersion(f, p, v)
                        /\ f \notin Scopes!CompanyFamilies \cup Scopes!ProjectFamilies
<1>1. PICK names : names = Scopes!VersionPrefixes
  OBVIOUS
<1>2. \A j \in 1..17 :
        /\ names[j] # ":" /\ names[j] # "/"
        /\ names[j] \notin Scopes!CompanyFamilies \cup Scopes!ProjectFamilies
  BY <1>1, VersionRows
<1>3. CASE scope = "GLOBAL"
  <2>1. i = 1 /\ prefixes[1] = OfFamily("projects")
    BY <1>3, ScopePrefixes
  <2>2. "projects" # ":" /\ "projects" # "/"
    OBVIOUS
  <2>3. QED  BY <2>1, <2>2
<1>4. CASE scope = "VERSION"
  <2>1. i \in 1..17 /\ prefixes[i] = OfVersion(names[i], p, v)
    BY <1>1, <1>4, ScopePrefixes
  <2>2. QED  BY <1>2, <2>1
<1>5. CASE scope = "PROJECT"
  <2>1. /\ i \in 1..20 /\ (i \in 1..17 => prefixes[i] = OfProject(names[i], p))
        /\ i \in 18..20 => prefixes[i] \in {OfFamily("projects"), OfProject("versions", p),
                                             OfProject("project_access", p)}
    BY <1>1, <1>5, ScopePrefixes
  <2>2. CASE i \in 1..17
    BY <1>2, <2>1, <2>2
  <2>3. CASE i \notin 1..17
    <3>1. i \in 18..20
      BY <2>1, <2>3
    <3>2. /\ "versions" \notin Scopes!CompanyFamilies
          /\ "project_access" \notin Scopes!CompanyFamilies
          /\ \A x \in {"projects", "versions", "project_access"} : x # ":" /\ x # "/"
      BY DEF Scopes!CompanyFamilies
    <3>3. QED  BY <2>1, <3>1, <3>2
  <2>4. QED  BY <2>2, <2>3
<1>6. QED  BY <1>3, <1>4, <1>5

(* Every family that is about a version is dropped.                        *)
LEMMA VersionsAreCovered ==
    ASSUME NEW scope \in {"VERSION", "PROJECT"}, NEW p, NEW v, NEW f \in Scopes!VersionFamilies,
           NEW prefixes, prefixes = Scopes!prefixes_for(scope, p, v)
    PROVE  \E i \in DOMAIN prefixes : prefixes[i] \in {OfProject(f, p), OfVersion(f, p, v)}
<1>1. PICK j \in 1..17 : Scopes!VersionPrefixes[j] = f
  BY VersionRows
<1>2. CASE scope = "VERSION"
  <2>1. j \in DOMAIN prefixes /\ prefixes[j] = OfVersion(f, p, v)
    BY <1>1, <1>2, ScopePrefixes
  <2>2. QED  BY <2>1
<1>3. CASE scope = "PROJECT"
  <2>1. DOMAIN prefixes = 1..20 /\ prefixes[j] = OfProject(f, p)
    BY <1>1, <1>3, ScopePrefixes
  <2>2. QED  BY <2>1
<1>4. QED  BY <1>2, <1>3

(* A file starts with its family and then the project and the version that *)
(* the answer is about.                                                    *)
LEMMA IdsStart ==
    ASSUME NEW t \in Tools, NEW e, e = EndpointOf(t).ids
    PROVE  /\ PV \subseteq Req(t) =>
                Len(e) \in Nat /\ Len(e) >= 2 /\ e[1] = "project_id" /\ e[2] = "version_id"
           /\ Req(t) = {"project_id"} => Len(e) = 1 /\ e[1] = "project_id"
           /\ Len(e) > 1 => PV \subseteq Req(t)
<1>1. \/ Req(t) = {} /\ e = <<>>
      \/ Req(t) = {"project_id"} /\ e = <<"project_id">>
      \/ Req(t) = {"connection_id"} /\ e = <<"connection_id">>
      \/ Req(t) = PV /\ e = InVersion
      \/ \E x \in EntityIds : Req(t) = PV \cup {x} /\ e = InVersion \o <<x>>
  BY ToolsAgree DEF Agree, IdsAgree
<1> DEFINE Goal == /\ PV \subseteq Req(t) =>
                        /\ Len(e) \in Nat /\ Len(e) >= 2
                        /\ e[1] = "project_id" /\ e[2] = "version_id"
                   /\ Req(t) = {"project_id"} => Len(e) = 1 /\ e[1] = "project_id"
                   /\ Len(e) > 1 => PV \subseteq Req(t)
<1>2. ASSUME Req(t) = {}, e = <<>> PROVE Goal
  BY <1>2 DEF PV
<1>3. ASSUME Req(t) = {"project_id"}, e = <<"project_id">> PROVE Goal
  BY <1>3 DEF PV
<1>4. ASSUME Req(t) = {"connection_id"}, e = <<"connection_id">> PROVE Goal
  BY <1>4 DEF PV
<1>5. ASSUME Req(t) = PV, e = InVersion PROVE Goal
  <2>1. Req(t) # {"project_id"}
    BY <1>5 DEF PV
  <2>2. Len(e) = 2 /\ e[1] = "project_id" /\ e[2] = "version_id"
    BY <1>5 DEF InVersion
  <2>3. QED  BY <1>5, <2>1, <2>2
<1>6. ASSUME NEW x \in EntityIds, Req(t) = PV \cup {x}, e = InVersion \o <<x>> PROVE Goal
  <2>1. e = <<"project_id", "version_id", x>>
    BY <1>6, Appended DEF InVersion
  <2>2. Len(e) = 3 /\ e[1] = "project_id" /\ e[2] = "version_id"
    BY <2>1
  <2>3. PV \subseteq Req(t) /\ Req(t) # {"project_id"}
    BY <1>6 DEF PV
  <2>4. QED  BY <2>2, <2>3
<1> HIDE DEF Goal
<1>7. Goal
  BY <1>1, <1>2, <1>3, <1>4, <1>5, <1>6
<1>8. QED  BY <1>7 DEF Goal

LEMMA Leading ==
    ASSUME Plain, NEW c \in CachedCalls, NEW path, path = FileOf[c],
           NEW ids, ids = Asked[c].ids
    PROVE  /\ Listed(path) /\ Len(path) \in Nat /\ Len(path) >= 1 /\ path[1] = KeyName(c.tool)
           /\ PV \subseteq Req(c.tool) =>
                Len(path) >= 3 /\ path[2] = ids[1][1] /\ path[3] = ids[2][1]
           /\ Req(c.tool) = {"project_id"} => Len(path) >= 2 /\ path[2] = ids[1][1]
           /\ Len(ids) > 1 => PV \subseteq Req(c.tool)
<1>1. PICK names, n, s, e :
        /\ names = NamesOf(c.tool) /\ n = Len(names) /\ s = Service(c)
        /\ e = EndpointOf(c.tool).ids
  OBVIOUS
<1>2. c \in Calls /\ c.tool \in Tools /\ KeyAgrees(c.tool)
  BY CachedAgree
<1>3. path[1] = KeyName(c.tool) /\ Spells(path, names, n, s)
  BY <1>1, FileShape
<1>4. /\ n \in Nat \ {0} /\ Listed(path) /\ Len(path) = n + Len(Printed(s, names[n]))
      /\ Text(Printed(s, names[n]))
      /\ \A i \in 1..n : Word(Printed(s, names[i])) =>
           Len(path) >= i + 1 /\ path[i + 1] = Printed(s, names[i])[1]
  BY <1>3 DEF Spells
<1>5. Len(path) \in Nat /\ Len(path) >= 1
  <2>1. PICK m \in Nat : m = Len(Printed(s, names[n]))
    BY <1>4 DEF Text, Listed
  <2>2. QED  BY <1>4, <2>1
<1>6. \A x \in Req(c.tool) : Printed(s, x) = s[x]
  <2>1. Req(c.tool) \subseteq DOMAIN s
    BY <1>1, <1>2, CallShape, ServiceShape
  <2>2. QED  BY <2>1 DEF Printed
<1>7. /\ Len(ids) = Len(e) /\ \A i \in 1..Len(e) : ids[i] = s[e[i]]
  BY <1>1, <1>2, AskedIds
<1>8. Word(Printed(s, "project_id")) /\ Word(Printed(s, "version_id"))
  BY <1>1, <1>2, PrintedIsPlain
<1>9. ASSUME PV \subseteq Req(c.tool)
      PROVE  Len(path) >= 3 /\ path[2] = ids[1][1] /\ path[3] = ids[2][1]
  <2>1. n >= 2 /\ names[1] = "project_id" /\ names[2] = "version_id"
    BY <1>1, <1>2, <1>9 DEF KeyAgrees
  <2>2. 1 \in 1..n /\ 2 \in 1..n /\ 1 + 1 = 2 /\ 2 + 1 = 3
    BY <1>4, <2>1
  <2>3. /\ Len(path) >= 3 /\ path[2] = Printed(s, "project_id")[1]
        /\ path[3] = Printed(s, "version_id")[1]
    BY <1>4, <1>8, <2>1, <2>2
  <2>4. Len(e) \in Nat /\ Len(e) >= 2 /\ e[1] = "project_id" /\ e[2] = "version_id"
    BY <1>1, <1>2, <1>9, IdsStart
  <2>5. ids[1] = s["project_id"] /\ ids[2] = s["version_id"]
    BY <1>7, <2>4
  <2>6. "project_id" \in Req(c.tool) /\ "version_id" \in Req(c.tool)
    BY <1>9 DEF PV
  <2>7. QED  BY <1>6, <2>3, <2>5, <2>6
<1>10. ASSUME Req(c.tool) = {"project_id"}
       PROVE  Len(path) >= 2 /\ path[2] = ids[1][1]
  <2>1. n >= 1 /\ names[1] = "project_id" /\ 1 \in 1..n /\ 1 + 1 = 2
    <3>1. names[1] = "project_id"
      BY <1>1, <1>2, <1>10 DEF KeyAgrees
    <3>2. QED  BY <1>4, <3>1
  <2>2. Len(path) >= 2 /\ path[2] = Printed(s, "project_id")[1]
    BY <1>4, <1>8, <2>1
  <2>3. Len(e) = 1 /\ e[1] = "project_id"
    BY <1>1, <1>2, <1>10, IdsStart
  <2>4. ids[1] = s["project_id"]
    BY <1>7, <2>3
  <2>5. QED  BY <1>6, <1>10, <2>2, <2>4
<1>11. Len(ids) > 1 => PV \subseteq Req(c.tool)
  BY <1>1, <1>2, <1>7, IdsStart
<1>12. QED  BY <1>3, <1>4, <1>5, <1>9, <1>10, <1>11

LEMMA AnIdIsAWord == ASSUME Plain, NEW p \in Ids PROVE Word(p)
BY DEF Plain

(* A prefix that covers a file covers every file about the same thing.     *)
LEMMA SameStart ==
    ASSUME Plain, NEW c \in CachedCalls, NEW d \in CachedCalls,
           Asked[c].resource = Asked[d].resource, Asked[c].ids = Asked[d].ids,
           NEW scope \in {"VERSION", "PROJECT", "GLOBAL"}, NEW p \in Ids, NEW v \in Ids,
           NEW prefixes, prefixes = Scopes!prefixes_for(scope, p, v), NEW i \in DOMAIN prefixes,
           Scopes!IsStart(Path(prefixes[i]), FileOf[c])
    PROVE  Scopes!IsStart(Path(prefixes[i]), FileOf[d])
<1>1. PICK a, b, ids, t :
        /\ a = FileOf[c] /\ b = FileOf[d] /\ ids = Asked[c].ids /\ ids = Asked[d].ids
        /\ t = c.tool
  OBVIOUS
<1>2. Twin(c.tool) = Twin(d.tool)
  BY CachedAgree, AskedParts, ToolsAgree DEF Agree, TwinAgrees
<1>3. Req(t) = Req(d.tool) /\ KeyName(t) = KeyName(d.tool)
  BY <1>1, <1>2, CachedAgree, TwinsAgree DEF KeyName
<1>4. /\ Listed(a) /\ Len(a) \in Nat /\ Len(a) >= 1 /\ a[1] = KeyName(t)
      /\ PV \subseteq Req(t) => Len(a) >= 3 /\ a[2] = ids[1][1] /\ a[3] = ids[2][1]
      /\ Req(t) = {"project_id"} => Len(a) >= 2 /\ a[2] = ids[1][1]
  BY <1>1, Leading
<1>5. /\ Listed(b) /\ Len(b) \in Nat /\ Len(b) >= 1 /\ b[1] = KeyName(t)
      /\ PV \subseteq Req(t) => Len(b) >= 3 /\ b[2] = ids[1][1] /\ b[3] = ids[2][1]
      /\ Req(t) = {"project_id"} => Len(b) >= 2 /\ b[2] = ids[1][1]
  <2>1. /\ Listed(b) /\ Len(b) \in Nat /\ Len(b) >= 1 /\ b[1] = KeyName(d.tool)
        /\ PV \subseteq Req(d.tool) => Len(b) >= 3 /\ b[2] = ids[1][1] /\ b[3] = ids[2][1]
        /\ Req(d.tool) = {"project_id"} => Len(b) >= 2 /\ b[2] = ids[1][1]
    BY <1>1, Leading
  <2>2. QED  BY <1>3, <2>1
<1>6. PICK f : /\ f # ":" /\ f # "/"
               /\ \/ prefixes[i] = OfFamily(f)
                  \/ prefixes[i] = OfProject(f, p) /\ f \notin Scopes!CompanyFamilies
                  \/ /\ prefixes[i] = OfVersion(f, p, v)
                     /\ f \notin Scopes!CompanyFamilies \cup Scopes!ProjectFamilies
  BY PrefixesAre
<1>7. PICK s : s = Path(prefixes[i])
  OBVIOUS
<1>8. Scopes!IsStart(s, a)
  BY <1>1, <1>7
<1>9. Word(p) /\ Word(v)
  BY AnIdIsAWord
<1>10. /\ PV \subseteq Req(t) \/ Req(t) = {"project_id"}
            \/ KeyName(t) \in Scopes!CompanyFamilies
       /\ PV \subseteq Req(t)
            \/ KeyName(t) \in Scopes!CompanyFamilies \cup Scopes!ProjectFamilies
  BY <1>1, FamilyOf
<1>11. CASE prefixes[i] = OfFamily(f)
  <2>1. Listed(s) /\ Len(s) = 1 /\ s[1] = f
    BY <1>6, <1>7, <1>9, <1>11, FamilyPath
  <2>2. a[1] = f
    <3>1. Listed(s) /\ Listed(a)
      BY <1>4, <2>1
    <3>2. Len(s) <= Len(a) /\ \A j \in 1..Len(s) : a[j] = s[j]
      BY ONLY <1>8, <3>1, StartsOnly
    <3>3. QED  BY <2>1, <3>2
  <2>3. Len(s) <= Len(b) /\ \A j \in 1..Len(s) : b[j] = s[j]
    BY <1>4, <1>5, <2>1, <2>2
  <2>4. QED  BY <1>1, <1>5, <1>7, <2>1, <2>3, Starts
<1>12. CASE prefixes[i] = OfProject(f, p) /\ f \notin Scopes!CompanyFamilies
  <2>1. Listed(s) /\ Len(s) = 2 /\ s[1] = f /\ s[2] = p[1]
    BY <1>6, <1>7, <1>9, <1>12, ProjectPath
  <2>2. Len(s) <= Len(a) /\ \A j \in 1..Len(s) : a[j] = s[j]
    <3>1. Listed(s) /\ Listed(a)
      BY <1>4, <2>1
    <3>2. QED  BY ONLY <1>8, <3>1, StartsOnly
  <2>3. a[1] = f /\ a[2] = p[1]
    BY <2>1, <2>2
  <2>4. PV \subseteq Req(t) \/ Req(t) = {"project_id"}
    BY <1>4, <1>10, <1>12, <2>3
  <2>5. Len(b) >= 2 /\ b[1] = f /\ b[2] = p[1]
    BY <1>4, <1>5, <2>3, <2>4
  <2>6. Len(s) <= Len(b) /\ \A j \in 1..Len(s) : b[j] = s[j]
    BY <1>5, <2>1, <2>5
  <2>7. QED  BY <1>1, <1>5, <1>7, <2>1, <2>6, Starts
<1>13. CASE /\ prefixes[i] = OfVersion(f, p, v)
            /\ f \notin Scopes!CompanyFamilies \cup Scopes!ProjectFamilies
  <2>1. Listed(s) /\ Len(s) = 3 /\ s[1] = f /\ s[2] = p[1] /\ s[3] = v[1]
    BY <1>6, <1>7, <1>9, <1>13, VersionPath
  <2>2. Len(s) <= Len(a) /\ \A j \in 1..Len(s) : a[j] = s[j]
    <3>1. Listed(s) /\ Listed(a)
      BY <1>4, <2>1
    <3>2. QED  BY ONLY <1>8, <3>1, StartsOnly
  <2>3. a[1] = f /\ a[2] = p[1] /\ a[3] = v[1]
    BY <2>1, <2>2
  <2>4. PV \subseteq Req(t)
    BY <1>4, <1>10, <1>13, <2>3
  <2>5. Len(b) >= 3 /\ b[1] = f /\ b[2] = p[1] /\ b[3] = v[1]
    BY <1>4, <1>5, <2>3, <2>4
  <2>6. Len(s) <= Len(b) /\ \A j \in 1..Len(s) : b[j] = s[j]
    BY <1>5, <2>1, <2>5
  <2>7. QED  BY <1>1, <1>5, <1>7, <2>1, <2>6, Starts
<1>14. QED  BY <1>6, <1>11, <1>12, <1>13

(* A refresh of a version, or of its project, reaches every file about it. *)
LEMMA VersionIsCleared ==
    ASSUME Plain, NEW c \in CachedCalls, NEW ids, ids = Asked[c].ids, Len(ids) > 1,
           NEW scope \in {"VERSION", "PROJECT"}, NEW p \in Ids, NEW v \in Ids,
           ids[1] = p, ids[2] = v,
           NEW prefixes, prefixes = Scopes!prefixes_for(scope, p, v)
    PROVE  \E i \in DOMAIN prefixes : Scopes!IsStart(Path(prefixes[i]), FileOf[c])
<1>1. PICK a, f : a = FileOf[c] /\ f = KeyName(c.tool)
  OBVIOUS
<1>2. PV \subseteq Req(c.tool)
  BY Leading
<1>3. /\ Listed(a) /\ Len(a) \in Nat /\ Len(a) >= 3
      /\ a[1] = f /\ a[2] = p[1] /\ a[3] = v[1]
  BY <1>1, <1>2, Leading
<1>4. f \in Scopes!VersionFamilies /\ f # ":" /\ f # "/"
  BY <1>1, <1>2, FamilyOf
<1>5. PICK i \in DOMAIN prefixes : prefixes[i] \in {OfProject(f, p), OfVersion(f, p, v)}
  BY <1>4, VersionsAreCovered
<1>6. Word(p) /\ Word(v)
  BY AnIdIsAWord
<1>7. PICK s : s = Path(prefixes[i])
  OBVIOUS
<1>8. CASE prefixes[i] = OfProject(f, p)
  <2>1. Listed(s) /\ Len(s) = 2 /\ s[1] = f /\ s[2] = p[1]
    BY <1>4, <1>6, <1>7, <1>8, ProjectPath
  <2>2. Len(s) <= Len(a) /\ \A j \in 1..Len(s) : a[j] = s[j]
    BY <1>3, <2>1
  <2>3. QED  BY <1>1, <1>3, <1>7, <2>1, <2>2, Starts, ZenonT(40)
<1>9. CASE prefixes[i] = OfVersion(f, p, v)
  <2>1. Listed(s) /\ Len(s) = 3 /\ s[1] = f /\ s[2] = p[1] /\ s[3] = v[1]
    BY <1>4, <1>6, <1>7, <1>9, VersionPath
  <2>2. Len(s) <= Len(a) /\ \A j \in 1..Len(s) : a[j] = s[j]
    BY <1>3, <2>1
  <2>3. QED  BY <1>1, <1>3, <1>7, <2>1, <2>2, Starts, ZenonT(40)
<1>10. QED  BY <1>5, <1>8, <1>9

LEMMA SnapshotsAreCalls ==
    ASSUME NEW p, NEW v, NEW s \in SnapshotsOf(p, v)
    PROVE  s \in CachedCalls
BY DEF SnapshotsOf, Snapshots

LEMMA OtherSteps == "none" \notin Tools /\ "df_refresh_cache" \notin Tools
<1>1. Tools = UNION {DOMAIN part : part \in
         {ContentSchemas, MartSchemas, ConnectionSchemas, ModelSchemas, RegistrySchemas}}
  BY RowsOfAll DEF Tools, Schemas
<1>2. \A part \in {ContentSchemas, MartSchemas, ConnectionSchemas, ModelSchemas,
                   RegistrySchemas} :
        "none" \notin DOMAIN part /\ "df_refresh_cache" \notin DOMAIN part
  BY DEF ContentSchemas, MartSchemas, ConnectionSchemas, ModelSchemas, RegistrySchemas
<1>3. QED  BY <1>1, <1>2

-----------------------------------------------------------------------------
(* Whatever is stored is the answer to some call, under that call's file.  *)
Holds(F) ==
    /\ IsFiniteSet(DOMAIN F)
    /\ \A f \in DOMAIN F : \E d \in CachedCalls :
         f = FileOf[d] /\ F[f] = [key |-> KeyOf[d], answer |-> Fetched[d]]

Kept ==
    /\ Holds(files) /\ Cardinality(DOMAIN files) <= MaxFiles
    /\ last.call.tool \in Tools => last.call \in Calls

LEMMA KeptIsTyped == ASSUME Kept PROVE TypeOK
<1>1. ASSUME NEW f \in DOMAIN files
      PROVE  files[f].answer # Failed /\ Path(files[f].key) = f
  <2>1. PICK c \in CachedCalls :
          f = FileOf[c] /\ files[f] = [key |-> KeyOf[c], answer |-> Fetched[c]]
    BY DEF Kept, Holds
  <2>2. files[f].key = KeyOf[c] /\ files[f].answer = Fetched[c]
    BY <2>1
  <2>3. Fetched[c] # Failed
    BY CachedAgree, FetchedIs
  <2>4. QED  BY <2>1, <2>2, <2>3 DEF FileOf
<1>2. QED  BY <1>1 DEF Kept, TypeOK

LEMMA StoredIsKept ==
    ASSUME NEW F, Holds(F), NEW c \in CachedCalls,
           NEW G, G = Stored(F, FileOf[c], KeyOf[c], Fetched[c])
    PROVE  DOMAIN G = DOMAIN F \cup {FileOf[c]} /\ Holds(G)
<1>1. /\ DOMAIN G = DOMAIN F \cup {FileOf[c]}
      /\ G[FileOf[c]] = [key |-> KeyOf[c], answer |-> Fetched[c]]
      /\ \A f \in DOMAIN F : f # FileOf[c] => G[f] = F[f]
  BY DEF Stored
<1>2. IsFiniteSet(DOMAIN G)
  BY <1>1, FS_AddElement DEF Holds
<1>3. QED  BY <1>1, <1>2 DEF Holds

LEMMA RestIsKept ==
    ASSUME Kept, NEW S \in SUBSET DOMAIN files, NEW F, F = OnlyIn(files, S)
    PROVE  /\ DOMAIN F = S /\ Holds(F) /\ Cardinality(S) <= MaxFiles
           /\ \A f \in S : F[f] = files[f]
<1>1. DOMAIN F = S /\ \A f \in S : F[f] = files[f]
  BY DEF OnlyIn
<1>2. IsFiniteSet(S) /\ Cardinality(S) <= Cardinality(DOMAIN files)
  BY FS_Subset DEF Kept, Holds
<1>3. Cardinality(S) <= MaxFiles
  <2>1. Cardinality(S) \in Nat /\ Cardinality(DOMAIN files) \in Nat
    BY <1>2, FS_CardinalityType DEF Kept, Holds
  <2>2. QED  BY <1>2, <2>1, BoundsAssumption DEF Kept
<1>4. QED  BY <1>1, <1>2, <1>3 DEF Kept, Holds

(* Every step keeps it; the steps of a call and of a refresh separately.   *)
LEMMA KeptAtFirst == ASSUME Init PROVE Kept
<1>1. DOMAIN files = {} /\ last.call.tool = "none"
  BY DEF Init, Nothing
<1>2. IsFiniteSet(DOMAIN files) /\ Cardinality(DOMAIN files) <= MaxFiles
  BY <1>1, FS_EmptySet, BoundsAssumption
<1>3. QED  BY <1>1, <1>2, OtherSteps DEF Kept, Holds

LEMMA CallsKeep ==
    ASSUME Kept, NEW c \in Calls,
           ReadHit(c) \/ ReadMiss(c) \/ ReadFails(c) \/ ReadUncached(c)
    PROVE  Kept'
<1>1. last'.call = c
  BY DEF ReadHit, ReadMiss, ReadFails, ReadUncached, Got
<1>2. CASE files' = files
  BY <1>1, <1>2 DEF Kept, Holds
<1>3. CASE ReadMiss(c)
  <2>1. /\ c \in CachedCalls /\ files' = Stored(files, FileOf[c], KeyOf[c], Fetched[c])
        /\ Cardinality(DOMAIN files \cup {FileOf[c]}) <= MaxFiles
    BY <1>3 DEF ReadMiss
  <2>2. PICK G : G = files'
    OBVIOUS
  <2>3. DOMAIN G = DOMAIN files \cup {FileOf[c]} /\ Holds(G)
    <3>1. Holds(files) /\ c \in CachedCalls
          /\ G = Stored(files, FileOf[c], KeyOf[c], Fetched[c])
      BY <2>1, <2>2 DEF Kept
    <3>2. QED  BY ONLY <3>1, StoredIsKept
  <2>4. Holds(files)'
    BY <2>2, <2>3 DEF Holds
  <2>5. QED  BY <1>1, <2>1, <2>2, <2>3, <2>4 DEF Kept
<1>4. QED  BY <1>2, <1>3 DEF ReadHit, ReadFails, ReadUncached

(* The two outcomes of a refresh: what is left of the files, with or       *)
(* without the snapshot that was fetched.                                  *)
Left(scope, p, v) == OnlyIn(files, Remaining(scope, p, v))
Survivors(kept) ==
    {w \in answered : \E f \in DOMAIN kept : kept[f].answer.resource = w.resource
                                           /\ kept[f].answer.ids = w.ids}

LEMMA RefreshShape ==
    ASSUME NEW scope, NEW p, NEW v, NEW s, Refresh(scope, p, v, s),
           NEW kept, kept = Left(scope, p, v)
    PROVE  \/ /\ Cardinality(DOMAIN kept \cup {FileOf[s]}) <= MaxFiles
              /\ files' = Stored(kept, FileOf[s], KeyOf[s], Fetched[s])
              /\ answered' = Survivors(kept) \cup {Asked[s]}
           \/ files' = kept /\ answered' = Survivors(kept)
BY DEF Refresh, Left, Survivors

LEMMA RefreshIsTold ==
    ASSUME NEW scope, NEW p, NEW v, NEW s, Refresh(scope, p, v, s)
    PROVE  /\ last'.call.tool = "df_refresh_cache" /\ last'.call.project_id = p
           /\ last'.call.version_id = v /\ last'.call.scope = scope
           /\ last'.call.snapshot = s
BY DEF Refresh, Got

LEMMA RefreshKeeps ==
    ASSUME Kept, NEW scope, NEW p \in Ids, NEW v \in Ids, NEW s \in SnapshotsOf(p, v),
           Refresh(scope, p, v, s)
    PROVE  Kept'
<1>1. PICK kept : kept = Left(scope, p, v)
  OBVIOUS
<1>2. s \in CachedCalls
  BY SnapshotsAreCalls
<1>3. PICK S \in SUBSET DOMAIN files : kept = OnlyIn(files, S)
  BY <1>1 DEF Left, Remaining
<1>4. DOMAIN kept = S /\ Holds(kept) /\ Cardinality(DOMAIN kept) <= MaxFiles
  BY <1>3, RestIsKept
<1>5. last'.call.tool \notin Tools
  <2>1. last'.call.tool = "df_refresh_cache"
    BY RefreshIsTold
  <2>2. QED  BY <2>1, OtherSteps
<1>6. CASE files' = kept
  <2>1. Holds(files)'
    BY <1>4, <1>6 DEF Holds
  <2>2. QED  BY <1>4, <1>5, <1>6, <2>1 DEF Kept
<1>7. CASE /\ Cardinality(DOMAIN kept \cup {FileOf[s]}) <= MaxFiles
           /\ files' = Stored(kept, FileOf[s], KeyOf[s], Fetched[s])
  <2>1. PICK G : G = files'
    OBVIOUS
  <2>2. DOMAIN G = DOMAIN kept \cup {FileOf[s]} /\ Holds(G)
    <3>1. Holds(kept) /\ s \in CachedCalls /\ G = Stored(kept, FileOf[s], KeyOf[s], Fetched[s])
      BY <1>2, <1>4, <1>7, <2>1
    <3>2. QED  BY ONLY <3>1, StoredIsKept
  <2>3. Holds(files)'
    BY <2>1, <2>2 DEF Holds
  <2>4. QED  BY <1>5, <1>7, <2>1, <2>2, <2>3 DEF Kept
<1>8. QED  BY <1>1, <1>6, <1>7, RefreshShape

LEMMA KeptAlways == ASSUME Kept, [Next]_vars PROVE Kept'
<1>1. CASE UNCHANGED vars
  BY <1>1 DEF vars, Kept, Holds
<1>2. CASE Deliver
  <2>1. files' = files /\ last'.call.tool = "none"
    BY <1>2 DEF Deliver, Nothing
  <2>2. QED  BY <2>1, OtherSteps DEF Kept, Holds
<1>3. ASSUME NEW c \in Calls, ReadHit(c) \/ ReadMiss(c) \/ ReadFails(c) \/ ReadUncached(c)
      PROVE  Kept'
  BY <1>3, CallsKeep
<1>4. ASSUME NEW scope, NEW p \in Ids, NEW v \in Ids, NEW s \in SnapshotsOf(p, v),
             Refresh(scope, p, v, s)
      PROVE  Kept'
  BY <1>4, RefreshKeeps
<1>5. QED  BY <1>1, <1>2, <1>3, <1>4 DEF Next

(* Only answers of the API are stored, under the file of a call, and never *)
(* more files than the directory holds: an error is not cached, whatever   *)
(* calls, failures and refreshes come (_cached_fetch, refresh_cache).      *)
THEOREM StoreHoldsAnswers == Spec => []TypeOK
<1>1. Init => Kept
  BY KeptAtFirst
<1>2. Kept /\ [Next]_vars => Kept'
  BY KeptAlways
<1>3. Kept => TypeOK
  BY KeptIsTyped
<1>4. QED  BY <1>1, <1>2, <1>3, PTL DEF Spec

-----------------------------------------------------------------------------
(* Every question that was answered and not dropped still has its file.    *)
Remembered ==
    \A w \in answered : \E c \in CachedCalls : w = Asked[c] /\ FileOf[c] \in DOMAIN files

RInv ==
    /\ Kept /\ Remembered
    /\ AnswersItsOwnCall /\ OutageServesTheLastAnswer /\ RefreshLeavesNothing

LEMMA OwnAnswer ==
    ASSUME Plain, Kept, NEW c \in CachedCalls, FileOf[c] \in DOMAIN files
    PROVE  files[FileOf[c]].answer = Fetched[c]
<1>1. PICK d \in CachedCalls : /\ FileOf[c] = FileOf[d]
                               /\ files[FileOf[c]] = [key |-> KeyOf[d], answer |-> Fetched[d]]
  BY DEF Kept, Holds
<1>2. Fetched[c] = Fetched[d]
  BY <1>1, FromFile, SameAsked, CachedAgree
<1>3. QED  BY <1>1, <1>2

LEMMA CallsRecall ==
    ASSUME Plain, RInv, NEW c \in Calls,
           ReadHit(c) \/ ReadMiss(c) \/ ReadFails(c) \/ ReadUncached(c)
    PROVE  RInv'
<1>1. Kept'
  BY CallsKeep DEF RInv
<1>2. last'.call = c /\ last'.call.tool # "df_refresh_cache"
  <2>1. last'.call = c
    BY DEF ReadHit, ReadMiss, ReadFails, ReadUncached, Got
  <2>2. QED  BY <2>1, CallShape, OtherSteps
<1>3. RefreshLeavesNothing'
  BY <1>2 DEF RefreshLeavesNothing
<1>4. last'.answer \in {Fetched[c], Failed}
  <2>1. CASE ReadHit(c) \/ ReadFails(c)
    <3>1. c \in CachedCalls
      BY <2>1 DEF ReadHit, ReadFails
    <3>2. FileOf[c] \in DOMAIN files => files[FileOf[c]].answer = Fetched[c]
      BY <3>1, OwnAnswer DEF RInv
    <3>3. QED  BY <2>1, <3>2 DEF ReadHit, ReadFails, Got
  <2>2. QED  BY <2>1 DEF ReadMiss, ReadUncached, Got
<1>5. AnswersItsOwnCall'
  BY <1>2, <1>4, FetchedIs DEF AnswersItsOwnCall
<1>6. Remembered'
  <2>1. CASE files' = files /\ answered' = answered
    BY <2>1 DEF RInv, Remembered
  <2>2. CASE ReadMiss(c)
    <3>1. /\ c \in CachedCalls /\ answered' = answered \cup {Asked[c]}
          /\ DOMAIN files' = DOMAIN files \cup {FileOf[c]}
      BY <2>2 DEF ReadMiss, Stored
    <3>2. QED  BY <3>1 DEF RInv, Remembered
  <2>3. QED  BY <2>1, <2>2 DEF ReadHit, ReadFails, ReadUncached
<1>7. OutageServesTheLastAnswer'
  <2>1. SUFFICES ASSUME c \in CachedCalls, last'.answer = Failed
                 PROVE  Asked[c] \notin answered'
    BY <1>2 DEF OutageServesTheLastAnswer
  <2>2. Fetched[c] # Failed
    BY FetchedIs
  <2>3. answered' = answered /\ FileOf[c] \notin DOMAIN files
    <3>1. FileOf[c] \in DOMAIN files => files[FileOf[c]].answer = Fetched[c]
      BY <2>1, OwnAnswer DEF RInv
    <3>2. QED  BY <2>1, <2>2, <3>1 DEF ReadHit, ReadMiss, ReadFails, ReadUncached, Got
  <2>4. ASSUME Asked[c] \in answered PROVE FALSE
    <3>1. PICK d \in CachedCalls : Asked[c] = Asked[d] /\ FileOf[d] \in DOMAIN files
      BY <2>4 DEF RInv, Remembered
    <3>2. FileOf[c] = FileOf[d]
      BY <2>1, <3>1, FromAsked, SameKey, CachedAgree
    <3>3. QED  BY <2>3, <3>1, <3>2
  <2>5. QED  BY <2>3, <2>4
<1>8. QED  BY <1>1, <1>3, <1>5, <1>6, <1>7 DEF RInv

(* What a refresh leaves: nothing that one of its prefixes covers.         *)
LEMMA RestIsOutside ==
    ASSUME Kept, NEW scope, NEW p, NEW v, NEW kept, kept = Left(scope, p, v),
           NEW prefixes, prefixes = Scopes!prefixes_for(scope, p, v)
    PROVE  /\ DOMAIN kept \subseteq DOMAIN files
           /\ \A f \in DOMAIN kept : kept[f] = files[f]
           /\ \A f \in DOMAIN files :
                f \in DOMAIN kept <=>
                  \A i \in DOMAIN prefixes : ~ Scopes!IsStart(Path(prefixes[i]), f)
<1>1. PICK S \in SUBSET DOMAIN files : S = Remaining(scope, p, v) /\ kept = OnlyIn(files, S)
  BY DEF Left, Remaining
<1>2. DOMAIN kept = S /\ \A f \in S : kept[f] = files[f]
  BY <1>1 DEF OnlyIn
<1>3. S = {f \in DOMAIN files :
             \A i \in DOMAIN prefixes : ~ Scopes!IsStart(Path(prefixes[i]), f)}
  BY <1>1 DEF Remaining
<1>4. QED  BY <1>2, <1>3

(* A file is about what the call it is named after asked for.              *)
LEMMA FileIsAbout ==
    ASSUME Kept, NEW f \in DOMAIN files
    PROVE  \E d \in CachedCalls : /\ f = FileOf[d]
                                  /\ files[f].answer.resource = Asked[d].resource
                                  /\ files[f].answer.ids = Asked[d].ids
<1>1. PICK d \in CachedCalls :
        f = FileOf[d] /\ files[f] = [key |-> KeyOf[d], answer |-> Fetched[d]]
  BY DEF Kept, Holds
<1>2. files[f].answer = Fetched[d]
  BY <1>1
<1>3. Fetched[d].resource = Asked[d].resource /\ Fetched[d].ids = Asked[d].ids
  BY CachedAgree, FetchedIs
<1>4. QED  BY <1>1, <1>2, <1>3

LEMMA RefreshRemembers ==
    ASSUME Plain, Kept, Remembered, NEW scope \in {"VERSION", "PROJECT", "GLOBAL"},
           NEW p \in Ids, NEW v \in Ids, NEW kept, kept = Left(scope, p, v),
           NEW w \in Survivors(kept)
    PROVE  \E c \in CachedCalls : w = Asked[c] /\ FileOf[c] \in DOMAIN kept
<1>1. PICK prefixes : prefixes = Scopes!prefixes_for(scope, p, v)
  OBVIOUS
<1>2. PICK c \in CachedCalls : w = Asked[c] /\ FileOf[c] \in DOMAIN files
  BY DEF Survivors, Remembered
<1>3. PICK f \in DOMAIN kept :
        kept[f].answer.resource = w.resource /\ kept[f].answer.ids = w.ids
  BY DEF Survivors
<1>4. f \in DOMAIN files /\ kept[f] = files[f]
  BY RestIsOutside
<1>5. PICK d \in CachedCalls : /\ f = FileOf[d]
                               /\ files[f].answer.resource = Asked[d].resource
                               /\ files[f].answer.ids = Asked[d].ids
  BY <1>4, FileIsAbout
<1>6. Asked[c].resource = Asked[d].resource /\ Asked[c].ids = Asked[d].ids
  BY <1>2, <1>3, <1>4, <1>5
<1>7. ASSUME FileOf[c] \notin DOMAIN kept PROVE FALSE
  <2>1. PICK i \in DOMAIN prefixes : Scopes!IsStart(Path(prefixes[i]), FileOf[c])
    BY <1>1, <1>2, <1>7, RestIsOutside
  <2>2. Scopes!IsStart(Path(prefixes[i]), FileOf[d])
    BY <1>1, <1>6, <2>1, SameStart
  <2>3. QED  BY <1>1, <1>3, <1>4, <1>5, <2>2, RestIsOutside
<1>8. QED  BY <1>2, <1>7

LEMMA RefreshClears ==
    ASSUME Plain, Kept, NEW scope \in {"VERSION", "PROJECT"},
           NEW p \in Ids, NEW v \in Ids, NEW kept, kept = Left(scope, p, v),
           NEW f \in DOMAIN kept, NEW ids, ids = kept[f].answer.ids,
           Len(ids) > 1, ids[1] = p, ids[2] = v
    PROVE  FALSE
<1>1. PICK prefixes : prefixes = Scopes!prefixes_for(scope, p, v)
  OBVIOUS
<1>2. f \in DOMAIN files /\ kept[f] = files[f]
  BY RestIsOutside
<1>3. PICK d \in CachedCalls : f = FileOf[d] /\ files[f].answer.ids = Asked[d].ids
  BY <1>2, FileIsAbout
<1>4. ids = Asked[d].ids
  BY <1>2, <1>3
<1>5. \E i \in DOMAIN prefixes : Scopes!IsStart(Path(prefixes[i]), FileOf[d])
  BY <1>1, <1>4, VersionIsCleared
<1>6. QED  BY <1>1, <1>2, <1>3, <1>5, RestIsOutside

LEMMA RefreshRecalls ==
    ASSUME Plain, RInv, NEW scope \in {"VERSION", "PROJECT", "GLOBAL"},
           NEW p \in Ids, NEW v \in Ids, NEW s \in SnapshotsOf(p, v),
           Refresh(scope, p, v, s)
    PROVE  RInv'
<1>1. PICK kept : kept = Left(scope, p, v)
  OBVIOUS
<1>2. s \in CachedCalls
  BY SnapshotsAreCalls
<1>3. Kept /\ Remembered /\ Kept'
  BY RefreshKeeps DEF RInv
<1>4. /\ last'.call.tool = "df_refresh_cache" /\ last'.call.project_id = p
      /\ last'.call.version_id = v /\ last'.call.scope = scope /\ last'.call.snapshot = s
  BY RefreshIsTold
<1>5. AnswersItsOwnCall' /\ OutageServesTheLastAnswer'
  <2>1. last'.call.tool \notin Tools
    BY <1>4, OtherSteps
  <2>2. last'.call \notin CachedCalls
    BY <2>1, CallShape DEF CachedCalls
  <2>3. QED  BY <2>1, <2>2 DEF AnswersItsOwnCall, OutageServesTheLastAnswer
<1>6. \/ /\ files' = Stored(kept, FileOf[s], KeyOf[s], Fetched[s])
         /\ answered' = Survivors(kept) \cup {Asked[s]}
      \/ files' = kept /\ answered' = Survivors(kept)
  <2>1. Refresh(scope, p, v, s) /\ kept = Left(scope, p, v)
    BY <1>1
  <2>2. \/ /\ Cardinality(DOMAIN kept \cup {FileOf[s]}) <= MaxFiles
           /\ files' = Stored(kept, FileOf[s], KeyOf[s], Fetched[s])
           /\ answered' = Survivors(kept) \cup {Asked[s]}
        \/ files' = kept /\ answered' = Survivors(kept)
    BY ONLY <2>1, RefreshShape
  <2>3. QED  BY <2>2
<1>7. /\ DOMAIN kept \subseteq DOMAIN files'
      /\ \A f \in DOMAIN files' : f = FileOf[s] \/ (f \in DOMAIN kept /\ files'[f] = kept[f])
      /\ \/ answered' = Survivors(kept)
         \/ (answered' = Survivors(kept) \cup {Asked[s]} /\ FileOf[s] \in DOMAIN files')
  BY <1>6 DEF Stored
<1>8. Remembered'
  <2>1. ASSUME NEW w \in Survivors(kept)
        PROVE  \E c \in CachedCalls : w = Asked[c] /\ FileOf[c] \in DOMAIN kept
    BY <1>1, <1>3, RefreshRemembers
  <2>2. QED  BY <1>2, <1>7, <2>1 DEF Remembered
<1>9. RefreshLeavesNothing'
  <2>1. SUFFICES ASSUME scope \in {"VERSION", "PROJECT"}, NEW f \in DOMAIN files',
                        NEW ids, ids = files'[f].answer.ids,
                        Len(ids) > 1, ids[1] = p, ids[2] = v, f # FileOf[s]
                 PROVE  FALSE
    BY <1>1, <1>4 DEF RefreshLeavesNothing
  <2>2. f \in DOMAIN kept /\ ids = kept[f].answer.ids
    BY <1>7, <2>1
  <2>3. QED  BY <1>1, <1>3, <2>1, <2>2, RefreshClears
<1>10. QED  BY <1>3, <1>5, <1>8, <1>9 DEF RInv

LEMMA QuietRecalls ==
    ASSUME RInv, Kept', files' = files, answered' = answered, last'.call.tool = "none"
    PROVE  RInv'
<1>1. last'.call.tool \notin Tools /\ last'.call.tool # "df_refresh_cache"
  BY OtherSteps
<1>2. last'.call \notin CachedCalls
  BY <1>1, CallShape DEF CachedCalls
<1>3. Remembered'
  BY DEF RInv, Remembered
<1>4. AnswersItsOwnCall' /\ OutageServesTheLastAnswer' /\ RefreshLeavesNothing'
  BY <1>1, <1>2 DEF AnswersItsOwnCall, OutageServesTheLastAnswer, RefreshLeavesNothing
<1>5. QED  BY <1>3, <1>4 DEF RInv

LEMMA RInvAtFirst == ASSUME Init PROVE RInv
<1>1. Kept
  BY KeptAtFirst
<1>2. answered = {} /\ last.call.tool = "none"
  BY DEF Init, Nothing
<1>3. last.call.tool \notin Tools /\ last.call.tool # "df_refresh_cache"
  BY <1>2, OtherSteps
<1>4. Remembered
  BY <1>2 DEF Remembered
<1>5. AnswersItsOwnCall /\ OutageServesTheLastAnswer /\ RefreshLeavesNothing
  BY <1>2, <1>3 DEF AnswersItsOwnCall, OutageServesTheLastAnswer, RefreshLeavesNothing
<1>6. QED  BY <1>1, <1>4, <1>5 DEF RInv

LEMMA RInvAlways == ASSUME Plain, RInv, [Next]_vars PROVE RInv'
<1>1. Kept'
  BY KeptAlways DEF RInv
<1>2. CASE UNCHANGED vars
  <2>1. files' = files /\ answered' = answered /\ last' = last
    BY <1>2 DEF vars
  <2>2. Remembered'
    BY <2>1 DEF RInv, Remembered
  <2>3. AnswersItsOwnCall' /\ OutageServesTheLastAnswer' /\ RefreshLeavesNothing'
    BY <2>1 DEF RInv, AnswersItsOwnCall, OutageServesTheLastAnswer, RefreshLeavesNothing
  <2>4. QED  BY <1>1, <2>2, <2>3 DEF RInv
<1>3. CASE Deliver
  BY <1>1, <1>3, QuietRecalls DEF Deliver, Nothing
<1>4. ASSUME NEW c \in Calls, ReadHit(c) \/ ReadMiss(c) \/ ReadFails(c) \/ ReadUncached(c)
      PROVE  RInv'
  BY <1>4, CallsRecall
<1>5. ASSUME NEW scope \in {"VERSION", "PROJECT", "GLOBAL"}, NEW p \in Ids, NEW v \in Ids,
             NEW s \in SnapshotsOf(p, v), Refresh(scope, p, v, s)
      PROVE  RInv'
  BY <1>5, RefreshRecalls
<1>6. QED  BY <1>2, <1>3, <1>4, <1>5 DEF Next

LEMMA RInvHolds == ASSUME Plain PROVE Spec => []RInv
<1>1. Init => RInv
  BY RInvAtFirst
<1>2. RInv /\ [Next]_vars => RInv'
  BY RInvAlways
<1>3. QED  BY <1>1, <1>2, PTL DEF Spec

(* A call that is answered is answered with its own subject, ids, language, *)
(* page and filters, from the API or from a file, after any calls, outages *)
(* and refreshes (the tables of tools_read.py to read_client.py).          *)
THEOREM EveryCallGetsItsOwnAnswer == ASSUME Plain PROVE Spec => []AnswersItsOwnCall
<1>1. RInv => AnswersItsOwnCall
  BY DEF RInv
<1>2. QED  BY <1>1, RInvHolds, PTL

(* A question that was answered and stored, and not dropped by a refresh,  *)
(* survives an outage however the caller spells it (_cached_fetch).        *)
THEOREM OutagesServeWhatWasAnswered ==
    ASSUME Plain PROVE Spec => []OutageServesTheLastAnswer
<1>1. RInv => OutageServesTheLastAnswer
  BY DEF RInv
<1>2. QED  BY <1>1, RInvHolds, PTL

(* A refresh of a version or of its project leaves no file about that      *)
(* version but the snapshot it fetched (scopes.py and the key builders).   *)
THEOREM RefreshesLeaveNothing == ASSUME Plain PROVE Spec => []RefreshLeavesNothing
<1>1. RInv => RefreshLeavesNothing
  BY DEF RInv
<1>2. QED  BY <1>1, RInvHolds, PTL
=============================================================================
