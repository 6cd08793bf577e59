-------------------------- MODULE QueryPathProofs ---------------------------
(* Proofs about QueryPath: the mask's rules one after the other and in a    *)
(* second pass, the residency-router's two reads under an operator's        *)
(* updates, and the pgvector-router behind the mask. They hold for any      *)
(* texts, rules, maps and number of updates.                                *)
EXTENDS QueryPath, FiniteSetTheorems, SequenceTheorems, WellFoundedInduction,
        TLAPS

-----------------------------------------------------------------------------
(* Naturals and sequences.                                                  *)

NatLess == OpToRel(<, Nat)

LEMMA NatLessIs == \A x, y \in Nat : x < y => <<x, y>> \in NatLess
  BY DEF OpToRel, NatLess

\* Every set of naturals but the empty one has a smallest element.
LEMMA Smallest ==
  ASSUME NEW T, T \subseteq Nat, T # {}
  PROVE  \E x \in T : \A y \in T : x <= y
<1>1. IsWellFoundedOn(NatLess, Nat)
  BY NatLessThanWellFounded DEF NatLess
<1>2. PICK x \in T : \A y \in T : ~ (<<y, x>> \in NatLess)
  BY <1>1, WFMin
<1>3. ASSUME NEW y \in T PROVE x <= y
  <2>1. ~ (y < x)
    BY <1>2, NatLessIs
  <2> QED BY <2>1
<1> QED BY <1>3

LEMMA ConcatIs ==
  ASSUME NEW S, NEW s \in Seq(S), NEW t \in Seq(S)
  PROVE  /\ s \o t \in Seq(S)
         /\ Len(s \o t) = Len(s) + Len(t) /\ Len(s) \in Nat /\ Len(t) \in Nat
         /\ \A j \in 1 .. Len(s) : (s \o t)[j] = s[j]
         /\ \A j \in 1 .. Len(t) : (s \o t)[Len(s) + j] = t[j]
<1>1. Len(s) \in Nat /\ Len(t) \in Nat
  OBVIOUS
<1>2. \A j \in 1 .. Len(t) : Len(s) + j \in 1 .. Len(s) + Len(t)
                             /\ ~(Len(s) + j <= Len(s)) /\ Len(s) + j - Len(s) = j
  BY <1>1
<1> QED BY <1>1, <1>2, ConcatProperties

LEMMA SubSeqIs ==
  ASSUME NEW S, NEW s \in Seq(S), NEW k \in Nat, NEW n \in Nat,
         k <= n, n <= Len(s)
  PROVE  /\ SubSeq(s, k + 1, n) \in Seq(S)
         /\ Len(SubSeq(s, k + 1, n)) = n - k
         /\ \A j \in 1 .. n - k : SubSeq(s, k + 1, n)[j] = s[k + j]
<1>1. Len(s) \in Nat /\ \A i \in 1 .. Len(s) : s[i] \in S
  BY ElementOfSeq
<1>2. \A i \in k + 1 .. n : s[i] \in S
  BY <1>1
<1>3. n - (k + 1) + 1 = n - k
  OBVIOUS
<1>4. \A j \in 1 .. n - k : k + 1 + j - 1 = k + j
  OBVIOUS
<1>5. k + 1 \in Int /\ n \in Int
  OBVIOUS
<1> QED BY <1>2, <1>3, <1>4, <1>5, SubSeqProperties, SMTT(30)

LEMMA FrontIs ==
  ASSUME NEW S, NEW s \in Seq(S), NEW i \in 1 .. Len(s)
  PROVE  /\ SubSeq(s, 1, i - 1) \in Seq(S)
         /\ Len(SubSeq(s, 1, i - 1)) = i - 1
         /\ \A j \in 1 .. i - 1 : SubSeq(s, 1, i - 1)[j] = s[j]
<1>1. /\ 0 \in Nat /\ 0 + 1 = 1 /\ i - 1 \in Nat /\ i - 1 - 0 = i - 1
      /\ 0 <= i - 1 /\ i - 1 <= Len(s) /\ \A j \in 1 .. i - 1 : 0 + j = j
  OBVIOUS
<1>2. /\ SubSeq(s, 0 + 1, i - 1) \in Seq(S)
      /\ Len(SubSeq(s, 0 + 1, i - 1)) = i - 1 - 0
      /\ \A j \in 1 .. i - 1 - 0 : SubSeq(s, 0 + 1, i - 1)[j] = s[0 + j]
  BY <1>1, SubSeqIs
<1> QED BY <1>1, <1>2

\* Putting mid between the front and the back of a sequence.
LEMMA SpliceIs ==
  ASSUME NEW S, NEW s \in Seq(S), NEW m \in Seq(S), NEW t \in Seq(S)
  PROVE  /\ s \o m \o t \in Seq(S)
         /\ Len(s \o m \o t) = Len(s) + Len(m) + Len(t)
         /\ \A j \in 1 .. Len(s) : (s \o m \o t)[j] = s[j]
         /\ \A j \in 1 .. Len(m) : (s \o m \o t)[Len(s) + j] = m[j]
         /\ \A j \in 1 .. Len(t) : (s \o m \o t)[Len(s) + Len(m) + j] = t[j]
<1>1. PICK left : left = s \o m
  OBVIOUS
<1>2. /\ left \in Seq(S) /\ Len(left) = Len(s) + Len(m)
      /\ Len(s) \in Nat /\ Len(m) \in Nat
      /\ \A j \in 1 .. Len(s) : left[j] = s[j]
      /\ \A j \in 1 .. Len(m) : left[Len(s) + j] = m[j]
  BY <1>1, ConcatIs
<1>3. /\ left \o t \in Seq(S) /\ Len(left \o t) = Len(left) + Len(t)
      /\ \A j \in 1 .. Len(left) : (left \o t)[j] = left[j]
      /\ \A j \in 1 .. Len(t) : (left \o t)[Len(left) + j] = t[j]
  <2>1. left \in Seq(S) /\ t \in Seq(S)
    BY <1>2
  <2> QED BY <2>1, ConcatIs
<1>4. \A j \in 1 .. Len(s) : j \in 1 .. Len(left)
  BY <1>2
<1>5. \A j \in 1 .. Len(m) : Len(s) + j \in 1 .. Len(left)
  BY <1>2
<1> QED BY <1>1, <1>2, <1>3, <1>4, <1>5

-----------------------------------------------------------------------------
(* Types.                                                                   *)

LEMMA WrapIs ==
  ASSUME NEW text \in Seq(Tokens), NEW i \in DOMAIN text, NEW r \in MaskRule
  PROVE  /\ Wrap(text, i, r) \in Seq(Tokens)
         /\ Len(Wrap(text, i, r)) = Len(text) + 5
         /\ \A j \in 1 .. i - 1 : Wrap(text, i, r)[j] = text[j]
         /\ \A j \in 1 .. 6 : Wrap(text, i, r)[i - 1 + j] = Wrapped(r)[j]
         /\ \A j \in i + 1 .. Len(text) : Wrap(text, i, r)[j + 5] = text[j]
<1>1. i \in 1 .. Len(text) /\ Len(text) \in Nat
  OBVIOUS
<1>2. Wrapped(r) \in Seq(Tokens) /\ Len(Wrapped(r)) = 6
  BY MaskAssumption DEF Wrapped, MaskRule
<1>3. PICK front : front = SubSeq(text, 1, i - 1)
  OBVIOUS
<1>4. PICK back : back = SubSeq(text, i + 1, Len(text))
  OBVIOUS
<1>5. PICK w : w = Wrapped(r)
  OBVIOUS
<1>6. /\ front \in Seq(Tokens) /\ Len(front) = i - 1
      /\ \A j \in 1 .. i - 1 : front[j] = text[j]
  BY <1>1, <1>3, FrontIs
<1>7. /\ back \in Seq(Tokens) /\ Len(back) = Len(text) - i
      /\ \A j \in 1 .. Len(text) - i : back[j] = text[i + j]
  BY <1>1, <1>4, SubSeqIs
<1>8. Wrap(text, i, r) = front \o w \o back
  BY <1>3, <1>4, <1>5 DEF Wrap
<1>9. PICK t : t = front \o w \o back
  OBVIOUS
<1>10. /\ t \in Seq(Tokens)
       /\ Len(t) = (i - 1) + 6 + (Len(text) - i)
       /\ \A j \in 1 .. i - 1 : t[j] = front[j]
       /\ \A j \in 1 .. 6 : t[(i - 1) + j] = w[j]
       /\ \A j \in 1 .. Len(text) - i : t[(i - 1) + 6 + j] = back[j]
  <2>1. /\ front \in Seq(Tokens) /\ w \in Seq(Tokens) /\ back \in Seq(Tokens)
        /\ i - 1 = Len(front) /\ 6 = Len(w)
    BY <1>2, <1>5, <1>6, <1>7
  <2>2. /\ front \o w \o back \in Seq(Tokens)
        /\ Len(front \o w \o back) = Len(front) + Len(w) + Len(back)
        /\ \A j \in 1 .. Len(front) : (front \o w \o back)[j] = front[j]
        /\ \A j \in 1 .. Len(w) : (front \o w \o back)[Len(front) + j] = w[j]
        /\ \A j \in 1 .. Len(back) :
              (front \o w \o back)[Len(front) + Len(w) + j] = back[j]
    <3>1. front \in Seq(Tokens) /\ w \in Seq(Tokens) /\ back \in Seq(Tokens)
      BY <2>1
    <3> QED BY <3>1, SpliceIs
  <2> QED BY <1>7, <1>9, <2>1, <2>2
<1>11. Len(t) = Len(text) + 5
  BY <1>1, <1>10
<1>12. ASSUME NEW j \in i + 1 .. Len(text) PROVE t[j + 5] = text[j]
  <2>1. /\ j - i \in 1 .. Len(text) - i /\ i + (j - i) = j
        /\ (i - 1) + 6 + (j - i) = j + 5
    BY <1>1
  <2>2. t[(i - 1) + 6 + (j - i)] = back[j - i]
    BY <1>10, <2>1
  <2>3. back[j - i] = text[i + (j - i)]
    BY <1>7, <2>1
  <2> QED BY <2>1, <2>2, <2>3
<1> QED BY <1>5, <1>6, <1>8, <1>9, <1>10, <1>11, <1>12

LEMMA FindWordIs ==
  ASSUME NEW text \in Seq(Tokens), NEW column, FindWord(text, column) # 0
  PROVE  /\ FindWord(text, column) \in DOMAIN text
         /\ Lower[text[FindWord(text, column)]] = Lower[column]
<1> DEFINE S == Occurrences(text, column)
<1>1. S # {} /\ S \subseteq DOMAIN text
  BY DEF FindWord, Occurrences
<1>2. \E i \in S : \A j \in S : i <= j
  <2>1. S \subseteq Nat
    BY <1>1
  <2> QED BY <1>1, <2>1, Smallest
<1>3. FindWord(text, column) \in S
  BY <1>1, <1>2 DEF FindWord
<1> QED BY <1>1, <1>3 DEF Occurrences

-----------------------------------------------------------------------------
(* The mask.                                                                *)

\* What makes the types inductive: as long as no rule has changed the text it
\* is the one of this pass, and every change makes it longer.
MaskInv ==
  /\ MaskTypeOK
  /\ ~changed => out = PassText
  /\ changed => Len(out) > Len(PassText)

\* The rule whose turn it is.
LEMMA TurnIs ==
  ASSUME MaskTypeOK, Turn
  PROVE  /\ applied = rules.list /\ turn \in DOMAIN rules.list
         /\ applied[turn] \in MaskRule /\ turn + 1 \in 1 .. Len(applied) + 1
<1>1. applied \in {<<>>, rules.list} /\ turn \in 1 .. Len(applied) + 1
      /\ turn <= Len(applied) /\ rules \in RuleLists
  BY DEF MaskTypeOK, Turn
<1>2. rules.list \in Seq(MaskRule)
  BY <1>1, MaskAssumption
<1>3. applied = rules.list
  <2>1. applied # <<>>
    BY <1>1
  <2> QED BY <1>1, <2>1
<1>4. Len(applied) \in Nat /\ turn \in 1 .. Len(applied)
  BY <1>1, <1>2, <1>3
<1> QED BY <1>2, <1>3, <1>4, ElementOfSeq

LEMMA PassTextType == ASSUME MaskTypeOK PROVE PassText \in Seq(Tokens)
  BY MaskAssumption DEF MaskTypeOK, PassText

LEMMA MaskInitCorrect == MaskInit => MaskInv
<1> SUFFICES ASSUME MaskInit PROVE MaskInv
  OBVIOUS
<1>1. query \in Seq(Tokens)
  BY MaskAssumption DEF MaskInit
<1>2. Len(<<>>) = 0 /\ 1 \in 1 .. 0 + 1
  OBVIOUS
<1>3. changed = FALSE /\ out = PassText
  BY DEF MaskInit, PassText
<1>4. changed \in BOOLEAN /\ (changed <=> out # PassText)
  BY <1>3
<1>5. turn \in 1 .. Len(applied) + 1
  BY <1>2 DEF MaskInit
<1>6. MaskTypeOK
  BY <1>1, <1>4, <1>5 DEF MaskInit, MaskTypeOK
<1> QED BY <1>3, <1>6 DEF MaskInv

LEMMA MaskStep ==
  ASSUME MaskInv, [MaskNext]_maskVars PROVE MaskInv'
<1>1. MaskTypeOK /\ PassText \in Seq(Tokens) /\ out \in Seq(Tokens)
      /\ Len(out) \in Nat /\ Len(PassText) \in Nat
  BY PassTextType DEF MaskInv, MaskTypeOK
<1>2. CASE ReadRules
  <2>1. applied' \in {<<>>, rules.list} /\ turn' = 1 /\ maskPc' \in {"done", "apply"}
    BY <1>2 DEF ReadRules
  <2>2. turn' \in 1 .. Len(applied') + 1
    <3>1. rules.list \in Seq(MaskRule)
      BY <1>1, MaskAssumption DEF MaskTypeOK
    <3>2. Len(applied') \in Nat
      BY <2>1, <3>1
    <3> QED BY <2>1, <3>2
  <2> QED BY <1>2, <2>1, <2>2 DEF ReadRules, MaskInv, MaskTypeOK, PassText
<1>3. CASE SkipRule
  BY <1>1, <1>3, TurnIs DEF SkipRule, NextRule, MaskInv, MaskTypeOK, PassText
<1>4. CASE WrapColumn
  <2> DEFINE r == applied[turn]
             i == FindWord(out, r.column)
  <2>1. Turn /\ i # 0 /\ out' = Wrap(out, i, r) /\ changed' = TRUE /\ NextRule
    BY <1>4 DEF WrapColumn
  <2>2. r \in MaskRule /\ turn + 1 \in 1 .. Len(applied) + 1
    BY <1>1, <2>1, TurnIs
  <2>3. i \in DOMAIN out
    BY <1>1, <2>1, FindWordIs
  <2>4. out' \in Seq(Tokens) /\ Len(out') = Len(out) + 5
    <3> HIDE DEF r, i
    <3> QED BY <1>1, <2>1, <2>2, <2>3, WrapIs
  <2> HIDE DEF r, i
  <2>5. PassText' = PassText
    BY <2>1 DEF NextRule, PassText
  <2>6. Len(out') > Len(PassText)
    BY <1>1, <2>4 DEF MaskInv
  <2>7. out' # PassText
    BY <1>1, <2>6
  <2> QED BY <1>1, <2>1, <2>2, <2>4, <2>5, <2>6, <2>7 DEF NextRule, MaskInv, MaskTypeOK
<1>5. CASE MaskTraps
  BY <1>5 DEF MaskTraps, MaskInv, MaskTypeOK, PassText
<1>6. CASE Answer
  BY <1>6 DEF Answer, MaskInv, MaskTypeOK, PassText
<1>7. CASE ComesAgain
  <2>1. changed' = FALSE /\ pass' = 2 /\ first' = out /\ out' = out
    BY <1>7 DEF ComesAgain
  <2>2. out' = PassText'
    BY <2>1 DEF PassText
  <2>3. changed' \in BOOLEAN /\ (changed' <=> out' # PassText')
    BY <2>1, <2>2
  <2>4. MaskTypeOK'
    BY <1>1, <1>7, <2>1, <2>3 DEF ComesAgain, MaskTypeOK
  <2> QED BY <2>1, <2>2, <2>4 DEF MaskInv
<1>8. CASE UNCHANGED maskVars
  BY <1>8 DEF maskVars, MaskInv, MaskTypeOK, PassText
<1> QED BY <1>2, <1>3, <1>4, <1>5, <1>6, <1>7, <1>8 DEF MaskNext, PreQuery

-----------------------------------------------------------------------------
(* What the pgvector-router finds in a masked text.                         *)

\* A word that the router does not look for gives way to others it does not
\* look for.
LEMMA WrapKeepsRoute ==
  ASSUME NEW text \in Seq(Tokens), NEW i \in DOMAIN text, NEW r \in MaskRule,
         Lower[text[i]] = Lower[r.column],
         Lower[r.column] \notin RouterWords,
         Lower[r.mask_function] \notin RouterWords,
         NEW n
  PROVE  Classify(Wrap(text, i, r), Lower, n) = Classify(text, Lower, n)
<1>1. PICK w : w = Wrap(text, i, r)
  OBVIOUS
<1>2. /\ w \in Seq(Tokens) /\ Len(w) = Len(text) + 5
      /\ \A j \in 1 .. i - 1 : w[j] = text[j]
      /\ \A j \in 1 .. 6 : w[i - 1 + j] = Wrapped(r)[j]
      /\ \A j \in i + 1 .. Len(text) : w[j + 5] = text[j]
  BY <1>1, WrapIs
<1>3. Len(text) \in Nat /\ i \in 1 .. Len(text) /\ DOMAIN w = 1 .. Len(w)
      /\ DOMAIN text = 1 .. Len(text)
  BY <1>2
<1>4. \A j \in 1 .. 6 : Lower[Wrapped(r)[j]] \notin RouterWords
  <2>1. \A j \in 1 .. 6 : Wrapped(r)[j] \in {r.mask_function, "(", r.column, ")", "AS"}
    BY DEF Wrapped
  <2>2. {"(", ")", "as"} \cap RouterWords = {}
    BY WordsAssumption DEF RouterWords
  <2> QED BY <2>1, <2>2, MaskAssumption
<1>5. \A p \in i .. i + 5 : Lower[w[p]] \notin RouterWords
  <2> TAKE p \in i .. i + 5
  <2>1. p - i + 1 \in 1 .. 6 /\ i - 1 + (p - i + 1) = p
    BY <1>3
  <2>2. w[i - 1 + (p - i + 1)] = Wrapped(r)[p - i + 1]
    BY <1>2, <2>1
  <2> QED BY <1>4, <2>1, <2>2
<1>6. \A p \in i + 6 .. Len(w) : w[p] = text[p - 5]
  <2> TAKE p \in i + 6 .. Len(w)
  <2>1. p - 5 \in i + 1 .. Len(text) /\ p - 5 + 5 = p
    BY <1>2, <1>3
  <2>2. w[p - 5 + 5] = text[p - 5]
    BY <1>2, <2>1
  <2> QED BY <2>1, <2>2
<1>7. Lower[text[i]] \notin RouterWords
  OBVIOUS
<1>8. (\E k \in DOMAIN w : Lower[w[k]] \in HoldsOperator)
      <=> (\E k \in DOMAIN text : Lower[text[k]] \in HoldsOperator)
  <2>1. ASSUME NEW k \in DOMAIN w, Lower[w[k]] \in HoldsOperator
        PROVE  \E m \in DOMAIN text : Lower[text[m]] \in HoldsOperator
    <3>1. k \in 1 .. Len(text) + 5 /\ k \notin i .. i + 5
      BY <1>2, <1>3, <1>5, <2>1 DEF RouterWords
    <3>2. CASE k < i
      <4>1. k \in DOMAIN text /\ w[k] = text[k]
        BY <1>2, <1>3, <3>1, <3>2
      <4> QED BY <2>1, <4>1
    <3>3. CASE k > i + 5
      <4>1. k - 5 \in DOMAIN text /\ w[k] = text[k - 5]
        BY <1>2, <1>3, <1>6, <3>1, <3>3
      <4> QED BY <2>1, <4>1
    <3> QED BY <1>3, <3>1, <3>2, <3>3
  <2>2. ASSUME NEW k \in DOMAIN text, Lower[text[k]] \in HoldsOperator
        PROVE  \E m \in DOMAIN w : Lower[w[m]] \in HoldsOperator
    <3>1. k # i
      BY <1>7, <2>2 DEF RouterWords
    <3>2. CASE k < i
      <4>1. k \in DOMAIN w /\ w[k] = text[k]
        BY <1>2, <1>3, <3>2
      <4> QED BY <2>2, <4>1
    <3>3. CASE k > i
      <4>1. k + 5 \in DOMAIN w /\ w[k + 5] = text[k]
        BY <1>2, <1>3, <3>3
      <4> QED BY <2>2, <4>1
    <3> QED BY <1>3, <3>1, <3>2, <3>3
  <2> QED BY <2>1, <2>2
<1> DEFINE OrderBy(t, k) ==
             Lower[t[k]] \in EndsInOrder /\ Lower[t[k + 1]] \in StartsWithBy
<1>9. (\E k \in 1 .. Len(w) - 1 : OrderBy(w, k))
      <=> (\E k \in 1 .. Len(text) - 1 : OrderBy(text, k))
  <2>1. ASSUME NEW k \in 1 .. Len(w) - 1, OrderBy(w, k)
        PROVE  \E m \in 1 .. Len(text) - 1 : OrderBy(text, m)
    <3>1. k \in 1 .. Len(text) + 4 /\ k \notin i .. i + 5 /\ k + 1 \notin i .. i + 5
      BY <1>2, <1>3, <1>5, <2>1 DEF RouterWords
    <3>2. CASE k < i
      <4>1. k + 1 < i
        BY <1>3, <3>1, <3>2
      <4>2. k \in 1 .. Len(text) - 1 /\ k \in 1 .. i - 1 /\ k + 1 \in 1 .. i - 1
        BY <1>3, <3>1, <4>1
      <4>3. w[k] = text[k] /\ w[k + 1] = text[k + 1]
        BY <1>2, <4>2
      <4> QED BY <2>1, <4>2, <4>3
    <3>3. CASE k > i + 5
      <4>1. k - 5 \in 1 .. Len(text) - 1 /\ k + 1 - 5 = k - 5 + 1
            /\ k \in i + 6 .. Len(w) /\ k + 1 \in i + 6 .. Len(w)
        BY <1>2, <1>3, <3>1, <3>3
      <4>2. w[k] = text[k - 5] /\ w[k + 1] = text[k - 5 + 1]
        BY <1>6, <4>1
      <4> QED BY <2>1, <4>1, <4>2
    <3> QED BY <1>3, <3>1, <3>2, <3>3
  <2>2. ASSUME NEW k \in 1 .. Len(text) - 1, OrderBy(text, k)
        PROVE  \E m \in 1 .. Len(w) - 1 : OrderBy(w, m)
    <3>1. k # i /\ k + 1 # i
      BY <1>7, <2>2 DEF RouterWords
    <3>2. CASE k < i
      <4>1. k \in 1 .. Len(w) - 1 /\ k \in 1 .. i - 1 /\ k + 1 \in 1 .. i - 1
        BY <1>2, <1>3, <3>1, <3>2
      <4>2. w[k] = text[k] /\ w[k + 1] = text[k + 1]
        BY <1>2, <4>1
      <4> QED BY <2>2, <4>1, <4>2
    <3>3. CASE k > i
      <4>1. k + 5 \in 1 .. Len(w) - 1 /\ k + 1 + 5 = k + 5 + 1
            /\ k \in i + 1 .. Len(text) /\ k + 1 \in i + 1 .. Len(text)
        BY <1>2, <1>3, <3>3
      <4>2. w[k + 5] = text[k] /\ w[k + 5 + 1] = text[k + 1]
        BY <1>2, <4>1
      <4> QED BY <2>2, <4>1, <4>2
    <3> QED BY <1>3, <3>1, <3>2, <3>3
  <2> QED BY <2>1, <2>2
<1> QED BY <1>1, <1>8, <1>9 DEF Classify

\* What makes MaskKeepsVectorRoute inductive: the text so far routes like the
\* query.
VectorInv ==
  /\ vectorNode \in VectorNodes
  /\ vectorAnswer \in {NotAsked, Default, Node(vectorNode)}
  /\ NotRouterWords(rules.list) =>
        \A n : Classify(out, Lower, n) = Classify(query, Lower, n)
  /\ MaskKeepsVectorRoute

LEMMA WrapColumnRoutes ==
  ASSUME MaskInv, WrapColumn, NotRouterWords(rules.list), NEW n
  PROVE  Classify(out', Lower, n) = Classify(out, Lower, n)
<1> DEFINE r == applied[turn]
           i == FindWord(out, r.column)
<1>1. Turn /\ i # 0 /\ out' = Wrap(out, i, r)
  BY DEF WrapColumn
<1>2. MaskTypeOK /\ out \in Seq(Tokens)
  BY DEF MaskInv, MaskTypeOK
<1>3. r \in MaskRule /\ applied = rules.list /\ turn \in DOMAIN rules.list
  BY <1>1, <1>2, TurnIs
<1>4. {Lower[r.column], Lower[r.mask_function]} \cap RouterWords = {}
  BY <1>3 DEF NotRouterWords
<1>5. i \in DOMAIN out /\ Lower[out[i]] = Lower[r.column]
  BY <1>1, <1>2, FindWordIs
<1> HIDE DEF r, i
<1>6. Classify(Wrap(out, i, r), Lower, n) = Classify(out, Lower, n)
  <2>1. Lower[r.column] \notin RouterWords /\ Lower[r.mask_function] \notin RouterWords
    BY <1>4
  <2> QED BY <1>2, <1>3, <1>5, <2>1, WrapKeepsRoute
<1> QED BY <1>1, <1>6

LEMMA VectorStep ==
  ASSUME MaskInv, VectorInv, [PathNext]_pathVars
  PROVE  VectorInv'
<1>1. CASE Masking
  <2>1. /\ MaskNext /\ vectorAnswer = NotAsked
        /\ vectorAnswer' = vectorAnswer /\ vectorNode' = vectorNode
    BY <1>1 DEF Masking, vectorVars
  <2>2. query' = query /\ rules' = rules
    BY <2>1 DEF MaskNext, PreQuery, ReadRules, SkipRule, WrapColumn, MaskTraps,
                Answer, ComesAgain, NextRule
  <2>3. ASSUME NotRouterWords(rules.list), NEW n
        PROVE  Classify(out', Lower, n) = Classify(query, Lower, n)
    <3>1. CASE WrapColumn
      <4>1. Classify(out', Lower, n) = Classify(out, Lower, n)
        BY <2>3, <3>1, WrapColumnRoutes
      <4> QED BY <2>3, <4>1 DEF VectorInv
    <3>2. CASE ~WrapColumn
      <4>1. out' = out
        BY <2>1, <3>2 DEF MaskNext, PreQuery, ReadRules, SkipRule, MaskTraps,
                          Answer, ComesAgain
      <4> QED BY <2>3, <4>1 DEF VectorInv
    <3> QED BY <3>1, <3>2
  <2>4. MaskKeepsVectorRoute'
    BY <2>1 DEF MaskKeepsVectorRoute
  <2>5. NotRouterWords(rules'.list) =>
            \A n : Classify(out', Lower, n) = Classify(query', Lower, n)
    BY <2>2, <2>3
  <2> QED BY <2>1, <2>4, <2>5 DEF VectorInv
<1>2. CASE VectorRoute
  <2>1. /\ vectorAnswer' = Classify(out, Lower, vectorNode)
        /\ vectorNode' = vectorNode /\ out' = out /\ query' = query /\ rules' = rules
    BY <1>2 DEF VectorRoute, maskVars
  <2>2. vectorAnswer' \in {NotAsked, Default, Node(vectorNode)}
    BY <2>1 DEF Classify
  <2>3. NotRouterWords(rules.list) =>
            vectorAnswer' = Classify(query, Lower, vectorNode)
    BY <2>1 DEF VectorInv
  <2> QED BY <2>1, <2>2, <2>3 DEF VectorInv, MaskKeepsVectorRoute
<1>3. CASE UNCHANGED <<maskVars, vectorVars>>
  BY <1>3 DEF maskVars, vectorVars, VectorInv, MaskKeepsVectorRoute
<1> QED BY <1>1, <1>2, <1>3 DEF PathNext, pathVars, ResidencyRoute, OperatorUpdates

-----------------------------------------------------------------------------
(* The residency-router's two reads.                                        *)

AtMostOne(W) == \A a, b \in W : a = b

LEMMA CardinalityOne ==
  ASSUME NEW W, IsFiniteSet(W), Cardinality(W) <= 1
  PROVE  AtMostOne(W)
<1> SUFFICES ASSUME NEW a \in W, NEW b \in W, a # b PROVE FALSE
  BY DEF AtMostOne
<1>1. IsFiniteSet({a}) /\ Cardinality({a}) = 1
  BY FS_Singleton
<1>2. IsFiniteSet({a} \cup {b}) /\ Cardinality({a} \cup {b}) = 2
  <2>1. b \notin {a}
    OBVIOUS
  <2>2. /\ IsFiniteSet({a} \cup {b})
        /\ Cardinality({a} \cup {b}) = Cardinality({a}) + 1
    BY <1>1, <2>1, FS_AddElement
  <2> QED BY <1>1, <2>2
<1>3. Cardinality({a} \cup {b}) <= Cardinality(W)
  <2>1. {a} \cup {b} \subseteq W
    OBVIOUS
  <2> QED BY <2>1, FS_Subset
<1>4. Cardinality(W) \in Nat
  BY FS_CardinalityType
<1> QED BY <1>2, <1>3, <1>4

\* The operator's update under way: it has yet to write the key that its
\* order leaves to the end.
UpdateInv ==
  \/ update = NoUpdate
  \/ /\ updates \in 1 .. MaxUpdates
     /\ \/ flagFirst /\ \E m \in RegionMaps : update = [key |-> "map", value |-> m]
        \/ ~flagFirst /\ \E b \in BOOLEAN : update = [key |-> "enforce", value |-> b]

\* Between the two reads: what is stored now is one of the moments; the map
\* that was read is the one of a moment; and when the operator writes the flag
\* first and only one update has written, of a moment with the flag of now.
BetweenReads ==
  /\ [map |-> map, enforce |-> enforce] \in moments
  /\ \/ \E s \in moments : Readable(s.map) = seenMap
     \/ misread = TRUE /\ seenMap = NoMap
  /\ flagFirst /\ misread = FALSE /\ AtMostOne(writers) =>
        /\ writers = {} => Readable(map) = seenMap
        /\ \E s \in moments : Readable(s.map) = seenMap /\ s.enforce = enforce

RouteInv ==
  /\ RouteTypeOK
  /\ UpdateInv
  /\ writers \subseteq 1 .. updates
  /\ routePc = "start" => /\ moments = {} /\ writers = {}
                          /\ misread = FALSE /\ answer = Default
  /\ routePc = "flag" => BetweenReads
  /\ AnswerOfAMoment
  /\ AnswerIsGrounded

LEMMA RouteInitCorrect == RouteInit => RouteInv
<1> SUFFICES ASSUME RouteInit PROVE RouteInv
  OBVIOUS
<1>1. RouteTypeOK
  <2>1. misread \in BOOLEAN
    BY DEF RouteInit
  <2>2. updates \in 0 .. MaxUpdates /\ writers \subseteq 1 .. MaxUpdates
    BY MapsAssumption DEF RouteInit
  <2> QED BY <2>1, <2>2 DEF RouteInit, RouteTypeOK, NoUpdate
<1>2. routePc = "start" /\ update = NoUpdate /\ moments = {} /\ writers = {}
      /\ misread = FALSE /\ answer = Default
  BY DEF RouteInit
<1> QED BY <1>1, <1>2 DEF RouteInv, UpdateInv, AnswerOfAMoment, AnswerIsGrounded

\* What Decide makes of a map and a flag.
LEMMA DecideIs ==
  ASSUME NEW r, NEW m, NEW flag \in BOOLEAN
  PROVE  /\ Decide(r, m, flag) = Block => flag = TRUE /\ ~Serves(m, r)
         /\ Decide(r, m, flag).action = "node" =>
               Serves(m, r) /\ Decide(r, m, flag) = Node(NodeOf(m, r))
<1>1. CASE r = NoRegion
  BY <1>1 DEF Decide, Default, Block
<1>2. CASE r # NoRegion /\ Serves(m, r)
  BY <1>2 DEF Decide, Node, Block
<1>3. CASE r # NoRegion /\ ~Serves(m, r) /\ flag = TRUE
  <2>1. Decide(r, m, flag) = Block
    BY <1>3 DEF Decide
  <2> QED BY <1>3, <2>1 DEF Block
<1>4. CASE r # NoRegion /\ ~Serves(m, r) /\ flag = FALSE
  <2>1. Decide(r, m, flag) = Default
    BY <1>4 DEF Decide
  <2> QED BY <1>4, <2>1 DEF Block, Default
<1> QED BY <1>1, <1>2, <1>3, <1>4

LEMMA NoMapServesNone == \A r : ~Serves(NoMap, r)
  BY DEF Serves, OfRegion, NoMap

LEMMA ReadMapStep == ASSUME RouteInv, ReadMap PROVE RouteInv'
<1>1. /\ routePc = "start" /\ routePc' = "flag" /\ map' = map /\ enforce' = enforce
      /\ moments' = {[map |-> map, enforce |-> enforce]}
      /\ update' = update /\ updates' = updates /\ flagFirst' = flagFirst
      /\ writers' = writers /\ writers = {} /\ answer' = answer
      /\ region' = region /\ misread = FALSE
  BY DEF ReadMap, RouteInv
<1>2. RouteTypeOK /\ map \in RegionMaps \cup {NoMap} /\ enforce \in BOOLEAN
  BY DEF RouteInv, RouteTypeOK
<1>3. \/ seenMap' = Readable(map) /\ misread' = FALSE
      \/ seenMap' = NoMap /\ misread' = TRUE
  <2>1. CASE seenMap' = (IF map.fits THEN map ELSE NoMap) /\ misread' = misread
    BY <1>1, <2>1 DEF Readable
  <2>2. CASE seenMap' = NoMap /\ misread' = TRUE
    BY <2>2
  <2> QED BY <2>1, <2>2 DEF ReadMap
<1>4. misread' \in BOOLEAN /\ seenMap' \in RegionMaps \cup {NoMap}
  BY <1>2, <1>3 DEF Readable
<1>5. RouteTypeOK'
  BY <1>1, <1>2, <1>4 DEF RouteTypeOK
<1>6. BetweenReads'
  <2> DEFINE s == [map |-> map, enforce |-> enforce]
  <2>1. s \in moments' /\ s.map = map /\ s.enforce = enforce
    BY <1>1
  <2> HIDE DEF s
  <2>2. s = [map |-> map', enforce |-> enforce']
    BY <1>1 DEF s
  <2> QED BY <1>1, <1>3, <2>1, <2>2 DEF BetweenReads
<1>7. UpdateInv' /\ writers' \subseteq 1 .. updates'
  BY <1>1 DEF RouteInv, UpdateInv
<1> QED BY <1>1, <1>5, <1>6, <1>7 DEF RouteInv, AnswerOfAMoment, AnswerIsGrounded

LEMMA ReadEnforceStep == ASSUME RouteInv, ReadEnforce PROVE RouteInv'
<1>1. /\ routePc = "flag" /\ routePc' = "done" /\ BetweenReads
      /\ map' = map /\ enforce' = enforce /\ region' = region /\ seenMap' = seenMap
      /\ flagFirst' = flagFirst /\ update' = update /\ updates' = updates
      /\ moments' = moments /\ writers' = writers
  BY DEF ReadEnforce, RouteInv
<1>2. \/ answer' = Decide(region, seenMap, enforce) /\ misread' = misread
      \/ answer' = Decide(region, seenMap, FALSE) /\ misread' = TRUE
  BY DEF ReadEnforce
<1>3. enforce \in BOOLEAN /\ misread \in BOOLEAN /\ RouteTypeOK
      /\ writers \subseteq 1 .. MaxUpdates
  BY DEF RouteInv, RouteTypeOK
<1>4. RouteTypeOK'
  <2>1. misread' \in BOOLEAN
    BY <1>2, <1>3
  <2> QED BY <1>1, <1>3, <2>1 DEF RouteTypeOK
<1>5. PICK flag \in BOOLEAN : answer' = Decide(region, seenMap, flag)
                              /\ (flag = TRUE => enforce = TRUE)
  BY <1>2, <1>3
<1>6. AnswerOfAMoment'
  <2> SUFFICES ASSUME flagFirst, ~misread', Cardinality(writers) <= 1
               PROVE  \E s \in moments :
                         answer' = Decide(region, Readable(s.map), s.enforce)
    BY <1>1 DEF AnswerOfAMoment
  <2>1. misread = FALSE /\ answer' = Decide(region, seenMap, enforce)
    BY <1>2, <1>3
  <2>2. AtMostOne(writers)
    <3>1. IsFiniteSet(1 .. MaxUpdates)
      BY FS_Interval, MapsAssumption
    <3>2. IsFiniteSet(writers)
      BY <1>3, <3>1, FS_Subset
    <3> QED BY <3>2, CardinalityOne
  <2>3. PICK s \in moments : Readable(s.map) = seenMap /\ s.enforce = enforce
    BY <1>1, <2>1, <2>2 DEF BetweenReads
  <2> QED BY <2>1, <2>3
<1>7. AnswerIsGrounded'
  <2>1. ASSUME answer' = Block
        PROVE  /\ \E s \in moments : s.enforce
               /\ misread' \/ \E s \in moments : ~Serves(Readable(s.map), region)
    <3>1. enforce = TRUE /\ ~Serves(seenMap, region)
      BY <1>5, <2>1, DecideIs
    <3>2. \E s \in moments : s.enforce
      <4> DEFINE s == [map |-> map, enforce |-> enforce]
      <4>1. s \in moments /\ s.enforce
        BY <1>1, <3>1 DEF BetweenReads
      <4> QED BY <4>1
    <3>3. CASE \E s \in moments : Readable(s.map) = seenMap
      BY <3>1, <3>2, <3>3
    <3>4. CASE misread = TRUE
      <4>1. misread' = TRUE
        BY <1>2, <3>4
      <4> QED BY <3>2, <4>1
    <3> QED BY <1>1, <3>3, <3>4 DEF BetweenReads
  <2>2. ASSUME answer'.action = "node"
        PROVE  \E s \in moments : Serves(s.map, region)
                                  /\ answer' = Node(NodeOf(s.map, region))
    <3>1. Serves(seenMap, region) /\ answer' = Node(NodeOf(seenMap, region))
      BY <1>5, <2>2, DecideIs
    <3>2. seenMap # NoMap
      BY <3>1, NoMapServesNone
    <3>3. PICK s \in moments : Readable(s.map) = seenMap
      BY <1>1, <3>2 DEF BetweenReads
    <3>4. s.map = seenMap
      BY <3>2, <3>3 DEF Readable
    <3> QED BY <3>1, <3>4
  <2> QED BY <1>1, <2>1, <2>2 DEF AnswerIsGrounded
<1>8. UpdateInv' /\ writers' \subseteq 1 .. updates'
  BY <1>1 DEF RouteInv, UpdateInv
<1> QED BY <1>1, <1>4, <1>6, <1>7, <1>8 DEF RouteInv

\* A write of the operator's adds what is stored then to the moments of a call
\* that is between its reads, and touches no other.
LEMMA StoreIs ==
  ASSUME NEW n, NEW m, NEW flag, Store(n, m, flag), routePc # "done", RouteInv
  PROVE  /\ map' = m /\ enforce' = flag
         /\ region' = region /\ routePc' = routePc /\ seenMap' = seenMap
         /\ answer' = answer /\ flagFirst' = flagFirst /\ misread' = misread
         /\ moments \subseteq moments' /\ writers' \subseteq writers \cup {n}
         /\ writers \subseteq writers'
         /\ routePc = "start" => moments' = {} /\ writers' = {}
         /\ routePc = "flag" => /\ [map |-> m, enforce |-> flag] \in moments'
                                /\ n \in writers'
         /\ AnswerOfAMoment' /\ AnswerIsGrounded'
<1>1. /\ map' = m /\ enforce' = flag
      /\ region' = region /\ routePc' = routePc /\ seenMap' = seenMap
      /\ answer' = answer /\ flagFirst' = flagFirst /\ misread' = misread
  BY DEF Store
<1>2. CASE routePc = "flag"
  <2>1. /\ moments' = moments \cup {[map |-> m, enforce |-> flag]}
        /\ writers' = writers \cup {n}
    BY <1>2 DEF Store
  <2> QED BY <1>1, <1>2, <2>1 DEF AnswerOfAMoment, AnswerIsGrounded
<1>3. CASE routePc # "flag"
  <2>1. moments' = moments /\ writers' = writers
    BY <1>3 DEF Store
  <2>2. routePc = "start" /\ moments = {} /\ writers = {}
    BY <1>3 DEF RouteInv, RouteTypeOK
  <2> QED BY <1>1, <2>1, <2>2 DEF AnswerOfAMoment, AnswerIsGrounded
<1> QED BY <1>2, <1>3

LEMMA BeginUpdateStep ==
  ASSUME RouteInv, BeginUpdate, routePc # "done" PROVE RouteInv'
<1>1. PICK m \in RegionMaps, flag \in BOOLEAN :
        /\ update = NoUpdate /\ updates < MaxUpdates
        /\ updates' = updates + 1
        /\ IF flagFirst
           THEN update' = [key |-> "map", value |-> m] /\ Store(updates', map, flag)
           ELSE update' = [key |-> "enforce", value |-> flag]
                /\ Store(updates', m, enforce)
  BY DEF BeginUpdate
<1>2. /\ map \in RegionMaps \cup {NoMap} /\ enforce \in BOOLEAN /\ updates \in Nat
      /\ seenMap \in RegionMaps \cup {NoMap} /\ region \in Regions \cup {NoRegion}
      /\ routePc \in {"start", "flag", "done"} /\ flagFirst \in BOOLEAN
      /\ misread \in BOOLEAN /\ writers \subseteq 1 .. updates /\ MaxUpdates \in Nat
  BY MapsAssumption DEF RouteInv, RouteTypeOK
<1>3. PICK mm, ff : /\ Store(updates + 1, mm, ff)
                    /\ mm \in RegionMaps \cup {NoMap} /\ ff \in BOOLEAN
                    /\ flagFirst => mm = map
  <2>1. CASE flagFirst = TRUE
    <3>1. Store(updates + 1, map, flag)
      BY <1>1, <2>1
    <3> QED BY <1>2, <3>1
  <2>2. CASE flagFirst = FALSE
    <3>1. Store(updates + 1, m, enforce)
      BY <1>1, <2>2
    <3> QED BY <1>2, <2>2, <3>1
  <2> QED BY <1>2, <2>1, <2>2
<1>4. /\ map' = mm /\ enforce' = ff
      /\ region' = region /\ routePc' = routePc /\ seenMap' = seenMap
      /\ answer' = answer /\ flagFirst' = flagFirst /\ misread' = misread
      /\ moments \subseteq moments' /\ writers' \subseteq writers \cup {updates + 1}
      /\ writers \subseteq writers'
      /\ routePc = "start" => moments' = {} /\ writers' = {}
      /\ routePc = "flag" => /\ [map |-> mm, enforce |-> ff] \in moments'
                             /\ updates + 1 \in writers'
      /\ AnswerOfAMoment' /\ AnswerIsGrounded'
  BY <1>3, StoreIs
<1>5. updates' \in 1 .. MaxUpdates /\ writers' \subseteq 1 .. updates'
      /\ updates' \in 0 .. MaxUpdates /\ writers' \subseteq 1 .. MaxUpdates
  BY <1>1, <1>2, <1>4
<1>6. UpdateInv'
  BY <1>1, <1>2, <1>4, <1>5 DEF UpdateInv
<1>7. RouteTypeOK'
  <2>1. /\ update'.key = "map" => update'.value \in RegionMaps
        /\ update'.key = "enforce" => update'.value \in BOOLEAN
    BY <1>6 DEF UpdateInv, NoUpdate
  <2> QED BY <1>2, <1>3, <1>4, <1>5, <2>1 DEF RouteTypeOK
<1>8. ASSUME routePc = "flag" PROVE BetweenReads'
  <2>1. BetweenReads
    BY <1>8 DEF RouteInv
  <2>2. ASSUME flagFirst, misread = FALSE, AtMostOne(writers')
        PROVE  \E s \in moments' : Readable(s.map) = seenMap /\ s.enforce = ff
    <3>1. writers = {}
      <4> SUFFICES ASSUME NEW w \in writers PROVE FALSE
        OBVIOUS
      <4>1. w = updates + 1
        BY <1>4, <1>8, <2>2 DEF AtMostOne
      <4> QED BY <1>2, <4>1
    <3>2. AtMostOne(writers)
      BY <3>1 DEF AtMostOne
    <3>3. Readable(mm) = seenMap
      BY <1>3, <2>1, <2>2, <3>1, <3>2 DEF BetweenReads
    <3> DEFINE s == [map |-> mm, enforce |-> ff]
    <3>4. s \in moments' /\ s.map = mm /\ s.enforce = ff
      BY <1>4, <1>8
    <3> HIDE DEF s
    <3> QED BY <3>3, <3>4
  <2>3. writers' # {}
    BY <1>4, <1>8
  <2>4. [map |-> map', enforce |-> enforce'] \in moments'
    BY <1>4, <1>8
  <2>5. \/ \E s \in moments' : Readable(s.map) = seenMap'
        \/ misread' = TRUE /\ seenMap' = NoMap
    BY <1>4, <2>1 DEF BetweenReads
  <2>6. flagFirst' /\ misread' = FALSE /\ AtMostOne(writers') =>
          /\ writers' = {} => Readable(map') = seenMap'
          /\ \E s \in moments' : Readable(s.map) = seenMap' /\ s.enforce = enforce'
    BY <1>4, <2>2, <2>3
  <2> QED BY <2>4, <2>5, <2>6 DEF BetweenReads
<1>9. ASSUME routePc = "start"
      PROVE  moments' = {} /\ writers' = {} /\ misread' = FALSE /\ answer' = Default
  BY <1>4, <1>9 DEF RouteInv
<1> QED BY <1>4, <1>5, <1>6, <1>7, <1>8, <1>9 DEF RouteInv

LEMMA EndUpdateStep ==
  ASSUME RouteInv, EndUpdate, routePc # "done" PROVE RouteInv'
<1>1. /\ update # NoUpdate /\ update' = NoUpdate /\ updates' = updates
      /\ IF update.key = "map" THEN Store(updates, update.value, enforce)
         ELSE Store(updates, map, update.value)
  BY DEF EndUpdate
<1>2. /\ map \in RegionMaps \cup {NoMap} /\ enforce \in BOOLEAN /\ updates \in Nat
      /\ seenMap \in RegionMaps \cup {NoMap} /\ region \in Regions \cup {NoRegion}
      /\ routePc \in {"start", "flag", "done"} /\ flagFirst \in BOOLEAN
      /\ misread \in BOOLEAN /\ writers \subseteq 1 .. updates /\ MaxUpdates \in Nat
      /\ updates \in 1 .. MaxUpdates
  BY <1>1, MapsAssumption DEF RouteInv, RouteTypeOK, UpdateInv
<1>3. PICK mm, ff : /\ Store(updates, mm, ff)
                    /\ mm \in RegionMaps \cup {NoMap} /\ ff \in BOOLEAN
                    /\ flagFirst => ff = enforce
  <2>1. CASE flagFirst = TRUE
    <3>1. PICK m \in RegionMaps : update = [key |-> "map", value |-> m]
      BY <1>1, <2>1 DEF RouteInv, UpdateInv
    <3>2. update.key = "map" /\ update.value = m
      BY <3>1
    <3>3. Store(updates, m, enforce)
      BY <1>1, <3>2
    <3> QED BY <1>2, <3>3
  <2>2. CASE flagFirst = FALSE
    <3>1. PICK b \in BOOLEAN : update = [key |-> "enforce", value |-> b]
      BY <1>1, <2>2 DEF RouteInv, UpdateInv
    <3>2. update.key # "map" /\ update.value = b
      BY <3>1
    <3>3. Store(updates, map, b)
      BY <1>1, <3>2
    <3> QED BY <1>2, <2>2, <3>3
  <2> QED BY <1>2, <2>1, <2>2
<1>4. /\ map' = mm /\ enforce' = ff
      /\ region' = region /\ routePc' = routePc /\ seenMap' = seenMap
      /\ answer' = answer /\ flagFirst' = flagFirst /\ misread' = misread
      /\ moments \subseteq moments' /\ writers' \subseteq writers \cup {updates}
      /\ writers \subseteq writers'
      /\ routePc = "start" => moments' = {} /\ writers' = {}
      /\ routePc = "flag" => /\ [map |-> mm, enforce |-> ff] \in moments'
                             /\ updates \in writers'
      /\ AnswerOfAMoment' /\ AnswerIsGrounded'
  BY <1>3, StoreIs
<1>5. writers' \subseteq 1 .. updates' /\ updates' \in 0 .. MaxUpdates
      /\ writers' \subseteq 1 .. MaxUpdates
  BY <1>1, <1>2, <1>4
<1>6. RouteTypeOK'
  <2>1. /\ update'.key = "map" => update'.value \in RegionMaps
        /\ update'.key = "enforce" => update'.value \in BOOLEAN
    BY <1>1 DEF NoUpdate
  <2> QED BY <1>2, <1>3, <1>4, <1>5, <2>1 DEF RouteTypeOK
<1>7. ASSUME routePc = "flag" PROVE BetweenReads'
  <2>1. BetweenReads
    BY <1>7 DEF RouteInv
  <2>2. ASSUME flagFirst, misread = FALSE, AtMostOne(writers')
        PROVE  \E s \in moments' : Readable(s.map) = seenMap /\ s.enforce = ff
    <3>1. AtMostOne(writers)
      BY <1>4, <2>2 DEF AtMostOne
    <3>2. PICK s \in moments : Readable(s.map) = seenMap /\ s.enforce = enforce
      BY <2>1, <2>2, <3>1 DEF BetweenReads
    <3> QED BY <1>3, <1>4, <2>2, <3>2
  <2>3. writers' # {}
    BY <1>4, <1>7
  <2>4. [map |-> map', enforce |-> enforce'] \in moments'
    BY <1>4, <1>7
  <2>5. \/ \E s \in moments' : Readable(s.map) = seenMap'
        \/ misread' = TRUE /\ seenMap' = NoMap
    BY <1>4, <2>1 DEF BetweenReads
  <2>6. flagFirst' /\ misread' = FALSE /\ AtMostOne(writers') =>
          /\ writers' = {} => Readable(map') = seenMap'
          /\ \E s \in moments' : Readable(s.map) = seenMap' /\ s.enforce = enforce'
    BY <1>4, <2>2, <2>3
  <2> QED BY <2>4, <2>5, <2>6 DEF BetweenReads
<1>8. ASSUME routePc = "start"
      PROVE  moments' = {} /\ writers' = {} /\ misread' = FALSE /\ answer' = Default
  BY <1>4, <1>8 DEF RouteInv
<1> QED BY <1>1, <1>4, <1>5, <1>6, <1>7, <1>8 DEF RouteInv, UpdateInv

LEMMA RouteStep == ASSUME RouteInv, [PathNext]_pathVars PROVE RouteInv'
<1>1. CASE RouteUnparsed
  BY <1>1 DEF RouteUnparsed, RouteInv, RouteTypeOK, UpdateInv, AnswerOfAMoment,
              AnswerIsGrounded, Default, Block
<1>2. CASE ReadMap
  BY <1>2, ReadMapStep
<1>3. CASE ReadEnforce
  BY <1>3, ReadEnforceStep
<1>4. CASE OperatorUpdates
  BY <1>4, BeginUpdateStep, EndUpdateStep DEF OperatorUpdates, Operator
<1>5. CASE UNCHANGED routeVars
  BY <1>5 DEF routeVars, RouteInv, RouteTypeOK, UpdateInv, BetweenReads,
              AnswerOfAMoment, AnswerIsGrounded
<1> QED BY <1>1, <1>2, <1>3, <1>4, <1>5
        DEF PathNext, pathVars, Masking, VectorRoute, ResidencyRoute, Route

-----------------------------------------------------------------------------
(* The theorems.                                                            *)

PathInv == MaskInv /\ VectorInv /\ RouteInv

LEMMA PathInitCorrect == PathInit => PathInv
<1> SUFFICES ASSUME PathInit PROVE PathInv
  OBVIOUS
<1>1. MaskInv /\ RouteInv
  BY MaskInitCorrect, RouteInitCorrect DEF PathInit
<1>2. vectorAnswer = NotAsked /\ vectorNode \in VectorNodes /\ out = query
  BY DEF PathInit, MaskInit
<1> QED BY <1>1, <1>2 DEF PathInv, VectorInv, MaskKeepsVectorRoute

LEMMA PathStep == PathInv /\ [PathNext]_pathVars => PathInv'
<1> SUFFICES ASSUME PathInv, [PathNext]_pathVars PROVE PathInv'
  OBVIOUS
<1>1. [MaskNext]_maskVars
  BY DEF PathNext, pathVars, Masking, VectorRoute, ResidencyRoute, OperatorUpdates
<1>2. MaskInv'
  BY <1>1, MaskStep DEF PathInv
<1>3. VectorInv' /\ RouteInv'
  BY VectorStep, RouteStep DEF PathInv
<1> QED BY <1>2, <1>3 DEF PathInv

THEOREM PathInvariant == PathSpec => []PathInv
<1> QED BY PathInitCorrect, PathStep, PTL DEF PathSpec

\* The types of QueryPath, ColumnMask and Routing: in particular masking
\* leaves a text of tokens and an update under way is one of the operator's.
THEOREM PathTypeCorrect == PathSpec => []PathTypeOK
<1>1. PathInv => PathTypeOK
  BY DEF PathInv, MaskInv, VectorInv, RouteInv, PathTypeOK
<1> QED BY <1>1, PathInvariant, PTL

\* The pgvector-router answers for the masked text what it would answer for
\* the query, whatever the rules mask and however often they do.
THEOREM VectorRouteIsKept == PathSpec => []MaskKeepsVectorRoute
<1>1. PathInv => MaskKeepsVectorRoute
  BY DEF PathInv, VectorInv
<1> QED BY <1>1, PathInvariant, PTL

\* With the flag written before the map, the residency-router's two reads
\* under one update are as good as one, for any maps, old and new.
THEOREM AnswersAreOfAMoment == PathSpec => []AnswerOfAMoment
<1>1. PathInv => AnswerOfAMoment
  BY DEF PathInv, RouteInv
<1> QED BY <1>1, PathInvariant, PTL

\* However many updates write and whatever read fails, the residency-router
\* blocks and sends to a node only on the ground of what was stored during
\* the call.
THEOREM AnswersAreGrounded == PathSpec => []AnswerIsGrounded
<1>1. PathInv => AnswerIsGrounded
  BY DEF PathInv, RouteInv
<1> QED BY <1>1, PathInvariant, PTL

-----------------------------------------------------------------------------
(* Masking in turn is masking at once.                                      *)

\* A wrapped text, place by place.
IsWrap(w, text, k, r) ==
  /\ w \in Seq(Tokens) /\ Len(text) \in Nat /\ Len(w) = Len(text) + 5
  /\ DOMAIN text = 1 .. Len(text) /\ DOMAIN w = 1 .. Len(text) + 5
  /\ \A p \in 1 .. Len(text) : /\ p < k => w[p] = text[p]
                               /\ p > k => w[p + 5] = text[p]
  /\ w[k] = r.mask_function /\ w[k + 1] = "(" /\ w[k + 2] = r.column
  /\ w[k + 3] = ")" /\ w[k + 4] = "AS" /\ w[k + 5] = r.column

LEMMA WrapAt ==
  ASSUME NEW text \in Seq(Tokens), NEW k \in DOMAIN text, NEW r \in MaskRule
  PROVE  IsWrap(Wrap(text, k, r), text, k, r)
<1>0. PICK w : w = Wrap(text, k, r)
  OBVIOUS
<1>1. /\ w \in Seq(Tokens) /\ Len(w) = Len(text) + 5
      /\ \A j \in 1 .. k - 1 : w[j] = text[j]
      /\ \A j \in 1 .. 6 : w[k - 1 + j] = Wrapped(r)[j]
      /\ \A j \in k + 1 .. Len(text) : w[j + 5] = text[j]
  BY <1>0, WrapIs
<1>2. Len(text) \in Nat /\ DOMAIN text = 1 .. Len(text) /\ k \in Nat
      /\ DOMAIN w = 1 .. Len(text) + 5
  BY <1>1
<1>3. ASSUME NEW p \in 1 .. Len(text)
      PROVE  /\ p < k => w[p] = text[p]
             /\ p > k => w[p + 5] = text[p]
  <2>1. p < k => p \in 1 .. k - 1
    BY <1>2
  <2>2. p > k => p \in k + 1 .. Len(text)
    BY <1>2
  <2> QED BY <1>1, <2>1, <2>2
<1>4. /\ k - 1 + 1 = k /\ k - 1 + 2 = k + 1 /\ k - 1 + 3 = k + 2
      /\ k - 1 + 4 = k + 3 /\ k - 1 + 5 = k + 4 /\ k - 1 + 6 = k + 5
  BY <1>2
<1>5. /\ w[k] = Wrapped(r)[1] /\ w[k + 1] = Wrapped(r)[2] /\ w[k + 2] = Wrapped(r)[3]
      /\ w[k + 3] = Wrapped(r)[4] /\ w[k + 4] = Wrapped(r)[5] /\ w[k + 5] = Wrapped(r)[6]
  <2>1. /\ w[k - 1 + 1] = Wrapped(r)[1] /\ w[k - 1 + 2] = Wrapped(r)[2]
        /\ w[k - 1 + 3] = Wrapped(r)[3] /\ w[k - 1 + 4] = Wrapped(r)[4]
        /\ w[k - 1 + 5] = Wrapped(r)[5] /\ w[k - 1 + 6] = Wrapped(r)[6]
    BY <1>1
  <2> QED BY <1>4, <2>1
<1>6. /\ Wrapped(r)[1] = r.mask_function /\ Wrapped(r)[2] = "(" /\ Wrapped(r)[3] = r.column
      /\ Wrapped(r)[4] = ")" /\ Wrapped(r)[5] = "AS" /\ Wrapped(r)[6] = r.column
  BY DEF Wrapped
<1>7. IsWrap(w, text, k, r)
  BY <1>1, <1>2, <1>3, <1>5, <1>6 DEF IsWrap
<1> QED BY <1>0, <1>7

\* Where a token of a wrapped text comes from.
LEMMA WrapOrigin ==
  ASSUME NEW text \in Seq(Tokens), NEW k \in DOMAIN text, NEW r,
         NEW w, IsWrap(w, text, k, r), NEW p \in DOMAIN w
  PROVE  \/ p < k /\ p \in DOMAIN text /\ w[p] = text[p]
         \/ p > k + 5 /\ p - 5 \in DOMAIN text /\ p - 5 > k /\ w[p] = text[p - 5]
         \/ p \in k .. k + 5 /\ w[p] \in {r.mask_function, "(", r.column, ")", "AS"}
<1>1. /\ Len(text) \in Nat /\ DOMAIN text = 1 .. Len(text) /\ p \in 1 .. Len(text) + 5
      /\ k \in 1 .. Len(text)
      /\ \A q \in 1 .. Len(text) : /\ q < k => w[q] = text[q]
                                   /\ q > k => w[q + 5] = text[q]
  <2>1. /\ Len(text) \in Nat /\ DOMAIN text = 1 .. Len(text)
        /\ DOMAIN w = 1 .. Len(text) + 5
        /\ \A q \in 1 .. Len(text) : /\ q < k => w[q] = text[q]
                                     /\ q > k => w[q + 5] = text[q]
    BY DEF IsWrap
  <2>2. p \in 1 .. Len(text) + 5 /\ k \in 1 .. Len(text)
    BY <2>1
  <2> QED BY <2>1, <2>2
<1>2. CASE p < k
  BY <1>1, <1>2
<1>3. CASE p > k + 5
  <2>1. p - 5 \in 1 .. Len(text) /\ p - 5 > k /\ p - 5 + 5 = p
    BY <1>1, <1>3
  <2>2. w[p - 5 + 5] = text[p - 5]
    BY <1>1, <2>1
  <2> QED BY <1>1, <1>3, <2>1, <2>2
<1>4. CASE p \in k .. k + 5
  <2>1. p \in {k, k + 1, k + 2, k + 3, k + 4, k + 5}
    BY <1>1, <1>4
  <2>2. /\ w[k] = r.mask_function /\ w[k + 1] = "(" /\ w[k + 2] = r.column
        /\ w[k + 3] = ")" /\ w[k + 4] = "AS" /\ w[k + 5] = r.column
    BY DEF IsWrap
  <2>3. w[p] \in {r.mask_function, "(", r.column, ")", "AS"}
    BY <2>1, <2>2
  <2> QED BY <1>4, <2>3
<1> QED BY <1>1, <1>2, <1>3, <1>4

LEMMA FindWordLeast ==
  ASSUME NEW text \in Seq(Tokens), NEW column
  PROVE  /\ FindWord(text, column) = 0 <=> Occurrences(text, column) = {}
         /\ \A i \in Occurrences(text, column) :
               (\A j \in Occurrences(text, column) : i <= j) => FindWord(text, column) = i
         /\ \A j \in Occurrences(text, column) : FindWord(text, column) <= j
         /\ Occurrences(text, column) # {} =>
               FindWord(text, column) \in Occurrences(text, column)
         /\ FindWord(text, column) \in Nat
<1> DEFINE S == Occurrences(text, column)
<1>1. S \subseteq DOMAIN text /\ DOMAIN text = 1 .. Len(text) /\ Len(text) \in Nat
  <2>1. S \subseteq DOMAIN text
    BY DEF Occurrences
  <2>2. DOMAIN text = 1 .. Len(text) /\ Len(text) \in Nat
    OBVIOUS
  <2> QED BY <2>1, <2>2
<1>2. CASE S = {}
  BY <1>2 DEF FindWord
<1>3. CASE S # {}
  <2>1. PICK i \in S : \A j \in S : i <= j
    <3>1. S \subseteq Nat
      BY <1>1
    <3> QED BY <1>3, <3>1, Smallest
  <2>2. FindWord(text, column) = CHOOSE x \in S : \A j \in S : x <= j
    BY <1>3 DEF FindWord
  <2> DEFINE n == FindWord(text, column)
  <2>3. n \in S /\ \A j \in S : n <= j
    BY <2>1, <2>2
  <2>4. n \in 1 .. Len(text)
    BY <1>1, <2>3
  <2>5. ASSUME NEW x \in S, \A j \in S : x <= j PROVE n = x
    <3>1. x <= n /\ n <= x
      BY <2>3, <2>5
    <3>2. x \in 1 .. Len(text)
      BY <1>1
    <3> QED BY <1>1, <2>4, <3>1, <3>2
  <2>6. n # 0 /\ n \in Nat
    BY <1>1, <2>4
  <2> HIDE DEF n, S
  <2> QED BY <1>3, <2>3, <2>5, <2>6 DEF n, S
<1> QED BY <1>2, <1>3

Inserted(r) == {r.mask_function, "(", r.column, ")", "AS"}

\* A wrap moves the occurrences of other columns behind it, and adds none.
LEMMA WrapFinds ==
  ASSUME NEW text \in Seq(Tokens), NEW k \in DOMAIN text, NEW r,
         NEW w, IsWrap(w, text, k, r), NEW column,
         \A v \in Inserted(r) : Lower[v] # Lower[column],
         Lower[text[k]] # Lower[column]
  PROVE  /\ FindWord(text, column) # k
         /\ FindWord(w, column) = IF FindWord(text, column) < k
                                  THEN FindWord(text, column)
                                  ELSE FindWord(text, column) + 5
<1> DEFINE S == Occurrences(text, column)
           W == Occurrences(w, column)
           i == FindWord(text, column)
<1>1. w \in Seq(Tokens)
  BY DEF IsWrap
<1>2. k \in Nat /\ k >= 1 /\ Len(text) \in Nat
      /\ DOMAIN text = 1 .. Len(text) /\ DOMAIN w = 1 .. Len(text) + 5
  BY DEF IsWrap
<1>3. /\ \A p \in W : p \in DOMAIN w /\ column # "" /\ Lower[w[p]] = Lower[column]
      /\ \A p \in DOMAIN w : column # "" /\ Lower[w[p]] = Lower[column] => p \in W
  BY DEF Occurrences
<1>4. /\ \A p \in S : p \in DOMAIN text /\ column # "" /\ Lower[text[p]] = Lower[column]
      /\ \A p \in DOMAIN text : column # "" /\ Lower[text[p]] = Lower[column] => p \in S
  BY DEF Occurrences
<1>5. W \subseteq 1 .. Len(text) + 5 /\ S \subseteq 1 .. Len(text)
  BY <1>2, <1>3, <1>4
<1> HIDE DEF S, W
<1>6. ASSUME NEW p \in W
      PROVE  \/ p < k /\ p \in S
             \/ p > k + 5 /\ p - 5 \in S /\ p - 5 > k
  <2>1. p \in DOMAIN w /\ column # "" /\ Lower[w[p]] = Lower[column]
    BY <1>3
  <2>2. w[p] \notin Inserted(r)
    BY <2>1
  <2>3. \/ p < k /\ p \in DOMAIN text /\ w[p] = text[p]
        \/ p > k + 5 /\ p - 5 \in DOMAIN text /\ p - 5 > k /\ w[p] = text[p - 5]
    BY <2>1, <2>2, WrapOrigin DEF Inserted
  <2> QED BY <1>4, <2>1, <2>3
<1>7. ASSUME NEW q \in 1 .. Len(text), q \in S
      PROVE  \/ q < k /\ q \in W
             \/ q > k /\ q + 5 \in W
  <2>1. q \in 1 .. Len(text) /\ column # "" /\ Lower[text[q]] = Lower[column] /\ q # k
    BY <1>2, <1>4, <1>7
  <2>2. q \in 1 .. Len(text) /\ q # k
    BY <2>1
  <2>3. CASE q < k
    <3>1. w[q] = text[q] /\ q \in DOMAIN w
      BY <1>2, <2>2, <2>3 DEF IsWrap
    <3> QED BY <1>3, <2>1, <2>3, <3>1
  <2>4. CASE q > k
    <3>1. w[q + 5] = text[q] /\ q + 5 \in DOMAIN w
      BY <1>2, <2>2, <2>4 DEF IsWrap
    <3> QED BY <1>3, <2>1, <2>4, <3>1
  <2> QED BY <1>2, <2>2, <2>3, <2>4
<1>8. \A q \in S : (q < k /\ q \in W) \/ (q > k /\ q + 5 \in W)
  BY <1>5, <1>7
<1>9. CASE S = {}
  <2>1. W = {}
    BY <1>6, <1>9
  <2>2. i = 0 /\ FindWord(w, column) = 0
    BY <1>1, <1>9, <2>1, FindWordLeast DEF S, W
  <2> QED BY <1>2, <2>2
<1>10. CASE S # {}
  <2>1. i \in S /\ (\A j \in S : i <= j) /\ i \in Nat
    BY <1>10, FindWordLeast DEF S
  <2>2. \A n \in W : (\A p \in W : n <= p) => FindWord(w, column) = n
    BY <1>1, FindWordLeast DEF W
  <2>3. \A p \in W : p \in Nat
    BY <1>2, <1>5
  <2> HIDE DEF i
  <2>4. CASE i < k
    <3>1. i \in W
      BY <1>2, <1>8, <2>1, <2>4
    <3>2. ASSUME NEW p \in W PROVE i <= p
      BY <1>2, <1>6, <2>1, <2>3, <2>4
    <3>3. FindWord(w, column) = i
      BY <2>2, <3>1, <3>2
    <3> QED BY <1>2, <2>1, <2>4, <3>3 DEF i
  <2>5. CASE ~(i < k)
    <3>1. i + 5 \in W /\ i > k
      BY <1>2, <1>8, <2>1, <2>5
    <3>2. ASSUME NEW p \in W PROVE i + 5 <= p
      BY <1>2, <1>6, <2>1, <2>3, <3>1
    <3>3. FindWord(w, column) = i + 5
      BY <2>2, <3>1, <3>2
    <3> QED BY <1>2, <2>1, <3>1, <3>3 DEF i
  <2> QED BY <2>4, <2>5
<1> QED BY <1>9, <1>10

\* ... and neither brings a panic about nor averts one.
LEMMA WrapPanics ==
  ASSUME NEW text \in Seq(Tokens), NEW k \in DOMAIN text, NEW r,
         NEW w, IsWrap(w, text, k, r), NEW column,
         \A v \in Inserted(r) : Lower[v] # Lower[column] /\ v # Wide,
         Lower[text[k]] # Lower[column], text[k] # Wide
  PROVE  FindPanics(w, column) <=> FindPanics(text, column)
<1> DEFINE F == FindWord(text, column)
           G == FindWord(w, column)
<1>0. k \in Nat /\ k >= 1 /\ Len(text) \in Nat /\ F \in Nat
      /\ DOMAIN text = 1 .. Len(text) /\ DOMAIN w = 1 .. Len(text) + 5
  BY FindWordLeast DEF IsWrap
<1>1. F # k /\ G = IF F < k THEN F ELSE F + 5
  BY WrapFinds
<1>2. FindPanics(w, column) <=>
        column # "" /\ \E p \in DOMAIN w : w[p] = Wide /\ (G = 0 \/ p < G)
  BY DEF FindPanics
<1>3. FindPanics(text, column) <=>
        column # "" /\ \E p \in DOMAIN text : text[p] = Wide /\ (F = 0 \/ p < F)
  BY DEF FindPanics
<1> HIDE DEF F, G
<1>4. ASSUME NEW p \in DOMAIN w, w[p] = Wide, G = 0 \/ p < G
      PROVE  \E q \in DOMAIN text : text[q] = Wide /\ (F = 0 \/ q < F)
  <2>1. \/ p < k /\ p \in DOMAIN text /\ w[p] = text[p]
        \/ p > k + 5 /\ p - 5 \in DOMAIN text /\ p - 5 > k /\ w[p] = text[p - 5]
    BY <1>4, WrapOrigin DEF Inserted
  <2>2. p \in Nat
    BY <1>0
  <2>3. CASE p < k /\ p \in DOMAIN text /\ w[p] = text[p]
    <3>1. F = 0 \/ p < F
      BY <1>0, <1>1, <1>4, <2>2, <2>3
    <3> QED BY <1>4, <2>3, <3>1
  <2>4. CASE p > k + 5 /\ p - 5 \in DOMAIN text /\ p - 5 > k /\ w[p] = text[p - 5]
    <3>1. F = 0 \/ p - 5 < F
      BY <1>0, <1>1, <1>4, <2>2, <2>4
    <3> QED BY <1>4, <2>4, <3>1
  <2> QED BY <2>1, <2>3, <2>4
<1>5. ASSUME NEW q \in DOMAIN text, text[q] = Wide, F = 0 \/ q < F
      PROVE  \E p \in DOMAIN w : w[p] = Wide /\ (G = 0 \/ p < G)
  <2>1. q \in 1 .. Len(text) /\ q # k
    BY <1>0, <1>5
  <2>2. CASE q < k
    <3>1. w[q] = text[q] /\ q \in DOMAIN w
      BY <1>0, <2>1, <2>2 DEF IsWrap
    <3>2. G = 0 \/ q < G
      BY <1>0, <1>1, <1>5, <2>1, <2>2
    <3> QED BY <1>5, <3>1, <3>2
  <2>3. CASE q > k
    <3>1. w[q + 5] = text[q] /\ q + 5 \in DOMAIN w
      BY <1>0, <2>1, <2>3 DEF IsWrap
    <3>2. G = 0 \/ q + 5 < G
      BY <1>0, <1>1, <1>5, <2>1, <2>3
    <3> QED BY <1>5, <3>1, <3>2
  <2> QED BY <1>0, <2>1, <2>2, <2>3
<1> QED BY <1>2, <1>3, <1>4, <1>5

\* ... and adds no call of another function.
LEMMA WrapCalls ==
  ASSUME NEW text \in Seq(Tokens), NEW k \in DOMAIN text, NEW r,
         NEW w, IsWrap(w, text, k, r), NEW f, ~Calls(text, f),
         r.mask_function # "(", r.column # "(",
         \A v \in {r.mask_function, r.column} : v # f /\ <<f, v>> \notin Ends
  PROVE  ~Calls(w, f)
<1>0. k \in Nat /\ k >= 1 /\ Len(text) \in Nat /\ Len(w) = Len(text) + 5
      /\ DOMAIN text = 1 .. Len(text)
  BY DEF IsWrap
<1> SUFFICES ASSUME NEW i \in 1 .. Len(w) - 1, w[i + 1] = "(",
                    w[i] = f \/ <<f, w[i]>> \in Ends
             PROVE  FALSE
  BY DEF Calls
<1>1. i \in Nat /\ i + 1 <= Len(text) + 5 /\ i >= 1
  BY <1>0
<1>2. i # k /\ i # k + 5
  BY DEF IsWrap
<1>3. i + 1 # k /\ i + 1 # k + 2 /\ i + 1 # k + 3 /\ i + 1 # k + 4 /\ i + 1 # k + 5
  BY DEF IsWrap
<1>4. CASE i + 1 < k
  <2>1. w[i] = text[i] /\ w[i + 1] = text[i + 1] /\ i \in 1 .. Len(text) - 1
    BY <1>0, <1>1, <1>4 DEF IsWrap
  <2> QED BY <2>1 DEF Calls
<1>5. CASE i > k + 5
  <2>1. /\ i - 5 \in 1 .. Len(text) - 1 /\ i - 5 + 1 \in 1 .. Len(text)
        /\ i - 5 > k /\ i - 5 + 1 > k /\ i - 5 + 5 = i /\ i - 5 + 1 + 5 = i + 1
        /\ i - 5 \in 1 .. Len(text)
    BY <1>0, <1>1, <1>5
  <2>2. w[i - 5 + 5] = text[i - 5] /\ w[i - 5 + 1 + 5] = text[i - 5 + 1]
    BY <2>1 DEF IsWrap
  <2>3. w[i] = text[i - 5] /\ w[i + 1] = text[i - 5 + 1]
    BY <2>1, <2>2
  <2> QED BY <2>1, <2>3 DEF Calls
<1> QED BY <1>0, <1>1, <1>2, <1>3, <1>4, <1>5

\* The places that rules mask are places of the query.
LEMMA MarksFinite ==
  ASSUME query \in Seq(Tokens), NEW R
  PROVE  /\ Marks(R) \subseteq 1 .. Len(query) /\ Len(query) \in Nat
         /\ DOMAIN query = 1 .. Len(query)
         /\ IsFiniteSet(Marks(R)) /\ Cardinality(Marks(R)) \in Nat
<1>1. Len(query) \in Nat /\ DOMAIN query = 1 .. Len(query)
  OBVIOUS
<1>2. ASSUME NEW r \in R, FindWord(query, r.column) # 0
      PROVE  FindWord(query, r.column) \in 1 .. Len(query)
  BY <1>1, <1>2, FindWordIs
<1>3. Marks(R) \subseteq 1 .. Len(query)
  BY <1>2 DEF Marks
<1>4. IsFiniteSet(1 .. Len(query))
  BY <1>1, FS_Interval
<1>5. IsFiniteSet(Marks(R))
  BY <1>3, <1>4, FS_Subset
<1> QED BY <1>1, <1>3, <1>5, FS_CardinalityType

\* The places of the query keep their order, and the six tokens of a mask lie
\* between it and the next place.
LEMMA PlaceOrder ==
  ASSUME query \in Seq(Tokens), NEW R, NEW i \in 1 .. Len(query)
  PROVE  /\ Place(R, i) \in 1 .. Len(query) + 5 * Cardinality(Marks(R))
         /\ i \in Marks(R) => Place(R, i) + 5 <= Len(query) + 5 * Cardinality(Marks(R))
         /\ \A j \in 1 .. Len(query) : i < j =>
               /\ Place(R, i) < Place(R, j)
               /\ i \in Marks(R) => Place(R, i) + 5 < Place(R, j)
<1> DEFINE M == Marks(R)
           Before(x) == {m \in M : m < x}
<1>1. /\ M \subseteq 1 .. Len(query) /\ Len(query) \in Nat
      /\ IsFiniteSet(M) /\ Cardinality(M) \in Nat
  BY MarksFinite
<1> HIDE DEF M
<1>2. ASSUME NEW x PROVE IsFiniteSet(Before(x)) /\ Cardinality(Before(x)) \in Nat
  <2>1. Before(x) \in SUBSET M
    OBVIOUS
  <2> QED BY <1>1, <2>1, FS_Subset, FS_CardinalityType
<1>3. ASSUME NEW A, NEW B, IsFiniteSet(B), A \in SUBSET B
      PROVE  /\ Cardinality(A) <= Cardinality(B)
             /\ A # B => Cardinality(A) < Cardinality(B)
  <2>1. IsFiniteSet(A) /\ Cardinality(A) <= Cardinality(B)
        /\ (Cardinality(B) = Cardinality(A) => B = A)
    BY <1>3, FS_Subset
  <2>2. Cardinality(A) \in Nat /\ Cardinality(B) \in Nat
    BY <1>3, <2>1, FS_CardinalityType
  <2> QED BY <2>1, <2>2
<1>4. ASSUME NEW x, Place(R, x) # x + 5 * Cardinality(Before(x)) PROVE FALSE
  BY <1>4 DEF Place, M
<1>5. /\ Cardinality(Before(i)) <= Cardinality(M)
      /\ i \in M => Cardinality(Before(i)) < Cardinality(M)
  <2>1. Before(i) \in SUBSET M /\ (i \in M => Before(i) # M)
    OBVIOUS
  <2> QED BY <1>1, <1>3, <2>1
<1>6. ASSUME NEW j \in 1 .. Len(query), i < j
      PROVE  /\ Cardinality(Before(i)) <= Cardinality(Before(j))
             /\ i \in M => Cardinality(Before(i)) < Cardinality(Before(j))
  <2>1. \A m \in M : m < i => m < j
    BY <1>1, <1>6
  <2>2. Before(i) \in SUBSET Before(j)
    BY <2>1
  <2>3. i \in M => i \in Before(j) /\ i \notin Before(i)
    BY <1>6
  <2>4. i \in M => Before(i) # Before(j)
    BY <2>3
  <2> HIDE DEF Before
  <2> QED BY <1>2, <1>3, <2>2, <2>4
<1> HIDE DEF Before
<1>7. Place(R, i) = i + 5 * Cardinality(Before(i)) /\ Cardinality(Before(i)) \in Nat
  BY <1>2, <1>4
<1>8. ASSUME NEW j \in 1 .. Len(query), i < j
      PROVE  /\ Place(R, i) < Place(R, j)
             /\ i \in M => Place(R, i) + 5 < Place(R, j)
  <2>1. Place(R, j) = j + 5 * Cardinality(Before(j)) /\ Cardinality(Before(j)) \in Nat
    BY <1>2, <1>4
  <2> QED BY <1>6, <1>7, <1>8, <2>1
<1>9. /\ Place(R, i) \in 1 .. Len(query) + 5 * Cardinality(M)
      /\ i \in M => Place(R, i) + 5 <= Len(query) + 5 * Cardinality(M)
  BY <1>1, <1>5, <1>7
<1> QED BY <1>8, <1>9 DEF M

\* One more mask moves the places behind it.
LEMMA PlaceStep ==
  ASSUME query \in Seq(Tokens), NEW R, NEW S, NEW m \in 1 .. Len(query),
         m \notin Marks(R), Marks(S) = Marks(R) \cup {m}
  PROVE  /\ Cardinality(Marks(S)) = Cardinality(Marks(R)) + 1
         /\ \A i \in 1 .. Len(query) :
               /\ i <= m => Place(S, i) = Place(R, i)
               /\ i > m => Place(S, i) = Place(R, i) + 5
<1>1. Marks(R) \subseteq 1 .. Len(query) /\ IsFiniteSet(Marks(R)) /\ Len(query) \in Nat
  BY MarksFinite
<1>2. Cardinality(Marks(S)) = Cardinality(Marks(R)) + 1
  BY <1>1, FS_AddElement
<1> DEFINE Before(T, i) == {x \in Marks(T) : x < i}
<1>3. ASSUME NEW i \in 1 .. Len(query), i <= m PROVE Place(S, i) = Place(R, i)
  <2>1. ~(m < i)
    BY <1>3
  <2>2. Before(S, i) = Before(R, i)
    BY <2>1
  <2> QED BY <2>2 DEF Place
<1>4. ASSUME NEW i \in 1 .. Len(query), i > m PROVE Place(S, i) = Place(R, i) + 5
  <2>1. m < i
    BY <1>4
  <2>2. Before(S, i) = Before(R, i) \cup {m} /\ m \notin Before(R, i)
    BY <2>1
  <2>3. IsFiniteSet(Before(R, i)) /\ Cardinality(Before(R, i)) \in Nat
    <3>1. Before(R, i) \in SUBSET Marks(R)
      OBVIOUS
    <3> QED BY <1>1, <3>1, FS_Subset, FS_CardinalityType
  <2>4. Cardinality(Before(S, i)) = Cardinality(Before(R, i)) + 1
    <3> HIDE DEF Before
    <3> QED BY <2>2, <2>3, FS_AddElement
  <2>5. /\ Place(S, i) = i + 5 * Cardinality(Before(S, i))
        /\ Place(R, i) = i + 5 * Cardinality(Before(R, i))
    BY DEF Place
  <2> HIDE DEF Before
  <2> QED BY <2>3, <2>4, <2>5
<1> QED BY <1>2, <1>3, <1>4

\* The rules D have left the column of r, and the search for it, as they are
\* in the query.
Untouched(text, D, r) ==
  /\ ~Calls(text, r.mask_function)
  /\ FindWord(text, r.column) = IF FindWord(query, r.column) = 0 THEN 0
                                ELSE Place(D, FindWord(query, r.column))
  /\ FindPanics(text, r.column) <=> FindPanics(query, r.column)

\* The rules D have been applied to the query, and nothing else has.
Applied(text, D) ==
  /\ Masked(text, D)
  /\ \A r \in Applicable :
        r \notin D \/ FindWord(query, r.column) = 0 => Untouched(text, D, r)
  /\ \A r \in D : ~FindPanics(query, r.column)

\* Names of distinct rules that cannot be taken for one another.
LEMMA Apart ==
  ASSUME Distinct, NEW r \in Applicable, NEW s \in Applicable, r # s
  PROVE  /\ \A v \in Inserted(s) : Lower[v] # Lower[r.column]
         /\ Lower[s.column] # Lower[r.column]
         /\ \A v \in {s.mask_function, s.column} :
               v # r.mask_function /\ <<r.mask_function, v>> \notin Ends
<1>1. /\ \A v \in {"(", ")", "AS", Wide, s.mask_function} : Lower[r.column] # Lower[v]
      /\ Lower[s.column] # Lower[r.mask_function]
      /\ <<r.mask_function, s.column>> \notin Ends
      /\ Lower[r.column] # Lower[s.column]
      /\ r.mask_function # s.mask_function
      /\ <<r.mask_function, s.mask_function>> \notin Ends
  BY DEF Distinct
<1>2. s.column # r.mask_function
  BY <1>1
<1> QED BY <1>1, <1>2 DEF Inserted

\* No rule inserts a parenthesis in the place of a word, or a character of
\* several bytes; and the column that it masks is none.
LEMMA Words ==
  ASSUME Distinct, NEW r \in Applicable
  PROVE  /\ r.mask_function # "(" /\ r.column # "("
         /\ \A v \in Inserted(r) : v # Wide
         /\ \A v : Lower[v] = Lower[r.column] => v # Wide
<1>1. /\ r.mask_function \notin {"(", Wide}
      /\ \A v \in {"(", ")", "AS", Wide, r.mask_function} : Lower[r.column] # Lower[v]
  BY DEF Distinct
<1>2. Wide \notin {"(", ")", "AS"}
  BY MaskAssumption
<1> QED BY <1>1, <1>2 DEF Inserted

\* Two rules of a query mask different places.
LEMMA OwnPlace ==
  ASSUME query \in Seq(Tokens), Distinct, NEW D, D \subseteq Applicable,
         NEW r \in Applicable, FindWord(query, r.column) # 0, r \notin D
  PROVE  FindWord(query, r.column) \notin Marks(D)
<1> SUFFICES ASSUME NEW s \in D, FindWord(query, s.column) = FindWord(query, r.column)
             PROVE  FALSE
  BY DEF Marks
<1>1. Lower[s.column] = Lower[r.column]
  BY FindWordIs
<1> QED BY <1>1, Apart

\* Masking one more column of a masked text.
LEMMA MaskedStep ==
  ASSUME query \in Seq(Tokens), Applicable \subseteq MaskRule, Distinct,
         NEW D, D \subseteq Applicable, NEW r \in Applicable, r \notin D,
         FindWord(query, r.column) # 0,
         NEW text \in Seq(Tokens), Masked(text, D)
  PROVE  LET k == Place(D, FindWord(query, r.column))
         IN  /\ k \in DOMAIN text /\ Lower[text[k]] = Lower[r.column]
             /\ Masked(Wrap(text, k, r), D \cup {r})
<1> DEFINE m == FindWord(query, r.column)
           k == Place(D, m)
           E == D \cup {r}
           w == Wrap(text, k, r)
           N == Len(query) + 5 * Cardinality(Marks(D))
<1>1. /\ m \in 1 .. Len(query) /\ Lower[query[m]] = Lower[r.column]
      /\ m \notin Marks(D)
  <2>1. m \in DOMAIN query /\ Lower[query[m]] = Lower[r.column]
    BY FindWordIs
  <2> QED BY <2>1, OwnPlace
<1>2. Marks(E) = Marks(D) \cup {m}
  BY DEF Marks
<1>3. /\ Marks(D) \subseteq 1 .. Len(query) /\ Len(query) \in Nat
      /\ Cardinality(Marks(D)) \in Nat /\ DOMAIN query = 1 .. Len(query)
  BY MarksFinite
<1> HIDE DEF m, E
<1>4. Len(text) = N /\ Len(text) \in Nat /\ DOMAIN text = 1 .. Len(text)
  BY DEF Masked
<1>5. k \in DOMAIN text /\ k \in 1 .. N /\ k \in Nat
  <2>1. k \in 1 .. N
    BY <1>1, PlaceOrder
  <2> QED BY <1>4, <2>1
<1>6. text[k] = query[m]
  BY <1>1, <1>3 DEF Masked
<1>7. IsWrap(w, text, k, r)
  <2> HIDE DEF k
  <2> QED BY <1>5, WrapAt
<1>8. /\ Cardinality(Marks(E)) = Cardinality(Marks(D)) + 1
      /\ \A i \in 1 .. Len(query) :
            /\ i <= m => Place(E, i) = Place(D, i)
            /\ i > m => Place(E, i) = Place(D, i) + 5
  BY <1>1, <1>2, PlaceStep
<1>9. ASSUME NEW i \in 1 .. Len(query)
      PROVE  /\ Place(D, i) \in 1 .. N
             /\ i \in Marks(D) => Place(D, i) + 5 <= N
             /\ i < m => Place(D, i) < k
             /\ i < m /\ i \in Marks(D) => Place(D, i) + 5 < k
             /\ i > m => k < Place(D, i)
  <2>1. /\ Place(D, i) \in 1 .. N
        /\ i \in Marks(D) => Place(D, i) + 5 <= N
        /\ i < m => Place(D, i) < k
        /\ i < m /\ i \in Marks(D) => Place(D, i) + 5 < k
    BY <1>1, PlaceOrder
  <2>2. m < i => k < Place(D, i)
    BY <1>1, PlaceOrder
  <2> QED BY <1>1, <1>3, <2>1, <2>2
<1>10. /\ Len(w) = N + 5
       /\ \A p \in 1 .. N : /\ p < k => w[p] = text[p]
                            /\ p > k => w[p + 5] = text[p]
  BY <1>4, <1>7 DEF IsWrap
<1> HIDE DEF k, w, N
<1>11. Len(w) = Len(query) + 5 * Cardinality(Marks(E))
  BY <1>3, <1>8, <1>10 DEF N
<1>12. ASSUME NEW i \in DOMAIN query \ Marks(E) PROVE w[Place(E, i)] = query[i]
  <2>1. i \in 1 .. Len(query) /\ i # m /\ i \notin Marks(D)
    BY <1>2, <1>3
  <2>2. text[Place(D, i)] = query[i]
    BY <1>3, <2>1 DEF Masked
  <2>3. CASE i < m
    <3>1. Place(E, i) = Place(D, i)
      BY <1>1, <1>8, <2>1, <2>3
    <3>2. w[Place(D, i)] = text[Place(D, i)]
      BY <1>9, <1>10, <2>1, <2>3
    <3> QED BY <2>2, <3>1, <3>2
  <2>4. CASE i > m
    <3>1. Place(E, i) = Place(D, i) + 5
      BY <1>1, <1>8, <2>1, <2>4
    <3>2. Place(D, i) > k
      BY <1>9, <1>5, <2>1, <2>4
    <3>3. w[Place(D, i) + 5] = text[Place(D, i)]
      BY <1>9, <1>10, <2>1, <3>2
    <3> QED BY <2>2, <3>1, <3>3
  <2> QED BY <1>1, <2>1, <2>3, <2>4
<1>13. ASSUME NEW s \in E, FindWord(query, s.column) # 0, NEW j \in 1 .. 6
       PROVE  w[Place(E, FindWord(query, s.column)) + j - 1] = Wrapped(s)[j]
  <2>1. PICK i : i = FindWord(query, s.column)
    OBVIOUS
  <2>2. CASE s = r
    <3>1. i = m /\ Place(E, m) = k
      BY <1>1, <1>8, <2>1, <2>2 DEF m, k
    <3>2. /\ w[k] = Wrapped(r)[1] /\ w[k + 1] = Wrapped(r)[2] /\ w[k + 2] = Wrapped(r)[3]
          /\ w[k + 3] = Wrapped(r)[4] /\ w[k + 4] = Wrapped(r)[5] /\ w[k + 5] = Wrapped(r)[6]
      BY <1>7 DEF IsWrap, Wrapped
    <3>3. /\ k + 1 - 1 = k /\ k + 2 - 1 = k + 1 /\ k + 3 - 1 = k + 2
          /\ k + 4 - 1 = k + 3 /\ k + 5 - 1 = k + 4 /\ k + 6 - 1 = k + 5
      BY <1>5
    <3>4. j \in {1, 2, 3, 4, 5, 6}
      OBVIOUS
    <3>5. w[k + j - 1] = Wrapped(r)[j]
      BY <3>2, <3>3, <3>4
    <3> QED BY <2>1, <2>2, <3>1, <3>5
  <2>3. CASE s # r
    <3>1. s \in D
      BY <2>3 DEF E
    <3>2. i \in Marks(D) /\ i \in 1 .. Len(query) /\ i # m
      <4>1. i \in Marks(D)
        BY <1>13, <2>1, <3>1 DEF Marks
      <4> QED BY <1>1, <1>3, <4>1
    <3>3. text[Place(D, i) + j - 1] = Wrapped(s)[j]
      BY <1>13, <2>1, <3>1 DEF Masked
    <3>4. PICK q \in 1 .. N : q = Place(D, i) + j - 1
      <4>1. Place(D, i) \in 1 .. N /\ Place(D, i) + 5 <= N
        BY <1>9, <3>2
      <4>2. Place(D, i) + j - 1 \in 1 .. N
        BY <1>4, <4>1
      <4> QED BY <4>2
    <3>5. CASE i < m
      <4>1. Place(E, i) = Place(D, i)
        BY <1>1, <1>8, <3>2, <3>5
      <4>2. q < k
        <5>1. Place(D, i) + 5 < k /\ Place(D, i) \in 1 .. N
          BY <1>9, <3>2, <3>5
        <5> QED BY <1>5, <3>4, <5>1
      <4>3. w[q] = text[q]
        BY <1>10, <4>2
      <4> QED BY <2>1, <3>3, <3>4, <4>1, <4>3
    <3>6. CASE i > m
      <4>1. Place(E, i) = Place(D, i) + 5
        BY <1>1, <1>8, <3>2, <3>6
      <4>2. k < Place(D, i) /\ Place(D, i) \in 1 .. N
        BY <1>9, <3>2, <3>6
      <4>3. q > k
        BY <1>5, <3>4, <4>2
      <4>4. w[q + 5] = text[q]
        BY <1>10, <4>3
      <4>5. Place(E, i) + j - 1 = q + 5
        BY <3>4, <4>1, <4>2
      <4> QED BY <2>1, <3>3, <3>4, <4>4, <4>5
    <3> QED BY <1>1, <3>2, <3>5, <3>6
  <2> QED BY <2>2, <2>3
<1>14. Masked(w, E)
  BY <1>11, <1>12, <1>13 DEF Masked
<1> QED BY <1>1, <1>5, <1>6, <1>14 DEF m, k, w, E

\* A rule that has masked its column is found again, by its call.
LEMMA Called ==
  ASSUME query \in Seq(Tokens), NEW D, NEW r \in D, FindWord(query, r.column) # 0,
         NEW text \in Seq(Tokens), Masked(text, D)
  PROVE  Calls(text, r.mask_function)
<1>1. PICK m : m = FindWord(query, r.column)
  OBVIOUS
<1>2. m \in Marks(D) /\ m \in 1 .. Len(query)
  <2>1. m \in Marks(D)
    BY <1>1 DEF Marks
  <2> QED BY <2>1, MarksFinite
<1>3. PICK k \in 1 .. Len(text) : k = Place(D, m) /\ k + 5 <= Len(text)
  <2>1. Len(text) = Len(query) + 5 * Cardinality(Marks(D))
    BY DEF Masked
  <2> QED BY <1>2, <2>1, PlaceOrder
<1>4. \A j \in 1 .. 6 : text[k + j - 1] = Wrapped(r)[j]
  BY <1>1, <1>3 DEF Masked
<1>5. /\ Len(text) \in Nat /\ k + 1 - 1 = k /\ k + 2 - 1 = k + 1
      /\ k \in 1 .. Len(text) - 1 /\ 1 \in 1 .. 6 /\ 2 \in 1 .. 6
  BY <1>3
<1>6. text[k + 1 - 1] = Wrapped(r)[1] /\ text[k + 2 - 1] = Wrapped(r)[2]
  BY <1>4, <1>5
<1>7. text[k] = r.mask_function /\ text[k + 1] = "("
  BY <1>5, <1>6 DEF Wrapped
<1> QED BY <1>5, <1>7 DEF Calls

\* The turn of a rule that masks.
LEMMA AppliedWrap ==
  ASSUME query \in Seq(Tokens), Applicable \subseteq MaskRule, Distinct,
         NEW D, D \subseteq Applicable, NEW r \in Applicable,
         NEW text \in Seq(Tokens), Applied(text, D),
         ~Calls(text, r.mask_function), FindWord(text, r.column) # 0,
         ~FindPanics(text, r.column)
  PROVE  Applied(Wrap(text, FindWord(text, r.column), r), D \cup {r})
<1> DEFINE m == FindWord(query, r.column)
           k == FindWord(text, r.column)
           w == Wrap(text, k, r)
           E == D \cup {r}
<1>1. Masked(text, D)
  BY DEF Applied
<1>2. r \in D => m = 0
  BY <1>1, Called
<1>3. Untouched(text, D, r)
  BY <1>2 DEF Applied
<1>4. m # 0 /\ r \notin D /\ k = Place(D, m)
  BY <1>2, <1>3 DEF Untouched
<1>5. k \in DOMAIN text /\ Lower[text[k]] = Lower[r.column] /\ Masked(w, E)
  <2>1. FindWord(query, r.column) # 0 /\ r \notin D
    BY <1>4
  <2>2. LET p == Place(D, FindWord(query, r.column))
        IN  /\ p \in DOMAIN text /\ Lower[text[p]] = Lower[r.column]
            /\ Masked(Wrap(text, p, r), D \cup {r})
    BY <1>1, <2>1, MaskedStep
  <2> QED BY <1>4, <2>2
<1>6. IsWrap(w, text, k, r)
  <2> HIDE DEF k
  <2> QED BY <1>5, WrapAt
<1>7. m \in 1 .. Len(query) /\ Lower[query[m]] = Lower[r.column] /\ m \notin Marks(D)
  <2>1. m \in DOMAIN query /\ Lower[query[m]] = Lower[r.column]
    BY <1>4, FindWordIs
  <2>2. DOMAIN query = 1 .. Len(query)
    OBVIOUS
  <2> QED BY <1>4, <2>1, <2>2, OwnPlace
<1>8. \A i \in 1 .. Len(query) :
         /\ i <= m => Place(E, i) = Place(D, i)
         /\ i > m => Place(E, i) = Place(D, i) + 5
  <2>1. Marks(E) = Marks(D) \cup {m}
    BY <1>4 DEF Marks
  <2> HIDE DEF E, m
  <2> QED BY <1>7, <2>1, PlaceStep
<1> HIDE DEF m, k, w
<1>9. ASSUME NEW s \in Applicable, s \notin E \/ FindWord(query, s.column) = 0
      PROVE  Untouched(w, E, s)
  <2>1. s # r
    BY <1>4, <1>9 DEF m
  <2>2. Untouched(text, D, s)
    BY <1>9 DEF Applied
  <2>3. /\ \A v \in Inserted(r) : Lower[v] # Lower[s.column]
        /\ Lower[r.column] # Lower[s.column]
        /\ \A v \in {r.mask_function, r.column} :
              v # s.mask_function /\ <<s.mask_function, v>> \notin Ends
    BY <2>1, Apart
  <2>4. /\ r.mask_function # "(" /\ r.column # "("
        /\ \A v \in Inserted(r) : v # Wide
        /\ text[k] # Wide
    BY <1>5, Words
  <2>5. Lower[text[k]] # Lower[s.column]
    BY <1>5, <2>3
  <2>6. ~Calls(w, s.mask_function)
    BY <1>5, <1>6, <2>2, <2>3, <2>4, WrapCalls DEF Untouched
  <2>7. FindPanics(w, s.column) <=> FindPanics(query, s.column)
    <3>1. FindPanics(w, s.column) <=> FindPanics(text, s.column)
      BY <1>5, <1>6, <2>3, <2>4, <2>5, WrapPanics
    <3> QED BY <2>2, <3>1 DEF Untouched
  <2>8. FindWord(w, s.column) = IF FindWord(text, s.column) < k
                                THEN FindWord(text, s.column)
                                ELSE FindWord(text, s.column) + 5
    BY <1>5, <1>6, <2>3, <2>5, WrapFinds
  <2>9. PICK i : i = FindWord(query, s.column)
    OBVIOUS
  <2>10. k \in Nat /\ k >= 1
    BY <1>5
  <2>11. CASE i = 0
    <3>1. FindWord(text, s.column) = 0
      BY <2>2, <2>9, <2>11 DEF Untouched
    <3>2. FindWord(w, s.column) = 0
      BY <2>8, <2>10, <3>1
    <3> QED BY <2>6, <2>7, <2>9, <2>11, <3>2 DEF Untouched
  <2>12. CASE i # 0
    <3>1. FindWord(text, s.column) = Place(D, i)
      BY <2>2, <2>9, <2>12 DEF Untouched
    <3>2. i \in 1 .. Len(query) /\ i # m
      <4>1. i \in DOMAIN query /\ Lower[query[i]] = Lower[s.column]
        BY <2>9, <2>12, FindWordIs
      <4>2. DOMAIN query = 1 .. Len(query)
        OBVIOUS
      <4>3. i # m
        BY <1>7, <2>3, <4>1
      <4> QED BY <4>1, <4>2, <4>3
    <3>3. Place(D, i) \in Nat
      BY <3>2, PlaceOrder
    <3>4. CASE i < m
      <4>1. Place(D, i) < k
        BY <1>4, <1>7, <3>2, <3>4, PlaceOrder
      <4>2. Place(E, i) = Place(D, i)
        <5>1. i <= m
          BY <1>7, <3>2, <3>4
        <5> QED BY <1>8, <3>2, <5>1
      <4>3. FindWord(w, s.column) = Place(E, i)
        BY <2>8, <3>1, <4>1, <4>2
      <4> QED BY <2>6, <2>7, <2>9, <2>12, <4>3 DEF Untouched
    <3>5. CASE i > m
      <4>1. k < Place(D, i)
        <5>1. m < i
          BY <1>7, <3>2, <3>5
        <5> QED BY <1>4, <1>7, <3>2, <5>1, PlaceOrder
      <4>2. Place(E, i) = Place(D, i) + 5
        BY <1>7, <1>8, <3>2, <3>5
      <4>3. ~(Place(D, i) < k)
        BY <2>10, <3>3, <4>1
      <4>4. FindWord(w, s.column) = Place(E, i)
        BY <2>8, <3>1, <4>2, <4>3
      <4> QED BY <2>6, <2>7, <2>9, <2>12, <4>4 DEF Untouched
    <3> QED BY <1>7, <3>2, <3>4, <3>5
  <2> QED BY <2>11, <2>12
<1>10. ASSUME NEW s \in E PROVE ~FindPanics(query, s.column)
  BY <1>3 DEF Applied, Untouched
<1> QED BY <1>5, <1>9, <1>10 DEF Applied, k, w

\* The turn of a rule that has masked already, or finds no column to mask.
LEMMA AppliedSkip ==
  ASSUME query \in Seq(Tokens), NEW D, D \subseteq Applicable, NEW r \in Applicable,
         NEW text \in Seq(Tokens), Applied(text, D),
         \/ Calls(text, r.mask_function)
         \/ ~FindPanics(text, r.column) /\ FindWord(text, r.column) = 0
  PROVE  Applied(text, D \cup {r})
<1> DEFINE E == D \cup {r}
<1>1. CASE r \in D
  <2>1. E = D
    BY <1>1
  <2> QED BY <2>1
<1>2. CASE r \notin D
  <2>1. Untouched(text, D, r)
    BY <1>2 DEF Applied
  <2>2. ~FindPanics(text, r.column) /\ FindWord(text, r.column) = 0
    BY <2>1 DEF Untouched
  <2>3. FindWord(query, r.column) = 0
    <3> SUFFICES ASSUME FindWord(query, r.column) # 0 PROVE FALSE
      OBVIOUS
    <3>1. FindWord(query, r.column) \in 1 .. Len(query)
      <4>1. FindWord(query, r.column) \in DOMAIN query
        BY FindWordIs
      <4> QED BY <4>1
    <3>2. Place(D, FindWord(query, r.column)) # 0
      BY <3>1, PlaceOrder
    <3> QED BY <2>1, <2>2, <3>2 DEF Untouched
  <2>4. Marks(E) = Marks(D)
    BY <2>3 DEF Marks
  <2>5. \A i : Place(E, i) = Place(D, i)
    BY <2>4 DEF Place
  <2>6. Masked(text, E)
    <3>1. /\ Len(text) = Len(query) + 5 * Cardinality(Marks(E))
          /\ \A i \in DOMAIN query \ Marks(E) : text[Place(E, i)] = query[i]
      BY <2>4, <2>5 DEF Applied, Masked
    <3>2. ASSUME NEW s \in E, FindWord(query, s.column) # 0, NEW j \in 1 .. 6
          PROVE  text[Place(E, FindWord(query, s.column)) + j - 1] = Wrapped(s)[j]
      <4>1. s \in D
        BY <2>3, <3>2
      <4>2. text[Place(D, FindWord(query, s.column)) + j - 1] = Wrapped(s)[j]
        BY <3>2, <4>1 DEF Applied, Masked
      <4>3. Place(E, FindWord(query, s.column)) = Place(D, FindWord(query, s.column))
        BY <2>5
      <4> QED BY <4>2, <4>3
    <3> HIDE DEF E
    <3> QED BY <3>1, <3>2 DEF Masked
  <2>7. ASSUME NEW s \in Applicable, s \notin E \/ FindWord(query, s.column) = 0
        PROVE  Untouched(text, E, s)
    <3>1. Untouched(text, D, s)
      BY <2>7 DEF Applied
    <3> QED BY <2>5, <3>1 DEF Untouched
  <2>8. ~FindPanics(query, r.column)
    BY <2>1, <2>2 DEF Untouched
  <2> QED BY <2>6, <2>7, <2>8 DEF Applied
<1> QED BY <1>1, <1>2

-----------------------------------------------------------------------------
(* Both passes.                                                             *)

\* The rules of the query that have had their turn.
Done == {applied[i] : i \in 1 .. turn - 1} \cap Applicable

\* No rule is for a table that only an inserted function mentions.
TablesKept ==
  \A i \in DOMAIN rules.list :
     Mentions(first, rules.list[i].table) => Mentions(query, rules.list[i].table)

FirstPass ==
  /\ maskPc = "start" => out = query /\ changed = FALSE
  /\ maskPc = "apply" => Applied(out, Done)
  /\ maskPc = "trapped" => \E r \in Applicable : FindPanics(query, r.column)
  /\ maskPc = "done" => Applied(out, Applicable) \/ changed = FALSE

SecondPass ==
  /\ Masked(first, Applicable)
  /\ \A r \in Applicable : FindWord(query, r.column) = 0 => FindWord(first, r.column) = 0
  /\ TablesKept => out = first

\* What the rules of a query do to it, when they are distinct and the query
\* calls no mask.
OnceInv ==
  /\ maskPc = "apply" => applied = rules.list
  /\ Distinct /\ CallsNoMask => /\ pass = 1 => FirstPass
                                /\ pass = 2 => SecondPass

LEMMA QueryRules ==
  ASSUME MaskTypeOK
  PROVE  /\ query \in Seq(Tokens) /\ out \in Seq(Tokens) /\ first \in Seq(Tokens)
         /\ rules.list \in Seq(MaskRule)
         /\ Applicable \subseteq MaskRule
<1>1. query \in Seq(Tokens) /\ rules.list \in Seq(MaskRule)
  BY MaskAssumption DEF MaskTypeOK
<1>2. \A i \in DOMAIN rules.list : rules.list[i] \in MaskRule
  BY <1>1
<1>3. Applicable \subseteq MaskRule
  BY <1>2 DEF Applicable
<1> QED BY <1>1, <1>3 DEF MaskTypeOK

\* What never changes.
LEMMA Fixed ==
  ASSUME UNCHANGED <<rules, roles, query>>
  PROVE  /\ Applicable' = Applicable
         /\ Distinct' <=> Distinct
         /\ CallsNoMask' <=> CallsNoMask
<1>1. Applicable' = Applicable
  BY DEF Applicable, Unmasked
<1> QED BY <1>1 DEF Distinct, CallsNoMask

LEMMA MaskedFixed ==
  ASSUME query' = query, NEW text, NEW D, Masked(text, D),
         text = first', D = Applicable'
  PROVE  Masked(first, Applicable)'
BY DEF Masked, Marks, Place

LEMMA AppliedFixed ==
  ASSUME query' = query, Applicable' = Applicable,
         NEW text, NEW D, Applied(text, D), text = out'
  PROVE  /\ D = Done' => Applied(out, Done)'
         /\ D = Applicable => Applied(out, Applicable)'
<1>1. ASSUME D = Done' PROVE Applied(out, Done)'
  <2>1. Masked(out, Done)'
    BY <1>1 DEF Applied, Masked, Marks, Place
  <2>2. ASSUME NEW r \in Applicable, r \notin D \/ FindWord(query, r.column) = 0
        PROVE  Untouched(out, Done, r)'
    <3>1. Untouched(text, D, r)
      BY <2>2 DEF Applied
    <3> QED BY <1>1, <3>1 DEF Untouched, Marks, Place
  <2>3. \A r \in D : ~FindPanics(query, r.column)
    BY DEF Applied
  <2> QED BY <1>1, <2>1, <2>2, <2>3 DEF Applied
<1>2. ASSUME D = Applicable PROVE Applied(out, Applicable)'
  <2>1. Masked(out, Applicable)'
    BY <1>2 DEF Applied, Masked, Marks, Place
  <2>2. ASSUME NEW r \in Applicable, r \notin D \/ FindWord(query, r.column) = 0
        PROVE  Untouched(out, Applicable, r)'
    <3>1. Untouched(text, D, r)
      BY <2>2 DEF Applied
    <3> QED BY <1>2, <3>1 DEF Untouched, Marks, Place
  <2>3. \A r \in D : ~FindPanics(query, r.column)
    BY DEF Applied
  <2> QED BY <1>2, <2>1, <2>2, <2>3 DEF Applied
<1> QED BY <1>1, <1>2

\* Before the first rule, behind a rule, and behind the last.
LEMMA AppliedNone ==
  ASSUME CallsNoMask, query \in Seq(Tokens) PROVE Applied(query, {})
<1>1. Marks({}) = {}
  BY DEF Marks
<1>2. Cardinality({}) = 0
  BY FS_EmptySet
<1>3. ASSUME NEW i \in 1 .. Len(query) PROVE Place({}, i) = i
  <2>1. {m \in Marks({}) : m < i} = {}
    BY <1>1
  <2>2. Place({}, i) = i + 5 * Cardinality({})
    BY <2>1 DEF Place
  <2>3. Place({}, i) = i + 5 * 0
    BY <1>2, <2>2
  <2> QED BY <2>3
<1>4. DOMAIN query = 1 .. Len(query) /\ Len(query) = Len(query) + 5 * 0
  OBVIOUS
<1>5. Masked(query, {})
  BY <1>1, <1>2, <1>3, <1>4 DEF Masked
<1>6. ASSUME NEW r \in Applicable PROVE Untouched(query, {}, r)
  <2>1. FindWord(query, r.column) # 0 => FindWord(query, r.column) \in 1 .. Len(query)
    BY <1>4, FindWordIs
  <2> QED BY <1>3, <2>1 DEF CallsNoMask, Untouched
<1> QED BY <1>5, <1>6 DEF Applied

LEMMA DoneStep ==
  ASSUME MaskTypeOK, Turn, NextRule
  PROVE  Done' = Done \cup ({applied[turn]} \cap Applicable)
<1>1. turn \in Nat /\ turn' = turn + 1 /\ applied' = applied /\ Applicable' = Applicable
  BY Fixed DEF MaskTypeOK, NextRule
<1>2. 1 .. turn' - 1 = (1 .. turn - 1) \cup {turn}
  BY <1>1, TurnIs DEF MaskTypeOK
<1>3. Done' = {applied[i] : i \in 1 .. turn' - 1} \cap Applicable
  BY <1>1 DEF Done
<1> HIDE DEF Applicable
<1> QED BY <1>2, <1>3 DEF Done

LEMMA DoneAll ==
  ASSUME MaskTypeOK, LoopOver, applied = rules.list
  PROVE  Done = Applicable
<1>1. Len(applied) \in Nat /\ DOMAIN rules.list = 1 .. Len(applied)
  BY QueryRules
<1>2. 1 .. turn - 1 = DOMAIN rules.list
  BY <1>1 DEF LoopOver
<1>3. {applied[i] : i \in 1 .. turn - 1} = {rules.list[i] : i \in DOMAIN rules.list}
  BY <1>2
<1>4. Applicable \subseteq {rules.list[i] : i \in DOMAIN rules.list}
  BY DEF Applicable
<1> QED BY <1>3, <1>4 DEF Done

LEMMA OnceInit == MaskInit => OnceInv
BY DEF MaskInit, OnceInv, FirstPass

\* A rule whose turn it is in the first pass, and that does not skip it, is
\* for the query.
LEMMA TurnIsApplicable ==
  ASSUME MaskTypeOK, Turn, Mentions(query, applied[turn].table), ~Unmasked(applied[turn])
  PROVE  applied[turn] \in Applicable
<1>1. applied = rules.list /\ turn \in DOMAIN rules.list
  BY TurnIs
<1> QED BY <1>1 DEF Applicable

LEMMA FirstPassStep ==
  ASSUME MaskInv, OnceInv, PreQuery, pass = 1, Distinct, CallsNoMask
  PROVE  FirstPass'
<1> DEFINE r == applied[turn]
<1>1. /\ MaskTypeOK /\ FirstPass /\ PassText = query
      /\ UNCHANGED <<rules, roles, query>> /\ Applicable' = Applicable
  <2>1. UNCHANGED <<rules, roles, query>>
    BY DEF PreQuery, ReadRules, SkipRule, WrapColumn, MaskTraps, Answer, NextRule
  <2> QED BY <2>1, Fixed DEF MaskInv, OnceInv, PassText
<1>2. /\ query \in Seq(Tokens) /\ out \in Seq(Tokens) /\ Applicable \subseteq MaskRule
      /\ Done \subseteq Applicable
  BY <1>1, QueryRules DEF Done
<1>3. CASE ReadRules
  <2>1. /\ maskPc' \in {"done", "apply"} /\ turn' = 1 /\ out' = query /\ changed' = FALSE
    BY <1>1, <1>3 DEF ReadRules, FirstPass
  <2>2. Done' = {}
    <3>1. 1 .. turn' - 1 = {}
      BY <2>1
    <3> QED BY <3>1 DEF Done
  <2>3. Applied(query, {})
    BY <1>2, AppliedNone
  <2>4. Applied(out, Done)'
    BY <1>1, <2>1, <2>2, <2>3, AppliedFixed
  <2> QED BY <2>1, <2>4 DEF FirstPass
<1>4. CASE SkipRule
  <2>1. /\ Turn /\ NextRule /\ out' = out /\ changed' = changed /\ maskPc = "apply"
        /\ maskPc' = "apply" /\ Applied(out, Done)
    BY <1>1, <1>4 DEF SkipRule, NextRule, Turn, FirstPass
  <2>2. Done' = Done \cup ({r} \cap Applicable)
    BY <1>1, <2>1, DoneStep
  <2>3. PICK D : D = Done \cup ({r} \cap Applicable)
    OBVIOUS
  <2>4. Applied(out, D)
    <3>1. CASE r \notin Applicable
      <4>1. D = Done
        BY <2>3, <3>1
      <4> QED BY <2>1, <4>1
    <3>2. CASE r \in Applicable
      <4>1. D = Done \cup {r}
        BY <2>3, <3>2
      <4>2. Mentions(query, r.table) /\ ~Unmasked(r)
        BY <3>2 DEF Applicable
      <4>3. \/ Calls(out, r.mask_function)
            \/ ~FindPanics(out, r.column) /\ FindWord(out, r.column) = 0
        BY <1>1, <1>4, <4>2 DEF SkipRule, Skip
      <4> HIDE DEF r
      <4>4. Applied(out, Done \cup {r})
        BY <1>2, <2>1, <3>2, <4>3, AppliedSkip
      <4> QED BY <4>1, <4>4
    <3> QED BY <3>1, <3>2
  <2>5. Applied(out, Done)'
    BY <1>1, <2>1, <2>2, <2>3, <2>4, AppliedFixed
  <2> QED BY <2>1, <2>5 DEF FirstPass
<1>5. CASE WrapColumn
  <2>1. /\ Turn /\ NextRule /\ maskPc = "apply" /\ maskPc' = "apply"
        /\ ~Skip(r) /\ ~FindPanics(out, r.column) /\ FindWord(out, r.column) # 0
        /\ out' = Wrap(out, FindWord(out, r.column), r)
        /\ Applied(out, Done)
    BY <1>1, <1>5 DEF WrapColumn, NextRule, Turn, FirstPass
  <2>2. r \in Applicable /\ ~Calls(out, r.mask_function)
    BY <1>1, <2>1, TurnIsApplicable DEF Skip
  <2>3. Done' = Done \cup {r}
    <3>1. Done' = Done \cup ({r} \cap Applicable)
      BY <1>1, <2>1, DoneStep
    <3> QED BY <2>2, <3>1
  <2>4. Applied(Wrap(out, FindWord(out, r.column), r), Done \cup {r})
    <3> HIDE DEF r
    <3> QED BY <1>2, <2>1, <2>2, AppliedWrap
  <2>5. PICK D, w : D = Done \cup {r} /\ w = Wrap(out, FindWord(out, r.column), r)
    OBVIOUS
  <2>6. Applied(w, D)
    BY <2>4, <2>5
  <2>7. Applied(out, Done)'
    BY <1>1, <2>1, <2>3, <2>5, <2>6, AppliedFixed
  <2> QED BY <2>1, <2>7 DEF FirstPass
<1>6. CASE MaskTraps
  <2>1. /\ Turn /\ ~Skip(r) /\ FindPanics(out, r.column) /\ maskPc = "apply"
        /\ maskPc' = "trapped" /\ Applied(out, Done)
    BY <1>1, <1>6 DEF MaskTraps, Turn, FirstPass
  <2>2. r \in Applicable /\ ~Calls(out, r.mask_function)
    BY <1>1, <2>1, TurnIsApplicable DEF Skip
  <2>3. r \notin Done \/ FindWord(query, r.column) = 0
    BY <1>2, <2>1, <2>2, Called DEF Applied
  <2>4. FindPanics(query, r.column)
    BY <2>1, <2>2, <2>3 DEF Applied, Untouched
  <2> QED BY <1>1, <2>1, <2>2, <2>4 DEF FirstPass
<1>7. CASE Answer
  <2>1. /\ LoopOver /\ out' = out /\ maskPc' = "done" /\ maskPc = "apply"
        /\ Applied(out, Done) /\ applied = rules.list
    BY <1>1, <1>7 DEF Answer, LoopOver, FirstPass, OnceInv
  <2>2. Applied(out, Applicable)
    BY <1>1, <2>1, DoneAll
  <2>3. Applied(out, Applicable)'
    BY <1>1, <2>1, <2>2, AppliedFixed
  <2> QED BY <2>1, <2>3 DEF FirstPass
<1> QED BY <1>3, <1>4, <1>5, <1>6, <1>7 DEF PreQuery

\* The rewritten query comes to the second pass with its rules applied.
LEMMA SecondPassStart ==
  ASSUME MaskInv, OnceInv, ComesAgain, Distinct, CallsNoMask
  PROVE  SecondPass'
<1>1. /\ UNCHANGED <<rules, roles, query>> /\ Applicable' = Applicable
      /\ first' = out /\ out' = out /\ Applied(out, Applicable)
  BY Fixed DEF ComesAgain, OnceInv, FirstPass
<1>2. Masked(first, Applicable)'
  BY <1>1, MaskedFixed DEF Applied
<1>3. ASSUME NEW r \in Applicable, FindWord(query, r.column) = 0
      PROVE  FindWord(out, r.column) = 0
  BY <1>1, <1>3 DEF Applied, Untouched
<1> QED BY <1>1, <1>2, <1>3 DEF SecondPass

\* And none of them finds anything to do there.
LEMMA SecondPassStep ==
  ASSUME MaskInv, OnceInv, PreQuery, pass = 2, Distinct, CallsNoMask
  PROVE  SecondPass'
<1> DEFINE r == applied[turn]
<1>1. /\ UNCHANGED <<rules, roles, query, first>> /\ Applicable' = Applicable
      /\ MaskTypeOK /\ SecondPass
  <2>1. UNCHANGED <<rules, roles, query, first>>
    BY DEF PreQuery, ReadRules, SkipRule, WrapColumn, MaskTraps, Answer, NextRule
  <2> QED BY <2>1, Fixed DEF MaskInv, OnceInv
<1>2. Masked(first, Applicable)'
  BY <1>1, MaskedFixed DEF SecondPass
<1>3. ASSUME TablesKept PROVE out' = out
  <2>1. CASE WrapColumn
    <3>1. /\ Turn /\ ~Skip(r) /\ FindWord(out, r.column) # 0 /\ out = first
      BY <1>1, <1>3, <2>1 DEF WrapColumn, SecondPass
    <3>2. applied = rules.list /\ turn \in DOMAIN rules.list
      BY <1>1, <3>1, TurnIs
    <3>3. /\ Mentions(first, r.table) /\ ~Unmasked(r) /\ ~Calls(first, r.mask_function)
      BY <1>1, <3>1 DEF Skip, PassText
    <3>4. r \in Applicable
      BY <1>1, <1>3, <3>1, <3>2, <3>3, TurnIsApplicable DEF TablesKept
    <3>5. FindWord(query, r.column) = 0
      BY <1>1, <3>3, <3>4, QueryRules, Called DEF SecondPass
    <3> QED BY <1>1, <3>1, <3>4, <3>5 DEF SecondPass
  <2> QED BY <2>1 DEF PreQuery, ReadRules, SkipRule, MaskTraps, Answer, NextRule
<1>4. TablesKept' <=> TablesKept
  BY <1>1 DEF TablesKept
<1> QED BY <1>1, <1>2, <1>3, <1>4 DEF SecondPass

LEMMA OnceStep ==
  ASSUME MaskInv, OnceInv, [MaskNext]_maskVars PROVE OnceInv'
<1>1. CASE PreQuery
  <2>1. UNCHANGED <<rules, roles, query, pass>>
    BY <1>1 DEF PreQuery, ReadRules, SkipRule, WrapColumn, MaskTraps, Answer, NextRule
  <2>2. maskPc' = "apply" => applied' = rules.list'
    BY <1>1 DEF OnceInv, PreQuery, ReadRules, SkipRule, WrapColumn, MaskTraps, Answer,
                NextRule, Turn, LoopOver
  <2> QED BY <1>1, <2>1, <2>2, Fixed, FirstPassStep, SecondPassStep DEF OnceInv
<1>2. CASE ComesAgain
  <2>1. UNCHANGED <<rules, roles, query>> /\ pass' = 2 /\ maskPc' = "start"
    BY <1>2 DEF ComesAgain
  <2> QED BY <1>2, <2>1, Fixed, SecondPassStart DEF OnceInv
<1>3. CASE UNCHANGED maskVars
  <2>1. UNCHANGED <<rules, roles, query, maskPc, applied, turn, out, changed, pass, first>>
    BY <1>3 DEF maskVars
  <2>2. /\ Applicable' = Applicable /\ (Distinct' <=> Distinct)
        /\ (CallsNoMask' <=> CallsNoMask)
    BY <2>1, Fixed
  <2>3. Done' = Done
    BY <2>1, <2>2 DEF Done
  <2>4. FirstPass => FirstPass'
    BY <2>1, <2>2, <2>3, AppliedFixed DEF FirstPass
  <2>5. SecondPass => SecondPass'
    BY <2>1, <2>2, MaskedFixed DEF SecondPass, TablesKept
  <2> QED BY <2>1, <2>2, <2>4, <2>5 DEF OnceInv
<1> QED BY <1>1, <1>2, <1>3 DEF MaskNext

LEMMA OnceInvariant == PathSpec => []OnceInv
<1>1. PathInit => OnceInv
  BY OnceInit DEF PathInit
<1>2. PathInv /\ OnceInv /\ [PathNext]_pathVars => OnceInv'
  BY OnceStep DEF PathInv, PathNext, pathVars, Masking, VectorRoute, ResidencyRoute,
                  OperatorUpdates
<1> QED BY <1>1, <1>2, PathInvariant, PTL DEF PathSpec

\* The masked text is the query with all its rules applied at once: whatever
\* the query and however many rules there are, their order does not matter,
\* none hides the column of another, and nothing else of the query changes.
THEOREM MasksAreAtOnce == PathSpec => []MaskedAtOnce
<1>1. PathInv /\ OnceInv => MaskedAtOnce
  <2> SUFFICES ASSUME PathInv, OnceInv, LoopOver, pass = 1, Distinct, CallsNoMask
               PROVE  Masked(out, Applicable)
    BY DEF MaskedAtOnce
  <2>1. Applied(out, Done) /\ Done = Applicable
    BY DoneAll DEF PathInv, MaskInv, OnceInv, FirstPass, LoopOver
  <2> QED BY <2>1 DEF Applied
<1> QED BY <1>1, PathInvariant, OnceInvariant, PTL

\* A rewritten query passes the plugin again unchanged, however often rules
\* have rewritten it: each finds its call, or no column.
THEOREM SecondPassIsIdle == PathSpec => []SecondPassIdle
<1>1. PathInv /\ OnceInv => SecondPassIdle
  <2> SUFFICES ASSUME PathInv, OnceInv, pass = 2, Distinct, CallsNoMask, TablesKept
               PROVE  ~changed
    BY DEF SecondPassIdle, TablesKept
  <2>1. MaskTypeOK /\ out = first
    BY DEF PathInv, MaskInv, OnceInv, SecondPass
  <2> QED BY <2>1 DEF MaskTypeOK, PassText
<1> QED BY <1>1, PathInvariant, OnceInvariant, PTL

\* The hook traps exactly on the wide characters of the query: no rule brings
\* a trap of another about, and none averts one.
THEOREM TrapsAreOnWideOnly == PathSpec => []TrapsOnWideOnly
<1>1. PathInv /\ OnceInv => TrapsOnWideOnly
  <2> SUFFICES ASSUME PathInv, OnceInv, pass = 1, Distinct, CallsNoMask
               PROVE  /\ maskPc = "trapped" => \E r \in Applicable : FindPanics(query, r.column)
                      /\ LoopOver => \A r \in Applicable : ~FindPanics(query, r.column)
    BY DEF TrapsOnWideOnly
  <2>1. FirstPass
    BY DEF OnceInv
  <2>2. ASSUME LoopOver PROVE \A r \in Applicable : ~FindPanics(query, r.column)
    <3>1. Applied(out, Done) /\ Done = Applicable
      BY <2>1, <2>2, DoneAll DEF PathInv, MaskInv, OnceInv, FirstPass, LoopOver
    <3> QED BY <3>1 DEF Applied
  <2> QED BY <2>1, <2>2 DEF FirstPass
<1> QED BY <1>1, PathInvariant, OnceInvariant, PTL

=============================================================================
