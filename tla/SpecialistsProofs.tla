-------------------------- MODULE SpecialistsProofs --------------------------
(****************************************************************************)
(* The agents of module Specialists and the memory they share.  First the   *)
(* agents alone: with more of the session before it an agent is never       *)
(* milder, and an agent that was warned treats a message worse than it      *)
(* would out of the blue.  Then the state: however threads make and replace *)
(* the singleton and the sessions, the memory an agent reads holds what was *)
(* concluded before the call began, but for what a thread dropped that was  *)
(* under way all the while.                                                 *)
(****************************************************************************)
EXTENDS Specialists, FiniteSetTheorems, TLAPS

-----------------------------------------------------------------------------
(* Sums of weights.  SumOf is a fold, so it is a value of the function that *)
(* the fold chooses; induction over finite sets shows that there is one.    *)

(* A non-empty set of subsets of a finite set has a smallest member. *)
LEMMA Least ==
  ASSUME NEW S, IsFiniteSet(S), NEW T \in SUBSET (SUBSET S), T # {}
  PROVE  \E m \in T : \A s \in T : s \subseteq m => s = m
<1>1. IsWellFoundedOn(StrictSubsetOrdering(S), SUBSET S)
  BY FS_StrictSubsetOrderingWellFounded, FS_FiniteSubsetsOfFinite
<1>2. PICK m \in T : \A s \in T : <<s, m>> \notin StrictSubsetOrdering(S)
  BY <1>1, WFMin
<1>3. QED BY <1>2 DEF StrictSubsetOrdering

Some(s) == CHOOSE x \in s : TRUE

(* f is the sum of the weights w for each set of D. *)
Folds(f, w, D) ==
  f = [s \in D |-> IF s = {} THEN 0 ELSE w[Some(s)] + f[s \ {Some(s)}]]

LEMMA SumIsFold ==
  ASSUME NEW w, NEW S
  PROVE  SumOf(w, S) = (CHOOSE f : Folds(f, w, SUBSET S))[S]
  BY DEF SumOf, MapThenSumSet, MapThenFoldSet, Folds, Some

UpTo(S, n) == {s \in SUBSET S : Cardinality(s) <= n}

LEMMA FoldExists ==
  ASSUME NEW w, NEW S, IsFiniteSet(S)
  PROVE  \E f : Folds(f, w, SUBSET S)
<1>1. \A s \in SUBSET S : IsFiniteSet(s) /\ Cardinality(s) \in Nat
  BY FS_Subset, FS_CardinalityType
<1> DEFINE Bad == {n \in Nat : ~ \E f : Folds(f, w, UpTo(S, n))}
<1>2. Bad = {}
  <2> SUFFICES ASSUME Bad # {} PROVE FALSE
    OBVIOUS
  <2>1. PICK n \in Bad : \A k \in Bad : <<k, n>> \notin OpToRel(<, Nat)
    <3>1. Bad \subseteq Nat
      OBVIOUS
    <3> HIDE DEF Bad
    <3>2. QED  BY <3>1, NatLessThanWellFounded, WFMin
  <2>2. n \in Nat /\ \A k \in Bad : ~(k < n)
    BY <2>1 DEF OpToRel
  <2>3. CASE n = 0
    <3>1. UpTo(S, 0) = {{}}
      BY <1>1, FS_EmptySet DEF UpTo
    <3>2. Folds([s \in {{}} |-> 0], w, {{}})
      BY DEF Folds
    <3>3. QED  BY <2>3, <3>1, <3>2
  <2>4. CASE n > 0
    <3>1. PICK f : Folds(f, w, UpTo(S, n - 1))
      BY <2>2, <2>4
    <3> DEFINE g == [s \in UpTo(S, n) |->
                       IF s = {} THEN 0 ELSE w[Some(s)] + f[s \ {Some(s)}]]
    <3>2. ASSUME NEW s \in UpTo(S, n), s # {}
          PROVE  s \ {Some(s)} \in UpTo(S, n - 1) /\ s \ {Some(s)} \in UpTo(S, n)
      <4>1. Some(s) \in s
        BY <3>2 DEF Some
      <4>2. Cardinality(s \ {Some(s)}) = Cardinality(s) - 1
        BY <1>1, <4>1, FS_RemoveElement DEF UpTo
      <4>3. QED  BY <1>1, <4>2 DEF UpTo
    <3>3. \A s \in UpTo(S, n - 1) : s \in UpTo(S, n) /\ g[s] = f[s]
      <4>1. \A s \in UpTo(S, n - 1) : s \in UpTo(S, n)
        BY <1>1, <2>2 DEF UpTo
      <4>2. \A s \in UpTo(S, n - 1) :
              f[s] = IF s = {} THEN 0 ELSE w[Some(s)] + f[s \ {Some(s)}]
        BY <3>1 DEF Folds
      <4>3. QED  BY <4>1, <4>2
    <3>4. Folds(g, w, UpTo(S, n))
      BY <3>2, <3>3 DEF Folds
    <3>5. QED  BY <3>4
  <2>5. QED  BY <2>3, <2>4
<1>3. Cardinality(S) \in Nat /\ UpTo(S, Cardinality(S)) = SUBSET S
  BY FS_CardinalityType, FS_Subset DEF UpTo
<1>4. \E f : Folds(f, w, UpTo(S, Cardinality(S)))
  BY <1>2, <1>3
<1>5. QED  BY <1>3, <1>4

LEMMA FoldUnique ==
  ASSUME NEW w, NEW S, IsFiniteSet(S), NEW f, Folds(f, w, SUBSET S),
         NEW g, NEW U \in SUBSET S, Folds(g, w, SUBSET U)
  PROVE  f[U] = g[U]
<1> DEFINE Bad == {s \in SUBSET U : f[s] # g[s]}
<1> SUFFICES ASSUME Bad # {} PROVE FALSE
  OBVIOUS
<1>1. PICK m \in Bad : \A s \in Bad : s \subseteq m => s = m
  <2>1. Bad \in SUBSET (SUBSET S)
    OBVIOUS
  <2> HIDE DEF Bad
  <2>2. QED  BY <2>1, Least
<1>2. m # {}
  BY <1>1 DEF Folds
<1>3. Some(m) \in m
  BY <1>2 DEF Some
<1>4. m \ {Some(m)} \in SUBSET U /\ f[m \ {Some(m)}] = g[m \ {Some(m)}]
  BY <1>1, <1>3
<1>5. QED  BY <1>1, <1>2, <1>4 DEF Folds

(* The equation of the sum. *)
LEMMA SumEquation ==
  ASSUME NEW w, NEW S, IsFiniteSet(S)
  PROVE  /\ SumOf(w, {}) = 0
         /\ \A U \in SUBSET S : U # {} =>
              SumOf(w, U) = w[Some(U)] + SumOf(w, U \ {Some(U)})
<1>1. PICK f : Folds(f, w, SUBSET S)
  BY FoldExists
<1>2. \A U \in SUBSET S : SumOf(w, U) = f[U]
  <2> TAKE U \in SUBSET S
  <2>1. IsFiniteSet(U)
    BY FS_Subset
  <2>2. PICK g : Folds(g, w, SUBSET U) /\ SumOf(w, U) = g[U]
    BY <2>1, FoldExists, SumIsFold
  <2>3. QED  BY <1>1, <2>2, FoldUnique
<1>3. \A U \in SUBSET S : U # {} => Some(U) \in U
  BY DEF Some
<1>4. QED  BY <1>1, <1>2, <1>3 DEF Folds

(* A sum of naturals is a natural. *)
LEMMA SumType ==
  ASSUME NEW S, IsFiniteSet(S), NEW w, \A x \in S : w[x] \in Nat
  PROVE  \A U \in SUBSET S : SumOf(w, U) \in Nat
<1> DEFINE Bad == {s \in SUBSET S : SumOf(w, s) \notin Nat}
<1> SUFFICES ASSUME Bad # {} PROVE FALSE
  OBVIOUS
<1>1. PICK m \in Bad : \A s \in Bad : s \subseteq m => s = m
  <2>1. Bad \in SUBSET (SUBSET S)
    OBVIOUS
  <2> HIDE DEF Bad
  <2>2. QED  BY <2>1, Least
<1>2. m # {}
  <2>1. SumOf(w, {}) \in Nat
    BY SumEquation
  <2>2. {} \notin Bad
    BY <2>1
  <2> HIDE DEF Bad
  <2>3. QED  BY <1>1, <2>2, Zenon
<1>3. Some(m) \in m
  BY <1>2 DEF Some
<1>4. m \ {Some(m)} \in SUBSET S /\ SumOf(w, m \ {Some(m)}) \in Nat
  BY <1>1, <1>3
<1>5. SumOf(w, m) = w[Some(m)] + SumOf(w, m \ {Some(m)})
  BY <1>2, SumEquation
<1>6. QED  BY <1>1, <1>3, <1>4, <1>5

(* Any element may be taken out first. *)
LEMMA SumOfAny ==
  ASSUME NEW S, IsFiniteSet(S), NEW w, \A x \in S : w[x] \in Nat
  PROVE  \A U \in SUBSET S : \A x \in U : SumOf(w, U) = w[x] + SumOf(w, U \ {x})
<1> DEFINE Bad == {s \in SUBSET S : \E x \in s : SumOf(w, s) # w[x] + SumOf(w, s \ {x})}
<1> SUFFICES ASSUME Bad # {} PROVE FALSE
  OBVIOUS
<1>1. PICK m \in Bad : \A s \in Bad : s \subseteq m => s = m
  <2>1. Bad \in SUBSET (SUBSET S)
    OBVIOUS
  <2> HIDE DEF Bad
  <2>2. QED  BY <2>1, Least
<1>2. PICK x \in m : SumOf(w, m) # w[x] + SumOf(w, m \ {x})
  BY <1>1
<1>3. PICK y \in m : SumOf(w, m) = w[y] + SumOf(w, m \ {y})
  <2>1. Some(m) \in m
    BY <1>2 DEF Some
  <2>2. SumOf(w, m) = w[Some(m)] + SumOf(w, m \ {Some(m)})
    BY <1>1, <1>2, SumEquation
  <2>3. QED  BY <2>1, <2>2
<1>4. x # y
  BY <1>2, <1>3
<1>5. SumOf(w, m \ {y}) = w[x] + SumOf(w, (m \ {y}) \ {x})
  <2>1. m \ {y} \in SUBSET S /\ m \ {y} \notin Bad
    BY <1>1, <1>3
  <2>2. x \in m \ {y}
    BY <1>4
  <2>3. QED  BY <2>1, <2>2
<1>6. SumOf(w, m \ {x}) = w[y] + SumOf(w, (m \ {x}) \ {y})
  <2>1. m \ {x} \in SUBSET S /\ m \ {x} \notin Bad
    BY <1>1, <1>2
  <2>2. y \in m \ {x}
    BY <1>4
  <2>3. QED  BY <2>1, <2>2
<1>7. PICK T \in SUBSET S : T = (m \ {y}) \ {x}
  BY <1>1
<1>8. (m \ {x}) \ {y} = T
  BY <1>7
<1>9. PICK rest \in Nat, wx \in Nat, wy \in Nat :
        rest = SumOf(w, T) /\ wx = w[x] /\ wy = w[y]
  BY <1>1, SumType
<1>10. SumOf(w, m) = wy + (wx + rest)
  BY <1>3, <1>5, <1>7, <1>9
<1>11. SumOf(w, m) # wx + (wy + rest)
  BY <1>2, <1>6, <1>8, <1>9
<1>12. wy + (wx + rest) = wx + (wy + rest)
  OBVIOUS
<1>13. QED  BY <1>10, <1>11, <1>12

(* More elements, more weight. *)
LEMMA SumMonotone ==
  ASSUME NEW S, IsFiniteSet(S), NEW w, \A x \in S : w[x] \in Nat,
         NEW U \in SUBSET S
  PROVE  \A V \in SUBSET U : SumOf(w, V) <= SumOf(w, U)
<1> DEFINE Bad == {d \in SUBSET U : ~(SumOf(w, U \ d) <= SumOf(w, U))}
<1>1. Bad = {}
  <2> SUFFICES ASSUME Bad # {} PROVE FALSE
    OBVIOUS
  <2>1. PICK m \in Bad : \A s \in Bad : s \subseteq m => s = m
    <3>1. Bad \in SUBSET (SUBSET S)
      OBVIOUS
    <3> HIDE DEF Bad
    <3>2. QED  BY <3>1, Least
  <2>2. SumOf(w, U) \in Nat
    BY SumType
  <2>3. m # {}
    <3>1. U \ {} = U
      OBVIOUS
    <3>2. {} \notin Bad
      BY <2>2, <3>1
    <3> HIDE DEF Bad
    <3>3. QED  BY <2>1, <3>2, Zenon
  <2>4. PICK x \in m : TRUE
    BY <2>3
  <2>5. SumOf(w, U \ (m \ {x})) <= SumOf(w, U)
    <3>1. m \ {x} \in SUBSET U /\ m \ {x} \notin Bad
      BY <2>1, <2>4
    <3>2. QED  BY <3>1
  <2>6. PICK V \in SUBSET S : V = U \ (m \ {x})
    OBVIOUS
  <2>7. x \in V /\ V \ {x} = U \ m /\ V \ {x} \in SUBSET S
    BY <2>1, <2>4, <2>6
  <2>8. SumOf(w, V) = w[x] + SumOf(w, V \ {x})
    BY <2>6, <2>7, SumOfAny
  <2>9. SumOf(w, V \ {x}) \in Nat /\ w[x] \in Nat
    BY <2>7, SumType
  <2>10. SumOf(w, U \ m) <= SumOf(w, U)
    BY <2>2, <2>5, <2>6, <2>7, <2>8, <2>9
  <2>11. QED  BY <2>1, <2>10
<1>2. ASSUME NEW V \in SUBSET U PROVE SumOf(w, V) <= SumOf(w, U)
  <2>1. PICK d \in SUBSET U : d = U \ V
    OBVIOUS
  <2>2. V = U \ d
    BY <2>1
  <2>3. QED  BY <1>1, <2>1, <2>2
<1>3. QED  BY <1>2

-----------------------------------------------------------------------------
(* What an agent makes of a message, and of a longer context.              *)

LEMMA LessOf == \A a, b \in Int : Min({a, b}) = IF a <= b THEN a ELSE b
<1> SUFFICES ASSUME NEW a \in Int, NEW b \in Int
             PROVE  Min({a, b}) = IF a <= b THEN a ELSE b
  OBVIOUS
<1>1. CASE a <= b
  BY <1>1 DEF Min
<1>2. CASE ~(a <= b)
  BY <1>2 DEF Min
<1>3. QED  BY <1>1, <1>2

LEMMA MoreOf == \A a, b \in Int : Max({a, b}) = IF a >= b THEN a ELSE b
<1> SUFFICES ASSUME NEW a \in Int, NEW b \in Int
             PROVE  Max({a, b}) = IF a >= b THEN a ELSE b
  OBVIOUS
<1>1. CASE a >= b
  BY <1>1 DEF Max
<1>2. CASE ~(a >= b)
  BY <1>2 DEF Max
<1>3. QED  BY <1>1, <1>2

LEMMA LeastNumber ==
  ASSUME NEW T \in SUBSET Nat, T # {}
  PROVE  Min(T) \in T
<1>1. PICK n \in T : \A k \in T : <<k, n>> \notin OpToRel(<, Nat)
  BY NatLessThanWellFounded, WFMin
<1>2. n \in Nat /\ \A k \in T : k \in Nat /\ ~(k < n)
  BY <1>1 DEF OpToRel
<1>3. \A k \in T : n <= k
  BY <1>2
<1>4. QED  BY <1>3 DEF Min

Readable(m) == \A i \in DOMAIN m.hits : m.hits[i] \in Nat

Own(words) == {words.fallback} \cup {words.intents[i] : i \in DOMAIN words.intents}

Guesses(words, top) == [intent : Own(words), conf : 0..top]

WordsOK(words) ==
  /\ DOMAIN words.intents \subseteq Nat
  /\ words.guess \in 0..97 /\ words.cap \in 0..97
  /\ words.floor \in Nat /\ words.gain \in Nat

LEMMA AllWordsOK ==
  \A words \in {BillingWords, FraudWords, RetentionWords, LoyaltyWords,
                ComplaintWords, SalesWords, TechnicalWords} : WordsOK(words)
  BY DEF BillingWords, FraudWords, RetentionWords, LoyaltyWords, ComplaintWords,
         SalesWords, TechnicalWords, Finds, WordsOK

(* A message is given one of the agent's own intents, with a confidence of  *)
(* at most 97.                                                              *)
LEMMA ScanFacts ==
  ASSUME NEW words, WordsOK(words), NEW m, Readable(m)
  PROVE  Scan(words, m) \in Guesses(words, 97)
<1> DEFINE hit == {i \in DOMAIN words.intents : words.intents[i] \in DOMAIN m.hits}
           first == words.intents[Min(hit)]
<1>1. CASE hit = {}
  BY <1>1 DEF Scan, Own, WordsOK, Guesses
<1>2. CASE hit # {}
  <2>1. Min(hit) \in hit
    <3>1. hit \in SUBSET Nat
      BY DEF WordsOK
    <3> HIDE DEF hit
    <3>2. QED  BY <1>2, <3>1, LeastNumber
  <2>2. first \in Own(words) /\ first \in DOMAIN m.hits
    BY <2>1 DEF Own
  <2>3. PICK gain \in Nat, hits \in Nat, floor \in Nat, cap \in 0..97 :
          /\ gain = words.gain /\ hits = m.hits[first]
          /\ floor = words.floor /\ cap = words.cap
    <3>1. words.gain \in Nat /\ words.floor \in Nat /\ words.cap \in 0..97
      BY DEF WordsOK
    <3>2. m.hits[first] \in Nat
      BY <2>2 DEF Readable
    <3> HIDE DEF first
    <3>3. QED  BY <3>1, <3>2, Zenon
  <2>4. Min({words.cap, words.floor + words.gain * m.hits[first]}) \in 0..97
    <3>1. gain * hits \in Nat
      OBVIOUS
    <3>2. floor + gain * hits \in Nat
      BY <3>1
    <3>3. ASSUME NEW sum \in Nat PROVE Min({cap, sum}) \in 0..97
      <4>1. Min({cap, sum}) = IF cap <= sum THEN cap ELSE sum
        BY LessOf
      <4>2. QED  BY <4>1
    <3>4. QED  BY <2>3, <3>2, <3>3
  <2>5. Scan(words, m) =
          [intent |-> first,
           conf |-> Min({words.cap, words.floor + words.gain * m.hits[first]})]
    BY <1>2 DEF Scan
  <2> HIDE DEF first
  <2>6. QED  BY <2>2, <2>4, <2>5 DEF Guesses
<1>3. QED  BY <1>1, <1>2

LEMMA RaiseFacts ==
  ASSUME NEW words, NEW guess \in Guesses(words, 99), NEW by \in Nat, NEW cap \in 0..99
  PROVE  /\ Raise(guess, by, cap) \in Guesses(words, 99)
         /\ Raise(guess, by, cap).intent = guess.intent
         /\ guess.conf <= cap => Raise(guess, by, cap).conf >= guess.conf
<1> DEFINE new == Min({cap, guess.conf + by})
<1>1. PICK old \in 0..99, sum \in Nat : old = guess.conf /\ sum = guess.conf + by /\ old <= sum
  BY DEF Guesses
<1>2. PICK least \in 0..99 : /\ least = IF cap <= sum THEN cap ELSE sum
                             /\ old <= cap => least >= old
  BY <1>1, SMTT(30)
<1>3. new \in 0..99 /\ (guess.conf <= cap => new >= guess.conf)
  <2>1. new = IF cap <= sum THEN cap ELSE sum
    BY <1>1, LessOf
  <2> HIDE DEF new
  <2>2. new = least
    BY <1>2, <2>1
  <2>3. guess.conf = old
    BY <1>1
  <2>4. least \in 0..99 /\ (old <= cap => least >= old)
    BY <1>2
  <2>5. QED  BY <2>2, <2>3, <2>4, Zenon
<1>4. Raise(guess, by, cap) = [guess EXCEPT !.conf = new]
  BY DEF Raise
<1> HIDE DEF new
<1>5. /\ [guess EXCEPT !.conf = new] \in Guesses(words, 99)
      /\ [guess EXCEPT !.conf = new].intent = guess.intent
      /\ [guess EXCEPT !.conf = new].conf = new
  BY <1>3 DEF Guesses
<1>6. QED  BY <1>3, <1>4, <1>5

(* The rises that the agents give a guess. *)
LEMMA RaiseUp ==
  ASSUME NEW words, NEW guess \in Guesses(words, 99)
  PROVE  /\ /\ Raise(guess, 4, 99) \in Guesses(words, 99)
            /\ Raise(guess, 4, 99).intent = guess.intent
            /\ Raise(guess, 4, 99).conf >= guess.conf
         /\ Raise(guess, 5, 99) \in Guesses(words, 99)
         /\ /\ Raise(guess, 4, 90) \in Guesses(words, 99)
            /\ Raise(guess, 4, 90).intent = guess.intent
            /\ guess.conf <= 90 => Raise(guess, 4, 90).conf >= guess.conf
<1>1. 4 \in Nat /\ 5 \in Nat /\ 90 \in 0..99 /\ 99 \in 0..99
  OBVIOUS
<1>2. guess.conf <= 99
  BY DEF Guesses
<1>3. /\ Raise(guess, 4, 99) \in Guesses(words, 99)
      /\ Raise(guess, 4, 99).intent = guess.intent
      /\ Raise(guess, 4, 99).conf >= guess.conf
  <2>1. /\ Raise(guess, 4, 99) \in Guesses(words, 99)
        /\ Raise(guess, 4, 99).intent = guess.intent
        /\ guess.conf <= 99 => Raise(guess, 4, 99).conf >= guess.conf
    BY <1>1, RaiseFacts, Zenon
  <2>2. QED  BY <1>2, <2>1
<1>4. Raise(guess, 5, 99) \in Guesses(words, 99)
  BY <1>1, RaiseFacts, Zenon
<1>5. /\ Raise(guess, 4, 90) \in Guesses(words, 99)
      /\ Raise(guess, 4, 90).intent = guess.intent
      /\ guess.conf <= 90 => Raise(guess, 4, 90).conf >= guess.conf
  BY <1>1, RaiseFacts, Zenon
<1>6. QED  BY <1>3, <1>4, <1>5

(* A context that goes on where another one ends. *)
Extends(later, ctx) ==
  /\ IsFiniteSet(DOMAIN later)
  /\ DOMAIN ctx \subseteq DOMAIN later
  /\ \A i \in DOMAIN ctx : later[i] = ctx[i]

LEMMA MoreIsSaid ==
  ASSUME NEW ctx, NEW later, Extends(later, ctx), NEW word
  PROVE  /\ Says(ctx, word) => Says(later, word)
         /\ TimesSaid(ctx, word) \in Nat /\ TimesSaid(later, word) \in Nat
         /\ TimesSaid(ctx, word) <= TimesSaid(later, word)
         /\ Empty(later) => Empty(ctx)
<1> DEFINE at(c) == {i \in DOMAIN c : c[i].intent = word}
<1>1. IsFiniteSet(at(later)) /\ at(ctx) \subseteq at(later)
  BY FS_Subset DEF Extends
<1>2. TimesSaid(ctx, word) = Cardinality(at(ctx)) /\ TimesSaid(later, word) = Cardinality(at(later))
  BY DEF TimesSaid
<1>3. Says(ctx, word) => Says(later, word)
  BY DEF Says, Extends
<1>4. Empty(later) => Empty(ctx)
  BY DEF Empty, Extends
<1> HIDE DEF at
<1>5. QED  BY <1>1, <1>2, <1>3, <1>4, FS_Subset, FS_CardinalityType

(* The answer to a message with more context: no milder, and the intent is  *)
(* one of the agent's own.                                                  *)
Steady(words, a, b) ==
  /\ a.intent \in Own(words)
  /\ a.level \in Int /\ a.conf \in Int /\ b.level \in Int /\ b.conf \in Int
  /\ b.level >= a.level /\ b.conf >= a.conf

LEMMA BillingSteady ==
  ASSUME NEW m, Readable(m), NEW ctx, NEW later, Extends(later, ctx)
  PROVE  Steady(BillingWords, Billing(m, ctx), Billing(m, later))
<1>1. PICK g \in Guesses(BillingWords, 97) : g = Scan(BillingWords, m)
  BY ScanFacts, AllWordsOK
<1>2. g \in Guesses(BillingWords, 99)
  BY DEF Guesses
<1>3. /\ Raise(g, 4, 99) \in Guesses(BillingWords, 99)
      /\ Raise(g, 4, 99).conf >= g.conf
  BY <1>2, RaiseUp
<1>4. PICK a \in Guesses(BillingWords, 99), b \in Guesses(BillingWords, 99) :
        a = BillingGuess(m, ctx) /\ b = BillingGuess(m, later) /\ b.conf >= a.conf
  <2>1. Says(ctx, "fraud-detection-agent") => Says(later, "fraud-detection-agent")
    BY MoreIsSaid
  <2>2. g.conf \in Int /\ Raise(g, 4, 99).conf \in Int
    BY <1>2, <1>3 DEF Guesses
  <2>3. QED  BY <1>1, <1>2, <1>3, <2>1, <2>2 DEF BillingGuess
<1>5. \A c : /\ Billing(m, c).intent = BillingGuess(m, c).intent
             /\ Billing(m, c).conf = BillingGuess(m, c).conf
             /\ Billing(m, c).level = 0
  BY DEF Billing, Answer
<1>6. QED  BY <1>4, <1>5 DEF Steady, Guesses

LEMMA FourFinite == \A a, b, c, d : IsFiniteSet({a, b, c, d})
<1> SUFFICES ASSUME NEW a, NEW b, NEW c, NEW d PROVE IsFiniteSet({a, b, c, d})
  OBVIOUS
<1>1. IsFiniteSet({a} \cup {b})
  BY FS_Singleton, FS_AddElement
<1>2. IsFiniteSet(({a} \cup {b}) \cup {c})
  BY <1>1, FS_AddElement
<1>3. IsFiniteSet((({a} \cup {b}) \cup {c}) \cup {d})
  BY <1>2, FS_AddElement
<1>4. {a, b, c, d} = (({a} \cup {b}) \cup {c}) \cup {d}
  OBVIOUS
<1>5. QED  BY <1>3, <1>4

LEMMA RiskFacts ==
  ASSUME NEW m, NEW ctx, NEW later, Extends(later, ctx)
  PROVE  /\ Risk(m, ctx) \in Int /\ Risk(m, later) \in Int
         /\ Risk(m, later) >= Risk(m, ctx)
         /\ /\ Empty(ctx) /\ TimesSaid(later, "payment_failed") >= 2
            => Risk(m, later) > Risk(m, ctx) \/ (Risk(m, later) = 95 /\ Risk(m, ctx) = 95)
<1> DEFINE W == DOMAIN RISK_WEIGHTS
<1>1. IsFiniteSet(W) /\ \A f \in W : RISK_WEIGHTS[f] \in Nat
  <2>1. W = {"velocity", "geo_anomaly", "new_device", "time_anomaly"}
    BY DEF RISK_WEIGHTS
  <2>2. \A f \in W : RISK_WEIGHTS[f] \in Nat
    BY DEF RISK_WEIGHTS
  <2>3. IsFiniteSet({"velocity", "geo_anomaly", "new_device", "time_anomaly"})
    BY FourFinite
  <2>4. QED  BY <2>1, <2>2, <2>3
<1>2. SumOf(RISK_WEIGHTS, W \cap m.signs) \in Nat
  BY <1>1, SumType
<1>3. HighValue(m) \in Nat
  BY DEF HighValue
<1>4. PICK base \in Nat : base = SumOf(RISK_WEIGHTS, W \cap m.signs) + HighValue(m)
  BY <1>2, <1>3
<1>5. PICK p \in Nat, q \in Nat : /\ p = TimesSaid(ctx, "payment_failed")
                                  /\ q = TimesSaid(later, "payment_failed") /\ p <= q
  BY MoreIsSaid
<1>6. /\ BillingPattern(ctx) = IF p >= 2 THEN (IF 20 <= 7 * p THEN 20 ELSE 7 * p) ELSE 0
      /\ BillingPattern(later) = IF q >= 2 THEN (IF 20 <= 7 * q THEN 20 ELSE 7 * q) ELSE 0
  <2>1. 7 * p \in Int /\ 7 * q \in Int
    OBVIOUS
  <2>2. /\ Min({20, 7 * p}) = IF 20 <= 7 * p THEN 20 ELSE 7 * p
        /\ Min({20, 7 * q}) = IF 20 <= 7 * q THEN 20 ELSE 7 * q
    BY <2>1, LessOf
  <2>3. QED  BY <1>5, <2>2 DEF BillingPattern
<1>7. PICK x \in Nat, y \in Nat : x = BillingPattern(ctx) /\ y = BillingPattern(later) /\ x <= y
                                  /\ (p = 0 /\ q >= 2 => x = 0 /\ y > 0)
  BY <1>5, <1>6
<1>8. Risk(m, ctx) = Min({95, base + x}) /\ Risk(m, later) = Min({95, base + y})
  BY <1>4, <1>7 DEF Risk
<1>9. /\ Risk(m, ctx) = IF 95 <= base + x THEN 95 ELSE base + x
      /\ Risk(m, later) = IF 95 <= base + y THEN 95 ELSE base + y
  BY <1>8, LessOf
<1>10. Empty(ctx) => p = 0
  <2>1. Empty(ctx) => {i \in DOMAIN ctx : ctx[i].intent = "payment_failed"} = {}
    BY DEF Empty
  <2>2. QED  BY <1>5, <2>1, FS_EmptySet DEF TimesSaid
<1>11. QED  BY <1>5, <1>7, <1>9, <1>10

LEMMA FraudSteady ==
  ASSUME NEW m, Readable(m), NEW ctx, NEW later, Extends(later, ctx)
  PROVE  Steady(FraudWords, Fraud(m, ctx), Fraud(m, later))
<1>1. PICK g \in Guesses(FraudWords, 97) : g = Scan(FraudWords, m)
  BY ScanFacts, AllWordsOK
<1>2. g.conf \in Int /\ g.conf <= 97 /\ g.intent \in Own(FraudWords)
  BY DEF Guesses
<1>3. PICK top \in Int : top = Max({g.conf, 92}) /\ top >= g.conf
  <2>1. Max({g.conf, 92}) = IF g.conf >= 92 THEN g.conf ELSE 92
    BY <1>2, MoreOf
  <2>2. QED  BY <1>2, <2>1
<1>4. \A c : /\ Fraud(m, c).intent = g.intent
             /\ Fraud(m, c).conf = IF Risk(m, c) >= 80 THEN top ELSE g.conf
             /\ Fraud(m, c).level = Risk(m, c)
  <2> TAKE c
  <2> DEFINE sure == IF Risk(m, c) >= 80 THEN [g EXCEPT !.conf = top] ELSE g
  <2>1. sure.intent = g.intent /\ sure.conf = IF Risk(m, c) >= 80 THEN top ELSE g.conf
    BY DEF Guesses
  <2>2. \E outcome : Fraud(m, c) = Answer(sure, outcome, Risk(m, c))
    BY <1>1, <1>3 DEF Fraud
  <2> HIDE DEF sure
  <2>3. QED  BY <2>1, <2>2 DEF Answer
<1>5. /\ Risk(m, ctx) \in Int /\ Risk(m, later) \in Int
      /\ Risk(m, later) >= Risk(m, ctx)
  BY RiskFacts
<1>6. QED  BY <1>2, <1>3, <1>4, <1>5 DEF Steady

Amplifiers == DOMAIN CHURN_AMPLIFIERS

LEMMA AmplifiersFinite ==
  IsFiniteSet(Amplifiers) /\ \A s \in Amplifiers : CHURN_AMPLIFIERS[s] \in Nat \ {0}
<1>1. Amplifiers = {"billing_error", "payment_failed", "invoice_dispute", "service_outage"}
                   \cup {"api_error", "regulatory_complaint", "safety_concern", "agent_complaint"}
                   \cup {"service_grievance", "dissatisfaction", "competitor_mention",
                         "competitor_mention"}
  BY DEF Amplifiers, CHURN_AMPLIFIERS
<1>2. IsFiniteSet(Amplifiers)
  BY <1>1, FourFinite, FS_Union
<1>3. \A s \in Amplifiers : CHURN_AMPLIFIERS[s] \in Nat \ {0}
  BY DEF Amplifiers, CHURN_AMPLIFIERS
<1>4. QED  BY <1>2, <1>3

LEMMA ChurnFacts ==
  ASSUME NEW intent \in DOMAIN BASE_CHURN, NEW ctx, NEW later, Extends(later, ctx)
  PROVE  /\ Churn(intent, ctx) \in Int /\ Churn(intent, later) \in Int
         /\ Churn(intent, later) >= Churn(intent, ctx)
         /\ \A s \in Amplifiers : Empty(ctx) /\ Says(later, s) =>
              Churn(intent, later) > Churn(intent, ctx)
<1>1. PICK base \in Nat : base = BASE_CHURN[intent] /\ base < 99
  BY DEF BASE_CHURN
<1> DEFINE said(c) == {s \in Amplifiers : Says(c, s)}
<1>2. said(ctx) \in SUBSET said(later) /\ said(later) \in SUBSET Amplifiers
  BY MoreIsSaid
<1>3. \A s \in Amplifiers : CHURN_AMPLIFIERS[s] \in Nat
  BY AmplifiersFinite
<1>4. PICK x \in Nat, y \in Nat :
        x = SumOf(CHURN_AMPLIFIERS, said(ctx)) /\ y = SumOf(CHURN_AMPLIFIERS, said(later))
  <2> HIDE DEF said
  <2>1. said(ctx) \in SUBSET Amplifiers
    BY <1>2
  <2>2. QED  BY <1>2, <1>3, <2>1, AmplifiersFinite, SumType
<1>5. x <= y
  <2> HIDE DEF said
  <2>1. QED  BY <1>2, <1>3, <1>4, AmplifiersFinite, SumMonotone
<1>6. Empty(ctx) => x = 0
  <2>1. Empty(ctx) => said(ctx) = {}
    BY DEF Empty, Says
  <2>2. SumOf(CHURN_AMPLIFIERS, {}) = 0
    BY AmplifiersFinite, SumEquation
  <2> HIDE DEF said
  <2>3. QED  BY <1>4, <2>1, <2>2
<1>7. ASSUME NEW s \in Amplifiers, Says(later, s) PROVE y > 0
  <2>1. s \in said(later)
    BY <1>7
  <2> HIDE DEF said
  <2>2. y = CHURN_AMPLIFIERS[s] + SumOf(CHURN_AMPLIFIERS, said(later) \ {s})
    BY <1>2, <1>3, <1>4, <2>1, AmplifiersFinite, SumOfAny
  <2>3. said(later) \ {s} \in SUBSET Amplifiers
    BY <1>2
  <2>4. SumOf(CHURN_AMPLIFIERS, said(later) \ {s}) \in Nat
    BY <1>3, <2>3, AmplifiersFinite, SumType
  <2>5. CHURN_AMPLIFIERS[s] \in Nat \ {0}
    BY AmplifiersFinite
  <2>6. QED  BY <2>2, <2>4, <2>5
<1>8. Churn(intent, ctx) = Min({99, base + x}) /\ Churn(intent, later) = Min({99, base + y})
  BY <1>1, <1>4 DEF Churn, Amplifiers
<1> HIDE DEF said
<1>9. /\ Churn(intent, ctx) = IF 99 <= base + x THEN 99 ELSE base + x
      /\ Churn(intent, later) = IF 99 <= base + y THEN 99 ELSE base + y
  <2>1. base + x \in Int /\ base + y \in Int
    OBVIOUS
  <2>2. QED  BY <1>8, <2>1, LessOf
<1>10. QED  BY <1>1, <1>5, <1>6, <1>7, <1>9

LEMMA RetentionOwn == Own(RetentionWords) = DOMAIN BASE_CHURN
  BY DEF Own, RetentionWords, Finds, BASE_CHURN

LEMMA RetentionSteady ==
  ASSUME NEW m, Readable(m), NEW ctx, NEW later, Extends(later, ctx)
  PROVE  Steady(RetentionWords, Retention(m, ctx), Retention(m, later))
<1>1. PICK g \in Guesses(RetentionWords, 97) : g = Scan(RetentionWords, m)
  BY ScanFacts, AllWordsOK
<1>2. g \in Guesses(RetentionWords, 99) /\ g.conf \in Int /\ g.conf <= 99
      /\ g.intent \in Own(RetentionWords)
  BY DEF Guesses
<1>3. PICK r \in Guesses(RetentionWords, 99) :
        r = Raise(g, 4, 99) /\ r.intent = g.intent /\ r.conf >= g.conf
  BY <1>2, RaiseUp
<1>4. r.conf \in Int
  BY DEF Guesses
<1>5. \A c : /\ Retention(m, c).intent = g.intent
             /\ Retention(m, c).conf = IF Empty(c) THEN g.conf ELSE r.conf
             /\ Retention(m, c).level = Churn(g.intent, c)
  <2> TAKE c
  <2>1. PICK h : h = IF Empty(c) THEN g ELSE r
    OBVIOUS
  <2>2. \E outcome : Retention(m, c) = Answer(h, outcome, Churn(h.intent, c))
    BY <1>1, <1>3, <2>1 DEF Retention
  <2>3. QED  BY <1>3, <2>1, <2>2 DEF Answer
<1>6. /\ Churn(g.intent, ctx) \in Int /\ Churn(g.intent, later) \in Int
      /\ Churn(g.intent, later) >= Churn(g.intent, ctx)
  BY <1>2, RetentionOwn, ChurnFacts
<1>7. Empty(later) => Empty(ctx)
  BY MoreIsSaid
<1>8. QED  BY <1>2, <1>3, <1>4, <1>5, <1>6, <1>7 DEF Steady

LEMMA Fields ==
  \A guess, outcome, level :
    /\ Answer(guess, outcome, level).intent = guess.intent
    /\ Answer(guess, outcome, level).conf = guess.conf
    /\ Answer(guess, outcome, level).level = level
  BY DEF Answer

LEMMA LoyaltySteady ==
  ASSUME NEW m, Readable(m), NEW session, Seed[session] \in Nat
  PROVE  Steady(LoyaltyWords, Loyalty(m, session), Loyalty(m, session))
<1>1. PICK s \in Guesses(LoyaltyWords, 97) : s = Scan(LoyaltyWords, m)
  BY ScanFacts, AllWordsOK
<1>2. s.conf \in Int /\ s.intent \in Own(LoyaltyWords)
  BY DEF Guesses
<1>3. PICK g : /\ g = IF s.intent = "loyalty_complaint" THEN [s EXCEPT !.conf = Max({@, 86})]
                      ELSE s
               /\ g.intent \in Own(LoyaltyWords) /\ g.conf \in Int
  <2>1. Max({s.conf, 86}) = IF s.conf >= 86 THEN s.conf ELSE 86
    BY <1>2, MoreOf
  <2>2. Max({s.conf, 86}) \in Int
    BY <1>2, <2>1
  <2>3. CASE s.intent = "loyalty_complaint"
    <3>1. PICK g : g = [s EXCEPT !.conf = Max({s.conf, 86})]
      OBVIOUS
    <3>2. g.intent = s.intent /\ g.conf = Max({s.conf, 86})
      BY <3>1 DEF Guesses
    <3>3. QED  BY <1>2, <2>2, <2>3, <3>1, <3>2
  <2>4. CASE s.intent # "loyalty_complaint"
    BY <1>2, <2>4
  <2>5. QED  BY <2>3, <2>4
<1>4. PICK points \in Nat : points = 7500 + (Seed[session] % 20000)
  <2>1. Seed[session] % 20000 \in Nat
    OBVIOUS
  <2>2. QED  BY <2>1
<1> DEFINE reached == {i \in DOMAIN TIERS : points >= TIERS[i]}
<1>5. PICK tier \in DOMAIN TIERS : tier = Max(reached)
  <2>1. reached \subseteq 1..4 /\ 1 \in reached /\ DOMAIN TIERS = 1..4
    BY DEF TIERS
  <2> HIDE DEF reached
  <2>2. \E i \in reached : \A j \in reached : i >= j
    BY <2>1
  <2>3. Max(reached) \in reached
    BY <2>2 DEF Max
  <2>4. QED  BY <2>1, <2>3
<1>6. PICK toNext \in Int : toNext = IF tier = Len(TIERS) THEN 0 ELSE TIERS[tier + 1] - points
  <2>1. Len(TIERS) = 4 /\ tier \in 1..4 /\ \A i \in 1..4 : TIERS[i] \in Int
    BY DEF TIERS
  <2>2. QED  BY <2>1
<1>7. tier \in Int /\ points \div 4 \in Int
  BY DEF TIERS
<1>8. Loyalty(m, session) =
        CASE g.intent \in {"points_inquiry", "tier_status"} ->
               Answer(g, <<"tier", tier>>, toNext)
          [] g.intent = "redemption_request" ->
               Answer(g, IF points < 100 THEN "too few" ELSE "redeem", points)
          [] g.intent = "points_transfer" -> Answer(g, "transfer", points \div 4)
          [] OTHER -> Answer(g, "logged", tier)
  BY <1>1, <1>3, <1>4, <1>5, <1>6 DEF Loyalty
<1>9. /\ Loyalty(m, session).intent = g.intent
      /\ Loyalty(m, session).conf = g.conf
      /\ Loyalty(m, session).level \in Int
  <2>1. CASE g.intent \in {"points_inquiry", "tier_status"}
    <3>1. Loyalty(m, session) = Answer(g, <<"tier", tier>>, toNext)
      BY <1>8, <2>1
    <3>2. QED  BY <1>6, <3>1, Fields
  <2>2. CASE g.intent = "redemption_request"
    <3>1. \E outcome : Loyalty(m, session) = Answer(g, outcome, points)
      BY <1>8, <2>2, Zenon
    <3>2. QED  BY <3>1, Fields
  <2>3. CASE g.intent = "points_transfer"
    <3>1. Loyalty(m, session) = Answer(g, "transfer", points \div 4)
      BY <1>8, <2>3
    <3>2. QED  BY <1>7, <3>1, Fields
  <2>4. CASE g.intent \notin {"points_inquiry", "tier_status", "redemption_request",
                              "points_transfer"}
    <3>1. Loyalty(m, session) = Answer(g, "logged", tier)
      BY <1>8, <2>4
    <3>2. QED  BY <1>7, <3>1, Fields
  <2>5. QED  BY <2>1, <2>2, <2>3, <2>4
<1>10. QED  BY <1>3, <1>9 DEF Steady

LEMMA ComplaintsSteady ==
  ASSUME NEW m, Readable(m), NEW ctx, NEW later, Extends(later, ctx)
  PROVE  Steady(ComplaintWords, Complaints(m, ctx), Complaints(m, later))
<1>1. PICK s \in Guesses(ComplaintWords, 97) : s = Scan(ComplaintWords, m)
  BY ScanFacts, AllWordsOK
<1>2. "safety_concern" \in Own(ComplaintWords)
  BY DEF Own, ComplaintWords, Finds
<1>3. PICK d \in Guesses(ComplaintWords, 99) :
        d = IF "danger" \in m.signs THEN [intent |-> "safety_concern", conf |-> 98] ELSE s
  <2>1. [intent |-> "safety_concern", conf |-> 98] \in Guesses(ComplaintWords, 99)
    BY <1>2 DEF Guesses
  <2>2. s \in Guesses(ComplaintWords, 99)
    BY DEF Guesses
  <2>3. QED  BY <2>1, <2>2, Zenon
<1>4. PICK r \in Guesses(ComplaintWords, 99) :
        r = Raise(d, 4, 90) /\ r.intent = d.intent /\ (d.conf <= 90 => r.conf >= d.conf)
  BY RaiseUp
<1>5. d.conf \in Int /\ r.conf \in Int /\ d.intent \in Own(ComplaintWords)
  BY DEF Guesses
<1>6. \A c : /\ Complaints(m, c).intent = d.intent
             /\ Complaints(m, c).conf = IF ~Empty(c) /\ d.conf < 85 THEN r.conf ELSE d.conf
             /\ Complaints(m, c).level = Severity(d.intent, m)
  <2> TAKE c
  <2>1. PICK h : h = IF ~Empty(c) /\ d.conf < 85 THEN r ELSE d
    OBVIOUS
  <2>2. /\ Complaints(m, c).intent = h.intent /\ Complaints(m, c).conf = h.conf
        /\ Complaints(m, c).level = Severity(h.intent, m)
    BY <1>1, <1>3, <1>4, <2>1 DEF Complaints, Answer
  <2>3. QED  BY <1>4, <2>1, <2>2
<1>7. Severity(d.intent, m) \in 1..4
  BY DEF Severity
<1>8. Empty(later) => Empty(ctx)
  BY MoreIsSaid
<1>9. QED  BY <1>4, <1>5, <1>6, <1>7, <1>8 DEF Steady

LEMMA SalesSteady ==
  ASSUME NEW m, Readable(m), NEW ctx, NEW later, Extends(later, ctx)
  PROVE  Steady(SalesWords, Sales(m, ctx), Sales(m, later))
<1>1. PICK s \in Guesses(SalesWords, 97) : s = Scan(SalesWords, m)
  BY ScanFacts, AllWordsOK
<1>2. "promo_inquiry" \in Own(SalesWords)
  BY DEF Own, SalesWords, Finds
<1>3. PICK g \in Guesses(SalesWords, 97) :
        g = IF "promo code" \in m.signs THEN [intent |-> "promo_inquiry", conf |-> 95] ELSE s
  <2>1. [intent |-> "promo_inquiry", conf |-> 95] \in Guesses(SalesWords, 97)
    BY <1>2 DEF Guesses
  <2>2. QED  BY <2>1, Zenon
<1>4. \A c : \E outcome :
        Sales(m, c) = Answer(g, outcome, IF g.intent = "upgrade_request" /\ AtRisk(c)
                                         THEN 1 ELSE 0)
  BY <1>1, <1>3 DEF Sales
<1>5. \A c : /\ Sales(m, c).intent = g.intent
             /\ Sales(m, c).conf = g.conf
             /\ Sales(m, c).level = IF g.intent = "upgrade_request" /\ AtRisk(c)
                                    THEN 1 ELSE 0
  BY <1>4 DEF Answer
<1>6. AtRisk(ctx) => AtRisk(later)
  BY MoreIsSaid DEF AtRisk
<1>7. QED  BY <1>5, <1>6 DEF Steady, Guesses

LEMMA TechnicalSteady ==
  ASSUME NEW m, Readable(m), NEW ctx, NEW later, Extends(later, ctx)
  PROVE  Steady(TechnicalWords, Technical(m, ctx), Technical(m, later))
<1>1. PICK s \in Guesses(TechnicalWords, 97) : s = Scan(TechnicalWords, m)
  BY ScanFacts, AllWordsOK
<1>2. PICK level \in 1..3 : level = IF "critical" \in m.signs THEN 3
                                   ELSE IF "many" \in m.signs THEN 2 ELSE 1
  OBVIOUS
<1> DEFINE p1 == level = 3 /\ s.intent = "service_outage"
<1>3. s \in Guesses(TechnicalWords, 99)
  BY DEF Guesses
<1>4. PICK q \in Guesses(TechnicalWords, 99) : q = IF p1 THEN Raise(s, 5, 99) ELSE s
  BY <1>3, RaiseUp
<1>5. q.conf \in Int /\ q.conf <= 99 /\ q.intent \in Own(TechnicalWords)
  BY DEF Guesses
<1>6. PICK r \in Guesses(TechnicalWords, 99) :
        r = Raise(q, 4, 99) /\ r.intent = q.intent /\ r.conf >= q.conf
  BY RaiseUp
<1>7. r.conf \in Int
  BY DEF Guesses
<1>8. \A c : /\ Technical(m, c).intent = q.intent
             /\ Technical(m, c).conf = IF Says(c, "technical-agent") THEN r.conf ELSE q.conf
             /\ Technical(m, c).level = level
  <2> TAKE c
  <2>1. PICK h : h = IF Says(c, "technical-agent") THEN r ELSE q
    OBVIOUS
  <2>2. /\ Technical(m, c).intent = h.intent /\ Technical(m, c).conf = h.conf
        /\ Technical(m, c).level = level
    BY <1>1, <1>2, <1>4, <1>6, <2>1 DEF Technical, Answer
  <2>3. QED  BY <1>6, <2>1, <2>2
<1>9. Says(ctx, "technical-agent") => Says(later, "technical-agent")
  BY MoreIsSaid
<1>10. QED  BY <1>5, <1>6, <1>7, <1>8, <1>9 DEF Steady

WordsOf(agent) ==
  CASE agent = "billing-agent" -> BillingWords
    [] agent = "fraud-detection-agent" -> FraudWords
    [] agent = "retention-agent" -> RetentionWords
    [] agent = "loyalty-agent" -> LoyaltyWords
    [] agent = "complaints-agent" -> ComplaintWords
    [] agent = "sales-agent" -> SalesWords
    [] agent = "technical-agent" -> TechnicalWords

(* A request that the assumption admits. *)
Legal(r) == r.agent \in Agents /\ Readable(r.message) /\ Seed[r.session] \in Nat

LEMMA Handlers ==
  \A session, m, c :
    /\ process("billing-agent", session, m, c) = Billing(m, c)
    /\ process("fraud-detection-agent", session, m, c) = Fraud(m, c)
    /\ process("retention-agent", session, m, c) = Retention(m, c)
    /\ process("loyalty-agent", session, m, c) = Loyalty(m, session)
    /\ process("complaints-agent", session, m, c) = Complaints(m, c)
    /\ process("sales-agent", session, m, c) = Sales(m, c)
    /\ process("technical-agent", session, m, c) = Technical(m, c)
  BY DEF process

LEMMA AllWords ==
  /\ WordsOf("billing-agent") = BillingWords
  /\ WordsOf("fraud-detection-agent") = FraudWords
  /\ WordsOf("retention-agent") = RetentionWords
  /\ WordsOf("loyalty-agent") = LoyaltyWords
  /\ WordsOf("complaints-agent") = ComplaintWords
  /\ WordsOf("sales-agent") = SalesWords
  /\ WordsOf("technical-agent") = TechnicalWords
  BY DEF WordsOf

(* With more of the session before it an agent never gives a message a      *)
(* milder level: risk of fraud, probability of churn, severity, promotions  *)
(* withheld (the boosts and penalties in orchestrator/agents/*_agent.py     *)
(* only ever go one way).                                                   *)
THEOREM MoreContextNeverMilder ==
  ASSUME NEW agent \in Agents, NEW session, Seed[session] \in Nat,
         NEW m, Readable(m), NEW ctx, NEW later, Extends(later, ctx)
  PROVE  Steady(WordsOf(agent), process(agent, session, m, ctx),
                process(agent, session, m, later))
<1>1. CASE agent = "billing-agent"
  BY <1>1, BillingSteady, Handlers, AllWords
<1>2. CASE agent = "fraud-detection-agent"
  BY <1>2, FraudSteady, Handlers, AllWords
<1>3. CASE agent = "retention-agent"
  BY <1>3, RetentionSteady, Handlers, AllWords
<1>4. CASE agent = "loyalty-agent"
  BY <1>4, LoyaltySteady, Handlers, AllWords
<1>5. CASE agent = "complaints-agent"
  BY <1>5, ComplaintsSteady, Handlers, AllWords
<1>6. CASE agent = "sales-agent"
  BY <1>6, SalesSteady, Handlers, AllWords
<1>7. CASE agent = "technical-agent"
  BY <1>7, TechnicalSteady, Handlers, AllWords
<1>8. QED  BY <1>1, <1>2, <1>3, <1>4, <1>5, <1>6, <1>7 DEF Agents

(* Words that are another agent's to say. *)
RetentionWarnings == {"billing_error", "payment_failed", "service_outage",
                      "safety_concern", "regulatory_complaint"}
SalesWarnings == {"cancellation_request", "billing_error"}

LEMMA WarningsOfOthers ==
  /\ "payment_failed" \notin Own(FraudWords)
  /\ RetentionWarnings \cap Own(RetentionWords) = {}
  /\ SalesWarnings \cap Own(SalesWords) = {}
<1>1. "payment_failed" \notin Own(FraudWords)
  BY DEF Own, FraudWords, Finds
<1>2. RetentionWarnings \cap Own(RetentionWords) = {}
  BY DEF Own, RetentionWords, Finds, RetentionWarnings
<1>3. SalesWarnings \cap Own(SalesWords) = {}
  BY DEF Own, SalesWords, Finds, SalesWarnings
<1>4. QED  BY <1>1, <1>2, <1>3

(* The context holds a warning for this agent. *)
Troubled(agent, ctx) ==
  \/ agent = "fraud-detection-agent" /\ TimesSaid(ctx, "payment_failed") >= 2
  \/ agent = "retention-agent" /\ \E s \in RetentionWarnings : Says(ctx, s)
  \/ agent = "sales-agent" /\ \E s \in SalesWarnings \cup {"complaints-agent"} : Says(ctx, s)

(* What WarningsHeeded says of an answer, and of the answer to the same out *)
(* of the blue.                                                            *)
Heeds(answer, alone) ==
  answer.level > alone.level \/ (answer.level = 95 /\ alone.level = 95)

LEMMA Heeded ==
  ASSUME NEW agent \in Agents, NEW session, NEW m, Readable(m),
         NEW ctx, IsFiniteSet(DOMAIN ctx), Troubled(agent, ctx),
         agent = "sales-agent" =>
           process(agent, session, m, ctx).intent = "upgrade_request"
  PROVE  Heeds(process(agent, session, m, ctx), process(agent, session, m, <<>>))
<1>1. Extends(ctx, <<>>) /\ Empty(<<>>)
  BY DEF Extends, Empty
<1>2. CASE agent = "fraud-detection-agent"
  <2>1. \A c : Fraud(m, c).level = Risk(m, c)
    BY Fields DEF Fraud
  <2>2. TimesSaid(ctx, "payment_failed") >= 2
    BY <1>2 DEF Troubled
  <2>3. \/ Risk(m, ctx) > Risk(m, <<>>)
        \/ Risk(m, ctx) = 95 /\ Risk(m, <<>>) = 95
    BY <1>1, <2>2, RiskFacts
  <2>4. QED  BY <1>2, <2>1, <2>3, Handlers DEF Heeds
<1>3. CASE agent = "retention-agent"
  <2>1. PICK s \in RetentionWarnings : Says(ctx, s)
    BY <1>3 DEF Troubled
  <2>2. s \in Amplifiers
    BY DEF RetentionWarnings, Amplifiers, CHURN_AMPLIFIERS
  <2>3. PICK g \in Guesses(RetentionWords, 97) : g = Scan(RetentionWords, m)
    BY ScanFacts, AllWordsOK
  <2>4. g.intent \in DOMAIN BASE_CHURN
    BY RetentionOwn DEF Guesses
  <2>5. \A c : Retention(m, c).level = Churn(g.intent, c)
    <3> TAKE c
    <3>1. PICK h : h = IF Empty(c) THEN g ELSE Raise(g, 4, 99)
      OBVIOUS
    <3>2. h.intent = g.intent
      BY <3>1 DEF Raise, Guesses
    <3>3. Retention(m, c).level = Churn(h.intent, c)
      BY <2>3, <3>1 DEF Retention, Answer
    <3>4. QED  BY <3>2, <3>3
  <2>6. Churn(g.intent, ctx) > Churn(g.intent, <<>>)
    BY <1>1, <2>1, <2>2, <2>4, ChurnFacts
  <2>7. QED  BY <1>3, <2>5, <2>6, Handlers DEF Heeds
<1>4. CASE agent = "sales-agent"
  <2>1. \A c : Sales(m, c).level = IF Sales(m, c).intent = "upgrade_request" /\ AtRisk(c)
                                  THEN 1 ELSE 0
    BY DEF Sales, Answer
  <2>2. AtRisk(ctx)
    BY <1>4 DEF Troubled, AtRisk, SalesWarnings
  <2>3. ~AtRisk(<<>>)
    BY DEF AtRisk, Says
  <2>4. Sales(m, ctx).intent = "upgrade_request"
    BY <1>4, Handlers
  <2>5. QED  BY <1>4, <2>1, <2>2, <2>3, <2>4, Handlers DEF Heeds
<1>5. QED  BY <1>2, <1>3, <1>4 DEF Troubled

-----------------------------------------------------------------------------
(* The state.                                                              *)

Intents == UNION {Own(WordsOf(agent)) : agent \in Agents}
Decisions == [agent : Agents, intent : Intents]

Begun == {c \in Calls : stage[c] # "new"}
Opened == {"ready", "answering", "done"}
Served == {"found", "creating"} \cup Opened

TypeOK ==
  /\ orchestrator \in Makers \cup {Nothing}
  /\ stage \in [Makers -> {"new", "making", "made"} \cup Served]
  /\ asked \in [Calls -> Requests \cup {Nothing}]
  /\ held \in [Makers -> Makers \cup {Nothing}]
  /\ known \in [Makers -> SUBSET Sessions]
  /\ memory \in [Makers -> [Sessions -> Seq(Decisions)]]
  /\ reply = [c \in Calls |-> reply[c]]
  /\ before \in [Makers -> SUBSET Calls]

(* What a call has got by the stage it is at.  A thread that makes an       *)
(* orchestrator began before any call was over.                             *)
Placed ==
  /\ IsFiniteSet(Begun)
  /\ \A c \in Begun : asked[c] \in Requests
  /\ \A c \in Calls : stage[c] \in Served => held[c] \in Makers /\ orchestrator # Nothing
  /\ \A c \in Calls : stage[c] \in Opened => asked[c].session \in known[held[c]]
  /\ \A t \in Makers : stage[t] = "made" => orchestrator # Nothing
  /\ \A t \in Makers : stage[t] \in {"making", "made"} => before[t] = {}
  /\ \A t \in Makers : \A c \in before[t] : stage[c] = "done"

Together(c, d) == held[c] = held[d] /\ asked[c].session = asked[d].session

(* Unless its memory was dropped, a call works with the current singleton,  *)
(* and so does every call begun when it was over; and none of these creates *)
(* its session again.                                                       *)
Shared ==
  /\ \A c \in Calls \ lost : stage[c] \in Served => held[c] = orchestrator
  /\ \A d \in Calls : stage[d] \in Served =>
       \A c \in before[d] \ lost : held[c] = held[d]
  /\ \A d \in Calls : stage[d] = "creating" => \A c \in before[d] : ~Together(c, d)

Seen(c) == memory[held[c]][asked[c].session]

FirstOf(seen, agent, n) ==
  [i \in {j \in 1..n : seen[j].agent # agent} |-> seen[i]]

Typed ==
  \A c \in Answered :
    /\ reply[c].intent \in Own(WordsOf(asked[c].agent))
    /\ reply[c].level \in Int /\ reply[c].conf \in Int

(* Every answer was made on a beginning of the session's memory. *)
Replied ==
  \A c \in Answered \ lost : \E n \in 0..Len(Seen(c)) :
    reply[c] = process(asked[c].agent, asked[c].session, asked[c].message,
                       FirstOf(Seen(c), asked[c].agent, n))

Decision(c) == [agent |-> asked[c].agent, intent |-> reply[c].intent]

(* The decision of every call that is over has a place of its own there. *)
Remembered ==
  /\ \A c \in Calls \ lost : stage[c] = "done" =>
       \E i \in DOMAIN Seen(c) : Seen(c)[i] = Decision(c)
  /\ \A c, d \in Calls \ lost :
       stage[c] = "done" /\ stage[d] = "done" /\ c # d /\ Together(c, d)
       => \E i, j \in DOMAIN Seen(c) :
            i # j /\ Seen(c)[i] = Decision(c) /\ Seen(c)[j] = Decision(d)

IInv == TypeOK /\ Placed /\ Shared /\ Typed /\ Replied /\ Remembered
        /\ LaterNeverMilder /\ WarningsHeeded

LEMMA FirstFacts ==
  ASSUME NEW seen, NEW agent, NEW k \in Nat, NEW n \in 0..k
  PROVE  /\ IsFiniteSet(DOMAIN FirstOf(seen, agent, k))
         /\ Extends(FirstOf(seen, agent, k), FirstOf(seen, agent, n))
<1>1. DOMAIN FirstOf(seen, agent, k) \subseteq 1..k
  BY DEF FirstOf
<1>2. IsFiniteSet(DOMAIN FirstOf(seen, agent, k))
  BY <1>1, FS_Interval, FS_Subset
<1>3. /\ DOMAIN FirstOf(seen, agent, n) \subseteq DOMAIN FirstOf(seen, agent, k)
      /\ \A i \in DOMAIN FirstOf(seen, agent, n) :
           FirstOf(seen, agent, k)[i] = FirstOf(seen, agent, n)[i]
  BY DEF FirstOf
<1>4. QED  BY <1>2, <1>3 DEF Extends

LEMMA FirstOfLonger ==
  ASSUME NEW D, NEW seen \in Seq(D), NEW x \in D, NEW agent, NEW n \in 0..Len(seen)
  PROVE  FirstOf(Append(seen, x), agent, n) = FirstOf(seen, agent, n)
<1>1. \A j \in 1..n : Append(seen, x)[j] = seen[j]
  OBVIOUS
<1>2. QED  BY <1>1 DEF FirstOf

(* What the request assumption says of a call that has begun. *)
LEMMA AskedIsLegal ==
  ASSUME Placed, NEW c \in Begun
  PROVE  /\ asked[c].agent \in Agents /\ Readable(asked[c].message)
         /\ Seed[asked[c].session] \in Nat /\ asked[c].session \in Sessions
  BY RequestAssumption DEF Placed, Readable, Sessions

LEMMA SeenType ==
  ASSUME TypeOK, Placed, NEW c \in Calls, stage[c] \in Served
  PROVE  /\ Seen(c) \in Seq(Decisions) /\ held[c] \in Makers
         /\ c \in Begun
<1>1. c \in Begun /\ held[c] \in Makers
  BY DEF Served, Opened, Begun, Placed
<1>2. asked[c].session \in Sessions
  BY <1>1, AskedIsLegal
<1>3. QED  BY <1>1, <1>2 DEF Seen, TypeOK

LEMMA ContextIsSeen ==
  ASSUME NEW c, Seen(c) \in Seq(Decisions)
  PROVE  Context(c) = FirstOf(Seen(c), asked[c].agent, Len(Seen(c)))
  BY DEF Context, FirstOf, Seen

LEMMA AnsweredIsServed ==
  ASSUME NEW c \in Answered
  PROVE  c \in Calls /\ stage[c] \in Served
  BY DEF Answered, Served, Opened

LEMMA InitSafe == Init => IInv
<1> SUFFICES ASSUME Init PROVE IInv
  OBVIOUS
<1>1. Begun = {} /\ Answered = {}
  BY DEF Init, Begun, Answered, Makers
<1>2. TypeOK
  BY <1>1 DEF Init, TypeOK, Makers
<1>3. Placed
  <2>1. IsFiniteSet(Begun)
    BY <1>1, FS_EmptySet
  <2>2. QED  BY <1>1, <2>1 DEF Init, Placed, Makers, Served, Opened
<1>4. Shared
  BY DEF Init, Shared, Makers, Served, Opened
<1>5. Typed /\ Replied
  BY <1>1 DEF Typed, Replied
<1>6. Remembered
  BY DEF Init, Remembered, Makers
<1>7. LaterNeverMilder /\ WarningsHeeded
  BY <1>1 DEF LaterNeverMilder, WarningsHeeded
<1>8. QED  BY <1>2, <1>3, <1>4, <1>5, <1>6, <1>7 DEF IInv

LEMMA BeginSafe ==
  ASSUME TypeOK, Placed, NEW t \in Makers, Begin(t)
  PROVE  /\ asked' \in [Calls -> Requests \cup {Nothing}]
         /\ before' \in [Makers -> SUBSET Calls]
         /\ before'[t] = {c \in Calls : stage[c] = "done"}
         /\ \A u \in Makers : u # t => before'[u] = before[u]
         /\ \A c \in Calls : c # t => asked'[c] = asked[c]
         /\ t \in Calls => asked'[t] \in Requests
<1>1. before' = [before EXCEPT ![t] = {c \in Calls : stage[c] = "done"}]
  BY DEF Begin
<1>2. CASE t = Warmer
  BY <1>1, <1>2, ThreadAssumption DEF Begin, TypeOK
<1>3. CASE t # Warmer
  <2>1. t \in Calls
    BY <1>3 DEF Makers
  <2>2. PICK r \in Requests : asked' = [asked EXCEPT ![t] = r]
    BY <1>3 DEF Begin
  <2>3. QED  BY <1>1, <2>1, <2>2 DEF TypeOK
<1>4. QED  BY <1>2, <1>3

LEMMA GetSafe ==
  ASSUME TypeOK, Placed, Shared, NEW t \in Makers, GetOrchestrator(t)
  PROVE  TypeOK' /\ Placed' /\ Shared'
<1>1. Begin(t) /\ stage[t] = "new"
  BY DEF GetOrchestrator, Begin
<1>2. PICK st \in {"making", "found", "done"} :
        /\ stage' = [stage EXCEPT ![t] = st]
        /\ st = "making" => orchestrator = Nothing /\ held' = held
        /\ st # "making" => /\ orchestrator # Nothing
                            /\ held' = [held EXCEPT ![t] = orchestrator]
        /\ st = "done" => t = Warmer
  BY DEF GetOrchestrator, Goto
<1>3. Begun' = Begun \cup ({t} \cap Calls)
  BY <1>1, <1>2 DEF Begun, TypeOK, Makers
<1>4. UNCHANGED <<orchestrator, known, memory, reply, lost>>
  BY DEF GetOrchestrator
<1>5. /\ before'[t] = {c \in Calls : stage[c] = "done"}
      /\ \A u \in Makers : u # t => before'[u] = before[u]
      /\ \A c \in Calls : c # t => asked'[c] = asked[c]
      /\ t \in Calls => asked'[t] \in Requests
  BY <1>1, BeginSafe
<1>6. /\ \A u \in Makers : u # t => stage'[u] = stage[u] /\ held'[u] = held[u]
      /\ stage'[t] = st
      /\ st # "making" => held'[t] = orchestrator
  BY <1>2 DEF TypeOK
<1>7. TypeOK'
  <2>1. stage' \in [Makers -> {"new", "making", "made"} \cup Served]
    BY <1>2 DEF TypeOK, Served, Opened
  <2>2. held' \in [Makers -> Makers \cup {Nothing}]
    BY <1>2 DEF TypeOK
  <2>3. QED  BY <1>1, <1>4, <2>1, <2>2, BeginSafe DEF TypeOK
<1>8. \A c \in Calls : stage'[c] \in Opened => c # t /\ stage[c] \in Opened
  <2>1. t \in Calls => st # "done"
    BY <1>2, ThreadAssumption
  <2>2. \A c \in Calls : stage'[c] \in Opened => c # t
    BY <1>6, <2>1 DEF Opened
  <2>3. QED  BY <1>6, <2>2 DEF Makers
<1>9. \A u \in Makers : \A c \in before'[u] : c \in Calls /\ stage[c] = "done"
  <2>1. \A u \in Makers : \A c \in before[u] : c \in Calls /\ stage[c] = "done"
    BY DEF Placed, TypeOK
  <2>2. QED  BY <1>5, <2>1
<1>10. Placed'
  <2>1. IsFiniteSet(Begun')
    <3>1. CASE t \in Calls
      <4>1. Begun' = Begun \cup {t}
        BY <1>3, <3>1
      <4>2. QED  BY <4>1, FS_AddElement DEF Placed
    <3>2. CASE t \notin Calls
      <4>1. Begun' = Begun
        BY <1>3, <3>2
      <4>2. QED  BY <4>1 DEF Placed
    <3>3. QED  BY <3>1, <3>2
  <2>2. \A c \in Begun' : asked'[c] \in Requests
    BY <1>3, <1>5 DEF Placed, Begun
  <2>3. \A c \in Calls : stage'[c] \in Served => held'[c] \in Makers /\ orchestrator # Nothing
    BY <1>2, <1>6 DEF Placed, TypeOK, Served, Opened, Makers
  <2>4. \A c \in Calls : stage'[c] \in Opened => asked'[c].session \in known[held'[c]]
    BY <1>5, <1>6, <1>8 DEF Placed, Makers
  <2>5. \A u \in Makers : stage'[u] = "made" => orchestrator # Nothing
    BY <1>6 DEF Placed
  <2>6. \A u \in Makers : stage'[u] \in {"making", "made"} => before'[u] = {}
    <3>1. orchestrator = Nothing => \A c \in Calls : stage[c] # "done"
      BY DEF Placed, Served, Opened
    <3>2. stage'[t] \in {"making", "made"} => before'[t] = {}
      BY <1>2, <1>5, <1>6, <3>1
    <3>3. QED  BY <1>5, <1>6, <3>2 DEF Placed
  <2>7. \A u \in Makers : \A c \in before'[u] : stage'[c] = "done"
    BY <1>1, <1>6, <1>9 DEF Makers
  <2>8. QED  BY <1>4, <2>1, <2>2, <2>3, <2>4, <2>5, <2>6, <2>7 DEF Placed
<1>11. Shared'
  <2>1. \A c \in Calls \ lost : stage'[c] \in Served => held'[c] = orchestrator
    BY <1>2, <1>6 DEF Shared, Served, Opened, Makers
  <2>2. ASSUME NEW d \in Calls, stage'[d] \in Served, NEW c \in before'[d] \ lost
        PROVE  held'[c] = held'[d]
    <3>1. c \in Calls /\ stage[c] = "done" /\ c # t /\ held'[c] = held[c]
      BY <1>1, <1>6, <1>9, <2>2 DEF Makers
    <3>2. CASE d = t
      <4>1. held'[d] = orchestrator
        BY <1>6, <2>2, <3>2 DEF Served, Opened
      <4>2. held[c] = orchestrator
        BY <2>2, <3>1 DEF Shared, Served, Opened
      <4>3. QED  BY <3>1, <4>1, <4>2
    <3>3. CASE d # t
      BY <1>5, <1>6, <2>2, <3>1, <3>3 DEF Shared, Makers
    <3>4. QED  BY <3>2, <3>3
  <2>3. ASSUME NEW d \in Calls, stage'[d] = "creating", NEW c \in before'[d]
        PROVE  ~Together(c, d)'
    <3>1. d # t /\ stage[d] = "creating" /\ c \in before[d]
      BY <1>2, <1>5, <1>6, <2>3 DEF Makers
    <3>2. c \in Calls /\ c # t
      BY <1>1, <1>9, <2>3 DEF Makers
    <3>3. ~Together(c, d)
      BY <3>1 DEF Shared
    <3>4. QED  BY <1>5, <1>6, <3>1, <3>2, <3>3 DEF Together, Makers
  <2>4. QED  BY <1>4, <2>1, <2>2, <2>3 DEF Shared
<1>12. QED  BY <1>7, <1>10, <1>11

LEMMA PublishSafe ==
  ASSUME TypeOK, Placed, Shared, NEW t \in Makers, Publish(t)
  PROVE  TypeOK' /\ Placed' /\ Shared'
<1>1. /\ stage[t] = "making" /\ orchestrator' = t /\ stage' = [stage EXCEPT ![t] = "made"]
      /\ lost' = lost \cup {c \in {d \in Calls : held[d] # Nothing /\ held[d] = orchestrator} :
                              c \notin before[t]}
      /\ UNCHANGED <<asked, held, known, memory, reply, before>>
  BY DEF Publish, Goto, Drop
<1>2. Begun' = Begun
  BY <1>1 DEF Begun, TypeOK, Makers
<1>3. TypeOK'
  BY <1>1, <1>2 DEF TypeOK
<1>4. /\ stage'[t] = "made" /\ t # Nothing
      /\ \A u \in Makers : u # t => stage'[u] = stage[u]
  BY <1>1, ThreadAssumption DEF TypeOK, Makers
<1>5. /\ \A c \in Calls : stage'[c] \in Served => stage[c] \in Served /\ c # t
      /\ \A c \in Calls : stage'[c] \in Opened => stage[c] \in Opened
      /\ \A c \in Calls : stage[c] = "done" => stage'[c] = "done"
  BY <1>1, <1>4 DEF Served, Opened, Makers
<1>6. Placed'
  <2>1. \A u \in Makers : \A c \in before[u] : c \in Calls
    BY DEF TypeOK
  <2>2. \A u \in Makers : stage'[u] \in {"making", "made"} => before[u] = {}
    BY <1>1, <1>4 DEF Placed
  <2>3. QED  BY <1>1, <1>2, <1>4, <1>5, <2>1, <2>2 DEF Placed
<1>7. Shared'
  <2>1. before[t] = {}
    BY <1>1 DEF Placed
  <2>2. \A c \in Calls : stage[c] \in Served => c \in lost'
    <3> SUFFICES ASSUME NEW c \in Calls, stage[c] \in Served, c \notin lost
                 PROVE  c \in lost'
      BY <1>1
    <3>1. held[c] \in Makers /\ held[c] = orchestrator
      BY DEF Placed, Shared
    <3>2. held[c] # Nothing
      BY <3>1, ThreadAssumption DEF Makers
    <3>3. QED  BY <1>1, <2>1, <3>1, <3>2
  <2>3. lost \subseteq lost'
    BY <1>1
  <2>4. \A d \in Calls : stage'[d] \in Served =>
          stage[d] \in Served /\ (stage'[d] = "creating" => stage[d] = "creating")
    BY <1>4, <1>5 DEF Makers
  <2>5. \A c, d : Together(c, d)' <=> Together(c, d)
    BY <1>1 DEF Together
  <2>6. "creating" \in Served
    BY DEF Served
  <2>7. QED  BY <1>1, <2>2, <2>3, <2>4, <2>5, <2>6 DEF Shared
<1>8. QED  BY <1>3, <1>6, <1>7

LEMMA TakeCurrentSafe ==
  ASSUME TypeOK, Placed, Shared, NEW t \in Makers, TakeCurrent(t)
  PROVE  TypeOK' /\ Placed' /\ Shared'
<1>1. PICK st \in {"found", "done"} :
        /\ stage[t] = "made" /\ held' = [held EXCEPT ![t] = orchestrator]
        /\ stage' = [stage EXCEPT ![t] = st]
        /\ st = "done" => t = Warmer
        /\ UNCHANGED <<orchestrator, asked, known, memory, reply, before, lost>>
  BY DEF TakeCurrent, Goto
<1>2. Begun' = Begun
  BY <1>1 DEF Begun, TypeOK, Makers
<1>3. orchestrator \in Makers /\ orchestrator # Nothing
  BY <1>1 DEF Placed, TypeOK
<1>4. /\ \A u \in Makers : u # t => stage'[u] = stage[u] /\ held'[u] = held[u]
      /\ stage'[t] = st /\ held'[t] = orchestrator
  BY <1>1 DEF TypeOK
<1>5. TypeOK'
  <2>1. stage' \in [Makers -> {"new", "making", "made"} \cup Served]
    BY <1>1 DEF TypeOK, Served, Opened
  <2>2. held' \in [Makers -> Makers \cup {Nothing}]
    BY <1>1 DEF TypeOK
  <2>3. QED  BY <1>1, <1>2, <2>1, <2>2 DEF TypeOK
<1>6. \A u \in Makers : \A c \in before[u] : c \in Calls /\ stage[c] = "done" /\ c # t
  BY <1>1 DEF Placed, TypeOK
<1>7. \A c \in Calls : stage'[c] \in Opened => c # t /\ stage[c] \in Opened
  BY <1>1, <1>4, ThreadAssumption DEF Opened, Makers
<1>8. Placed'
  <2>1. \A c \in Calls : stage'[c] \in Served => held'[c] \in Makers
    BY <1>3, <1>4 DEF Placed, Makers
  <2>2. \A c \in Calls : stage'[c] \in Opened => asked[c].session \in known[held'[c]]
    BY <1>4, <1>7 DEF Placed, Makers
  <2>3. \A u \in Makers : stage'[u] \in {"making", "made"} => before[u] = {}
    BY <1>1, <1>4 DEF Placed
  <2>4. \A u \in Makers : \A c \in before[u] : stage'[c] = "done"
    BY <1>4, <1>6 DEF Makers
  <2>5. QED  BY <1>1, <1>2, <1>3, <2>1, <2>2, <2>3, <2>4 DEF Placed
<1>9. Shared'
  <2>1. \A c \in Calls \ lost : stage'[c] \in Served => held'[c] = orchestrator
    BY <1>4 DEF Shared, Makers
  <2>2. ASSUME NEW d \in Calls, stage'[d] \in Served, NEW c \in before[d] \ lost
        PROVE  held'[c] = held'[d]
    <3>1. before[t] = {}
      BY <1>1 DEF Placed
    <3>2. d # t /\ c \in Calls /\ c # t
      BY <1>6, <2>2, <3>1 DEF Makers
    <3>3. QED  BY <1>4, <2>2, <3>2 DEF Shared, Makers
  <2>3. ASSUME NEW d \in Calls, stage'[d] = "creating", NEW c \in before[d]
        PROVE  ~Together(c, d)'
    <3>1. d # t /\ stage[d] = "creating" /\ c \in Calls /\ c # t
      BY <1>1, <1>4, <1>6, <2>3 DEF Makers
    <3>2. ~Together(c, d)
      BY <2>3, <3>1 DEF Shared
    <3>3. QED  BY <1>1, <1>4, <3>1, <3>2 DEF Together, Makers
  <2>4. QED  BY <1>1, <2>1, <2>2, <2>3 DEF Shared
<1>10. QED  BY <1>5, <1>8, <1>9

LEMMA FindSafe ==
  ASSUME TypeOK, Placed, Shared, NEW c \in Calls, FindSession(c)
  PROVE  TypeOK' /\ Placed' /\ Shared'
<1>1. PICK st \in {"ready", "creating"} :
        /\ stage[c] = "found" /\ stage' = [stage EXCEPT ![c] = st]
        /\ st = "ready" <=> asked[c].session \in known[held[c]]
        /\ UNCHANGED <<orchestrator, asked, held, known, memory, reply, before, lost>>
  BY DEF FindSession, Goto, SessionKnown
<1>2. Begun' = Begun
  BY <1>1 DEF Begun, TypeOK, Makers
<1>3. /\ \A u \in Makers : u # c => stage'[u] = stage[u]
      /\ c \in Makers /\ stage'[c] = st
  BY <1>1 DEF TypeOK, Makers
<1>4. TypeOK'
  <2>1. stage' \in [Makers -> {"new", "making", "made"} \cup Served]
    BY <1>1 DEF TypeOK, Served, Opened
  <2>2. QED  BY <1>1, <1>2, <2>1 DEF TypeOK
<1>5. \A u \in Makers : \A e \in before[u] : e \in Calls /\ stage[e] = "done" /\ e # c
  BY <1>1 DEF Placed, TypeOK
<1>6. Placed'
  <2>1. \A e \in Calls : stage'[e] \in Served => stage[e] \in Served
    BY <1>1, <1>3 DEF Served, Makers
  <2>2. \A e \in Calls : stage'[e] \in Opened => asked[e].session \in known[held[e]]
    BY <1>1, <1>3 DEF Placed, Makers, Opened
  <2>3. \A u \in Makers : stage'[u] \in {"making", "made"} => stage[u] = stage'[u]
    BY <1>1, <1>3
  <2>4. \A u \in Makers : \A e \in before[u] : stage'[e] = "done"
    BY <1>3, <1>5 DEF Makers
  <2>5. QED  BY <1>1, <1>2, <2>1, <2>2, <2>3, <2>4 DEF Placed
<1>7. Shared'
  <2>1. \A d \in Calls : stage'[d] \in Served => stage[d] \in Served
    BY <1>1, <1>3 DEF Served, Makers
  <2>2. ASSUME NEW d \in Calls, stage'[d] = "creating", NEW e \in before[d]
        PROVE  ~Together(e, d)
    <3>1. CASE d = c
      <4>1. asked[e].session \in known[held[e]]
        BY <1>5, <2>2 DEF Placed, Opened, Makers
      <4>2. asked[c].session \notin known[held[c]]
        BY <1>1, <1>3, <2>2, <3>1
      <4>3. QED  BY <3>1, <4>1, <4>2 DEF Together
    <3>2. CASE d # c
      BY <1>3, <2>2, <3>2 DEF Shared, Makers
    <3>3. QED  BY <3>1, <3>2
  <2>3. \A e, d : Together(e, d)' <=> Together(e, d)
    BY <1>1 DEF Together
  <2>4. QED  BY <1>1, <2>1, <2>2, <2>3 DEF Shared
<1>8. QED  BY <1>4, <1>6, <1>7

LEMMA CreateSafe ==
  ASSUME TypeOK, Placed, Shared, NEW c \in Calls, CreateSession(c)
  PROVE  TypeOK' /\ Placed' /\ Shared'
<1>1. /\ stage[c] = "creating" /\ stage' = [stage EXCEPT ![c] = "ready"]
      /\ known' = [known EXCEPT ![held[c]] = @ \cup {asked[c].session}]
      /\ memory' = [memory EXCEPT ![held[c]][asked[c].session] = <<>>]
      /\ lost \subseteq lost'
      /\ UNCHANGED <<orchestrator, asked, held, reply, before>>
  BY DEF CreateSession, Goto, Drop
<1>2. Begun' = Begun
  BY <1>1 DEF Begun, TypeOK, Makers
<1>3. /\ \A u \in Makers : u # c => stage'[u] = stage[u]
      /\ c \in Makers /\ stage'[c] = "ready"
  BY <1>1 DEF TypeOK, Makers
<1>4. held[c] \in Makers /\ asked[c].session \in Sessions
  <2>1. c \in Begun /\ held[c] \in Makers
    BY <1>1 DEF Begun, Placed, Served
  <2>2. QED  BY <2>1, AskedIsLegal
<1>5. TypeOK'
  <2>1. stage' \in [Makers -> {"new", "making", "made"} \cup Served]
    BY <1>1 DEF TypeOK, Served, Opened
  <2>2. known' \in [Makers -> SUBSET Sessions]
    BY <1>1, <1>4 DEF TypeOK
  <2>3. memory' \in [Makers -> [Sessions -> Seq(Decisions)]]
    <3>1. <<>> \in Seq(Decisions)
      OBVIOUS
    <3>2. QED  BY <1>1, <1>4, <3>1 DEF TypeOK
  <2>4. QED  BY <1>1, <1>2, <2>1, <2>2, <2>3 DEF TypeOK
<1>6. Placed'
  <2>1. \A e \in Calls : stage'[e] \in Served => stage[e] \in Served
    BY <1>1, <1>3 DEF Served, Makers
  <2>2. \A u \in Makers : known[u] \subseteq known'[u]
    BY <1>1 DEF TypeOK
  <2>3. asked[c].session \in known'[held[c]]
    BY <1>1, <1>4 DEF TypeOK
  <2>4. ASSUME NEW e \in Calls, stage'[e] \in Opened
        PROVE  asked[e].session \in known'[held[e]]
    <3>1. CASE e = c
      BY <2>3, <3>1
    <3>2. CASE e # c
      <4>1. stage[e] \in Opened /\ stage[e] \in Served
        BY <1>3, <2>4, <3>2 DEF Served, Makers
      <4>2. held[e] \in Makers /\ asked[e].session \in known[held[e]]
        BY <4>1 DEF Placed
      <4>3. QED  BY <2>2, <4>2
    <3>3. QED  BY <3>1, <3>2
  <2>5. \A u \in Makers : stage'[u] \in {"making", "made"} => stage[u] = stage'[u]
    BY <1>1, <1>3
  <2>6. \A u \in Makers : \A e \in before[u] : stage'[e] = "done"
    BY <1>1, <1>3 DEF Makers, Placed, TypeOK
  <2>7. QED  BY <1>1, <1>2, <2>1, <2>4, <2>5, <2>6 DEF Placed
<1>7. Shared'
  <2>1. \A d \in Calls : stage'[d] \in Served => stage[d] \in Served
    BY <1>1, <1>3 DEF Served, Makers
  <2>2. \A d \in Calls : stage'[d] = "creating" => stage[d] = "creating"
    BY <1>3 DEF Makers
  <2>3. \A e, d : Together(e, d)' <=> Together(e, d)
    BY <1>1 DEF Together
  <2>4. QED  BY <1>1, <2>1, <2>2, <2>3 DEF Shared
<1>8. QED  BY <1>5, <1>6, <1>7

(* The steps before a call is ready leave alone what the answered calls     *)
(* hold and asked, and the memory of those that do not lose theirs.         *)
Quiet ==
  /\ reply' = reply /\ lost \subseteq lost' /\ Answered' = Answered
  /\ \A c \in Calls : stage'[c] = "done" <=> stage[c] = "done"
  /\ \A c \in Answered :
       /\ held'[c] = held[c] /\ asked'[c] = asked[c] /\ before'[c] = before[c]
       /\ c \notin lost' => Seen(c)' = Seen(c)

(* What a call was told of, whatever its own agent makes of it. *)
Alarmed(d) ==
  \/ /\ asked[d].agent = "fraud-detection-agent"
     /\ Cardinality(Heard(d, {"payment_failed"})) >= 2
  \/ asked[d].agent = "retention-agent" /\ Heard(d, RetentionWarnings) # {}
  \/ asked[d].agent = "sales-agent" /\ ToldAtRisk(d)

LEMMA WarnedIs ==
  ASSUME NEW d
  PROVE  Warned(d) <=> /\ Alarmed(d)
                       /\ asked[d].agent = "sales-agent" => reply[d].intent = "upgrade_request"
<1>1. BillingTrouble \cup {"service_outage", "safety_concern", "regulatory_complaint"}
        = RetentionWarnings
  BY DEF BillingTrouble, RetentionWarnings
<1>2. QED  BY <1>1 DEF Warned, Alarmed

(* What a call was told is what was there when it began, or less. *)
LEMMA AlarmedStays ==
  ASSUME Placed, TypeOK, NEW d \in Calls,
         asked'[d] = asked[d], before'[d] = before[d], lost \subseteq lost',
         \A c \in Answered : asked'[c] = asked[c],
         \A c \in Calls : stage[c] = "done" => reply'[c] = reply[c],
         Alarmed(d)'
  PROVE  Alarmed(d)
<1>1. \A c \in before[d] : c \in Answered /\ stage[c] = "done" /\ c \in Calls
  BY DEF Answered, Placed, TypeOK, Makers
<1>2. Told(d)' \subseteq Told(d)
  BY <1>1 DEF Told
<1>3. \A c \in Told(d)' : asked'[c] = asked[c] /\ reply'[c] = reply[c]
  <2>1. \A c \in Told(d)' : c \in Answered /\ stage[c] = "done" /\ c \in Calls
    BY <1>1, <1>2 DEF Told
  <2>2. QED  BY <2>1
<1>4. \A words : Heard(d, words)' \subseteq Heard(d, words)
  BY <1>2, <1>3 DEF Heard
<1>5. ToldAtRisk(d)' => ToldAtRisk(d)
  BY <1>2, <1>3, <1>4 DEF ToldAtRisk, LeavingTrouble
<1>6. Cardinality(Heard(d, {"payment_failed"})') >= 2
      => Cardinality(Heard(d, {"payment_failed"})) >= 2
  <2>1. Heard(d, {"payment_failed"}) \subseteq Begun
    BY <1>1 DEF Heard, Told, Begun
  <2>2. IsFiniteSet(Heard(d, {"payment_failed"}))
    BY <2>1, FS_Subset DEF Placed
  <2>3. Heard(d, {"payment_failed"})' \in SUBSET Heard(d, {"payment_failed"})
    BY <1>4
  <2>4. PICK more, less : more = Heard(d, {"payment_failed"}) /\ less = Heard(d, {"payment_failed"})'
    OBVIOUS
  <2>5. /\ Cardinality(less) <= Cardinality(more)
        /\ Cardinality(less) \in Nat /\ Cardinality(more) \in Nat
    BY <2>2, <2>3, <2>4, FS_Subset, FS_CardinalityType
  <2>6. QED  BY <2>4, <2>5
<1>7. Heard(d, RetentionWarnings)' # {} => Heard(d, RetentionWarnings) # {}
  BY <1>4 DEF RetentionWarnings
<1>8. QED  BY <1>5, <1>6, <1>7 DEF Alarmed

LEMMA WarnedThen ==
  ASSUME NEW d, Warned(d)'
  PROVE  Alarmed(d)' /\ (asked'[d].agent = "sales-agent" => reply'[d].intent = "upgrade_request")
<1>1. BillingTrouble \cup {"service_outage", "safety_concern", "regulatory_complaint"}
        = RetentionWarnings
  BY DEF BillingTrouble, RetentionWarnings
<1>2. QED  BY <1>1 DEF Warned, Alarmed, RetentionWarnings, BillingTrouble

LEMMA WarnedStays ==
  ASSUME Placed, TypeOK, NEW d \in Calls,
         asked'[d] = asked[d], before'[d] = before[d], lost \subseteq lost',
         \A c \in Answered : asked'[c] = asked[c],
         \A c \in Calls : stage[c] = "done" => reply'[c] = reply[c],
         reply'[d] = reply[d], Warned(d)'
  PROVE  Warned(d)
<1>1. Alarmed(d)' /\ (asked'[d].agent = "sales-agent" => reply'[d].intent = "upgrade_request")
  BY WarnedThen
<1>2. Alarmed(d)
  BY <1>1, AlarmedStays
<1>3. asked[d].agent = "sales-agent" => reply[d].intent = "upgrade_request"
  BY <1>1
<1>4. Warned(d) <=> /\ Alarmed(d)
                    /\ asked[d].agent = "sales-agent" => reply[d].intent = "upgrade_request"
  BY WarnedIs
<1>5. QED  BY <1>2, <1>3, <1>4

LEMMA QuietSafe ==
  ASSUME IInv, Quiet
  PROVE  Typed' /\ Replied' /\ Remembered' /\ LaterNeverMilder' /\ WarningsHeeded'
<1>1. /\ TypeOK /\ Placed /\ Typed /\ Replied /\ Remembered
      /\ LaterNeverMilder /\ WarningsHeeded
  BY DEF IInv
<1>2. \A c \in Answered : Decision(c)' = Decision(c) /\ (c \notin lost' => Seen(c)' = Seen(c))
  BY DEF Quiet, Decision
<1>3. \A c \in Calls : stage[c] = "done" => c \in Answered
  BY DEF Answered
<1>4. Typed'
  <2> SUFFICES ASSUME NEW c \in Answered'
               PROVE  /\ reply'[c].intent \in Own(WordsOf(asked'[c].agent))
                      /\ reply'[c].level \in Int /\ reply'[c].conf \in Int
    BY DEF Typed
  <2>1. c \in Answered /\ asked'[c] = asked[c] /\ reply'[c] = reply[c]
    BY DEF Quiet
  <2>2. QED  BY <1>1, <2>1 DEF Typed
<1>5. Replied'
  <2> SUFFICES ASSUME NEW c \in Answered', c \notin lost'
               PROVE  \E n \in 0..Len(Seen(c)') :
                        reply'[c] = process(asked'[c].agent, asked'[c].session, asked'[c].message,
                                            FirstOf(Seen(c)', asked'[c].agent, n))
    BY DEF Replied
  <2>1. /\ c \in Answered \ lost /\ asked'[c] = asked[c] /\ Seen(c)' = Seen(c)
        /\ reply'[c] = reply[c]
    BY <1>2 DEF Quiet
  <2>2. QED  BY <1>1, <2>1 DEF Replied
<1>6. Remembered'
  <2>1. ASSUME NEW c \in Calls, c \notin lost', stage'[c] = "done"
        PROVE  \E i \in DOMAIN Seen(c)' : Seen(c)'[i] = Decision(c)'
    <3>1. stage[c] = "done" /\ c \notin lost
      BY <2>1 DEF Quiet
    <3>2. Seen(c)' = Seen(c) /\ Decision(c)' = Decision(c)
      BY <1>2, <1>3, <2>1, <3>1
    <3>3. QED  BY <1>1, <3>1, <3>2 DEF Remembered
  <2>2. ASSUME NEW c \in Calls, NEW d \in Calls, c \notin lost', d \notin lost',
               stage'[c] = "done", stage'[d] = "done", c # d, Together(c, d)'
        PROVE  \E i, j \in DOMAIN Seen(c)' :
                 i # j /\ Seen(c)'[i] = Decision(c)' /\ Seen(c)'[j] = Decision(d)'
    <3>1. stage[c] = "done" /\ stage[d] = "done" /\ c \notin lost /\ d \notin lost
      BY <2>2 DEF Quiet
    <3>2. /\ Seen(c)' = Seen(c) /\ Decision(c)' = Decision(c) /\ Decision(d)' = Decision(d)
          /\ held'[c] = held[c] /\ held'[d] = held[d]
          /\ asked'[c] = asked[c] /\ asked'[d] = asked[d]
      BY <1>2, <1>3, <2>2, <3>1 DEF Quiet
    <3>3. Together(c, d)
      BY <2>2, <3>2 DEF Together
    <3>4. QED  BY <1>1, <2>2, <3>1, <3>2, <3>3 DEF Remembered
  <2>3. QED  BY <2>1, <2>2 DEF Remembered
<1>7. LaterNeverMilder'
  BY <1>1 DEF LaterNeverMilder, Quiet
<1>8. WarningsHeeded'
  <2> SUFFICES ASSUME NEW d \in Answered', Warned(d)'
               PROVE  Heeds(reply'[d], process(asked'[d].agent, asked'[d].session,
                                               asked'[d].message, <<>>))
    BY DEF WarningsHeeded, Heeds
  <2>1. /\ d \in Answered /\ d \in Calls
        /\ asked'[d] = asked[d] /\ before'[d] = before[d] /\ reply'[d] = reply[d]
    BY DEF Quiet, Answered
  <2>2. Warned(d)
    BY <1>1, <2>1, WarnedStays DEF Quiet
  <2>3. QED  BY <1>1, <2>1, <2>2 DEF WarningsHeeded, Heeds
<1>9. QED  BY <1>4, <1>5, <1>6, <1>7, <1>8

Before(t) == GetOrchestrator(t) \/ Publish(t) \/ TakeCurrent(t)

LEMMA GetSteps ==
  ASSUME IInv, NEW t \in Makers, Before(t)
  PROVE  IInv'
<1>1. TypeOK /\ Placed /\ Shared
  BY DEF IInv
<1>2. TypeOK' /\ Placed' /\ Shared'
  BY <1>1, GetSafe, PublishSafe, TakeCurrentSafe DEF Before
<1>3. PICK st \in {"making", "made", "found", "done"} :
        /\ stage' = [stage EXCEPT ![t] = st]
        /\ st = "done" => t = Warmer
  BY DEF Before, GetOrchestrator, Publish, TakeCurrent, Goto
<1>4. stage[t] \in {"new", "making", "made"}
  BY DEF Before, GetOrchestrator, Begin, Publish, TakeCurrent
<1>5. /\ Answered' = Answered
      /\ \A c \in Calls : stage'[c] = "done" <=> stage[c] = "done"
  BY <1>1, <1>3, <1>4, ThreadAssumption DEF Answered, TypeOK, Makers
<1>6. memory' = memory /\ reply' = reply /\ lost \subseteq lost'
  BY DEF Before, GetOrchestrator, Publish, TakeCurrent, Drop
<1>7. \A c \in Answered : c # t /\ c \in Calls /\ c \in Makers
  BY <1>4 DEF Answered, Makers
<1>8. \A c \in Answered :
        held'[c] = held[c] /\ asked'[c] = asked[c] /\ before'[c] = before[c]
  <2>1. CASE GetOrchestrator(t)
    <3>1. \A c \in Answered : asked'[c] = asked[c] /\ before'[c] = before[c]
      BY <1>1, <1>7, <2>1, BeginSafe DEF GetOrchestrator
    <3>2. \A c \in Answered : held'[c] = held[c]
      BY <1>1, <1>7, <2>1 DEF GetOrchestrator, TypeOK
    <3>3. QED  BY <3>1, <3>2
  <2>2. CASE Publish(t)
    BY <2>2 DEF Publish
  <2>3. CASE TakeCurrent(t)
    BY <1>1, <1>7, <2>3 DEF TakeCurrent, TypeOK
  <2>4. QED  BY <2>1, <2>2, <2>3 DEF Before
<1>9. Quiet
  BY <1>5, <1>6, <1>8 DEF Quiet, Seen
<1>10. QED  BY <1>2, <1>9, QuietSafe DEF IInv

(* A session created again takes its decisions from those only who were     *)
(* answered while its creator was under way.                                *)
LEMMA SessionSteps ==
  ASSUME IInv, NEW t \in Calls, FindSession(t) \/ CreateSession(t)
  PROVE  IInv'
<1>1. TypeOK /\ Placed /\ Shared
  BY DEF IInv
<1>2. TypeOK' /\ Placed' /\ Shared'
  BY <1>1, FindSafe, CreateSafe
<1>3. PICK st \in {"ready", "creating"} : stage' = [stage EXCEPT ![t] = st]
  BY DEF FindSession, CreateSession, Goto
<1>4. stage[t] \in {"found", "creating"}
  BY DEF FindSession, CreateSession
<1>5. /\ Answered' = Answered
      /\ \A c \in Calls : stage'[c] = "done" <=> stage[c] = "done"
  BY <1>1, <1>3, <1>4 DEF Answered, TypeOK, Makers
<1>6. UNCHANGED <<reply, held, asked, before>> /\ lost \subseteq lost'
  BY DEF FindSession, CreateSession, Drop
<1>7. ASSUME NEW c \in Answered, c \notin lost' PROVE Seen(c)' = Seen(c)
  <2>1. CASE FindSession(t)
    BY <2>1 DEF FindSession, Seen
  <2>2. CASE CreateSession(t)
    <3>1. /\ stage[t] = "creating"
          /\ memory' = [memory EXCEPT ![held[t]][asked[t].session] = <<>>]
          /\ lost' = lost \cup {d \in {e \in Answered : Together(e, t)} : d \notin before[t]}
      BY <2>2 DEF CreateSession, Drop, Together
    <3>2. ~Together(c, t)
      BY <1>1, <1>7, <3>1 DEF Shared
    <3>3. /\ held[c] \in Makers /\ asked[c].session \in Sessions
          /\ held[t] \in Makers /\ asked[t].session \in Sessions
      <4>1. stage[c] \in Served /\ stage[t] \in Served /\ c \in Calls
        BY <3>1, AnsweredIsServed DEF Served
      <4>2. c \in Begun /\ t \in Begun /\ held[c] \in Makers /\ held[t] \in Makers
        BY <1>1, <4>1, SeenType
      <4>3. QED  BY <1>1, <4>2, AskedIsLegal
    <3>4. QED  BY <1>1, <1>6, <3>1, <3>2, <3>3 DEF Seen, Together, TypeOK
  <2>3. QED  BY <2>1, <2>2
<1>8. Quiet
  BY <1>5, <1>6, <1>7 DEF Quiet
<1>9. QED  BY <1>2, <1>8, QuietSafe DEF IInv

(* A call that was warned finds the warnings in its context. *)
LEMMA WarningsAreSeen ==
  ASSUME IInv, NEW d \in Calls, stage[d] = "ready", Alarmed(d)
  PROVE  Troubled(asked[d].agent, Context(d))
<1>1. TypeOK /\ Placed /\ Shared /\ Typed /\ Replied /\ Remembered
  BY DEF IInv
<1> DEFINE seen == Seen(d)
           agent == asked[d].agent
           ctx == FirstOf(seen, agent, Len(seen))
<1>2. Seen(d) \in Seq(Decisions) /\ d \in Begun
  BY <1>1, SeenType DEF Served, Opened
<1>3. Context(d) = ctx
  BY <1>2, ContextIsSeen
<1>4. \A i \in DOMAIN seen : seen[i].agent # agent => i \in DOMAIN ctx /\ ctx[i] = seen[i]
  BY <1>2 DEF FirstOf
<1>5. \A e \in Told(d) :
        /\ e \in Begun /\ e \in Calls \ lost /\ stage[e] = "done"
        /\ Together(e, d) /\ Seen(e) = seen
  <2> SUFFICES ASSUME NEW e \in Told(d)
               PROVE  /\ e \in Begun /\ e \in Calls \ lost /\ stage[e] = "done"
                      /\ Together(e, d) /\ Seen(e) = seen
    OBVIOUS
  <2>1. e \in before[d] \ lost /\ asked[e].session = asked[d].session
    BY DEF Told
  <2>2. e \in Calls /\ stage[e] = "done"
    BY <1>1, <2>1 DEF TypeOK, Placed, Makers
  <2>3. held[e] = held[d]
    BY <1>1, <2>1 DEF Shared, Served, Opened
  <2>4. QED  BY <2>1, <2>2, <2>3 DEF Together, Begun, Seen
<1>6. \A e \in Told(d) :
        /\ \E i \in DOMAIN seen : seen[i] = Decision(e)
        /\ reply[e].intent \in Own(WordsOf(asked[e].agent))
  BY <1>1, <1>5 DEF Remembered, Typed, Answered
<1> HIDE DEF seen, ctx
<1>7. \A e \in Told(d) : asked[e].agent # agent =>
        Says(ctx, asked[e].agent) /\ Says(ctx, reply[e].intent)
  BY <1>4, <1>6 DEF Says, Decision
<1> HIDE DEF agent
<1>8. CASE agent = "fraud-detection-agent"
  <2> DEFINE found == Heard(d, {"payment_failed"})
  <2>1. Cardinality(found) >= 2
    BY <1>8 DEF Alarmed, agent
  <2>2. IsFiniteSet(found) /\ found = {c \in Told(d) : reply[c].intent = "payment_failed"}
    BY <1>1, <1>5, FS_Subset DEF Placed, Heard
  <2>3. \E e, f \in found : e # f
    <3> HIDE DEF found
    <3>1. found # {}
      BY <2>1, FS_EmptySet
    <3>2. PICK e \in found : TRUE
      BY <3>1
    <3>3. Cardinality(found \ {e}) = Cardinality(found) - 1 /\ Cardinality(found) \in Nat
      BY <2>2, FS_RemoveElement, FS_CardinalityType
    <3>4. Cardinality(found \ {e}) # 0
      BY <2>1, <3>3
    <3>5. found \ {e} # {}
      BY <3>4, FS_EmptySet
    <3>6. QED  BY <3>5
  <2>4. PICK e \in found, f \in found : e # f
    BY <2>3
  <2>5. /\ asked[e].agent # agent /\ asked[f].agent # agent
        /\ reply[e].intent = "payment_failed" /\ reply[f].intent = "payment_failed"
    BY <1>6, <1>8, <2>2, AllWords, WarningsOfOthers
  <2>6. PICK i \in DOMAIN seen, j \in DOMAIN seen :
          i # j /\ seen[i] = Decision(e) /\ seen[j] = Decision(f)
    <3>1. \E i, j \in DOMAIN Seen(e) :
            i # j /\ Seen(e)[i] = Decision(e) /\ Seen(e)[j] = Decision(f)
      <4>1. /\ e \in Calls \ lost /\ f \in Calls \ lost /\ e # f
            /\ stage[e] = "done" /\ stage[f] = "done" /\ Together(e, f)
        BY <1>5, <2>2, <2>4 DEF Together
      <4>2. QED  BY <1>1, <4>1 DEF Remembered
    <3>2. Seen(e) = seen
      BY <1>5, <2>2
    <3>3. QED  BY <3>1, <3>2
  <2>7. i \in DOMAIN ctx /\ j \in DOMAIN ctx /\ ctx[i] = seen[i] /\ ctx[j] = seen[j]
    BY <1>4, <2>5, <2>6 DEF Decision
  <2> DEFINE at == {k \in DOMAIN ctx : ctx[k].intent = "payment_failed"}
  <2>8. {i, j} \in SUBSET at
    BY <2>5, <2>6, <2>7 DEF Decision
  <2>9. IsFiniteSet(at)
    <3>1. Len(seen) \in Nat /\ 0 \in 0..Len(seen)
      BY <1>2 DEF seen
    <3>2. IsFiniteSet(DOMAIN ctx)
      BY <3>1, FirstFacts DEF ctx
    <3>3. QED  BY <3>2, FS_Subset
  <2> HIDE DEF at
  <2>10. Cardinality({i, j}) = 2
    <3>1. IsFiniteSet({i}) /\ Cardinality({i}) = 1
      BY FS_Singleton
    <3>2. Cardinality({i} \cup {j}) = 2
      <4>1. j \notin {i}
        BY <2>6
      <4>2. Cardinality({i} \cup {j}) = Cardinality({i}) + 1
        BY <3>1, <4>1, FS_AddElement
      <4>3. QED  BY <3>1, <4>2
    <3>3. {i} \cup {j} = {i, j}
      OBVIOUS
    <3>4. QED  BY <3>2, <3>3
  <2>11. Cardinality(at) >= 2
    <3>1. Cardinality({i, j}) <= Cardinality(at) /\ Cardinality(at) \in Nat
      BY <2>8, <2>9, FS_Subset, FS_CardinalityType
    <3>2. QED  BY <2>10, <3>1
  <2>12. TimesSaid(ctx, "payment_failed") >= 2
    BY <2>11 DEF TimesSaid, at
  <2>13. QED  BY <1>3, <1>8, <2>12 DEF Troubled, agent
<1>9. CASE agent = "retention-agent"
  <2>1. PICK e \in Told(d) : reply[e].intent \in RetentionWarnings
    BY <1>9 DEF Alarmed, agent, Heard
  <2>2. asked[e].agent # agent
    BY <1>6, <1>9, <2>1, AllWords, WarningsOfOthers
  <2>3. QED  BY <1>3, <1>7, <1>9, <2>1, <2>2 DEF Troubled, agent
<1>10. CASE agent = "sales-agent"
  <2>1. CASE \E e \in Told(d) : asked[e].agent = "complaints-agent"
    BY <1>3, <1>7, <1>10, <2>1 DEF Troubled, agent
  <2>2. CASE \E e \in Told(d) : reply[e].intent \in SalesWarnings
    <3>1. PICK e \in Told(d) : reply[e].intent \in SalesWarnings
      BY <2>2
    <3>2. asked[e].agent # agent
      BY <1>6, <1>10, <3>1, AllWords, WarningsOfOthers
    <3>3. QED  BY <1>3, <1>7, <1>10, <3>1, <3>2 DEF Troubled, agent
  <2>3. QED  BY <1>10, <2>1, <2>2
              DEF Alarmed, ToldAtRisk, Heard, LeavingTrouble, agent, SalesWarnings
<1>11. QED  BY <1>8, <1>9, <1>10 DEF Alarmed, agent

LEMMA DispatchSafe ==
  ASSUME IInv, NEW c \in Calls, Dispatch(c)
  PROVE  IInv'
<1>1. /\ TypeOK /\ Placed /\ Shared /\ Typed /\ Replied /\ Remembered
      /\ LaterNeverMilder /\ WarningsHeeded
  BY DEF IInv
<1>2. /\ stage[c] = "ready" /\ stage' = [stage EXCEPT ![c] = "answering"]
      /\ reply' = [reply EXCEPT ![c] = process(asked[c].agent, asked[c].session,
                                               asked[c].message, Context(c))]
      /\ UNCHANGED <<orchestrator, asked, held, known, memory, before, lost>>
  BY DEF Dispatch, Goto
<1>3. /\ Begun' = Begun /\ Answered' = Answered \cup {c} /\ c \notin Answered
      /\ \A e \in Calls : stage'[e] = "done" <=> stage[e] = "done"
      /\ \A u \in Makers : /\ stage'[u] \in Served <=> stage[u] \in Served
                           /\ stage'[u] \in Opened <=> stage[u] \in Opened
      /\ \A u \in Makers : u # c => stage'[u] = stage[u]
  BY <1>1, <1>2 DEF TypeOK, Begun, Answered, Makers, Served, Opened
<1>4. /\ reply'[c] = process(asked[c].agent, asked[c].session, asked[c].message, Context(c))
      /\ \A e \in Calls : e # c => reply'[e] = reply[e]
      /\ reply' = [e \in Calls |-> reply'[e]]
  BY <1>1, <1>2 DEF TypeOK
<1>5. \A e \in Calls : Seen(e)' = Seen(e)
  BY <1>2 DEF Seen
<1>6. Seen(c) \in Seq(Decisions) /\ c \in Begun
  BY <1>1, <1>2, SeenType DEF Served, Opened
<1>7. TypeOK'
  <2>1. stage' \in [Makers -> {"new", "making", "made"} \cup Served]
    BY <1>1, <1>2 DEF TypeOK, Served, Opened
  <2>2. QED  BY <1>1, <1>2, <1>3, <1>4, <2>1 DEF TypeOK
<1>8. Placed'
  <2>1. \A u \in Makers : stage'[u] \in {"making", "made"} => stage[u] = stage'[u]
    BY <1>1, <1>2 DEF TypeOK
  <2>2. \A u \in Makers : \A e \in before[u] : stage'[e] = "done"
    BY <1>1, <1>3 DEF Placed, TypeOK
  <2>3. \A e \in Calls : /\ stage'[e] \in Served => stage[e] \in Served
                         /\ stage'[e] \in Opened => stage[e] \in Opened
    BY <1>3 DEF Makers
  <2>4. QED  BY <1>1, <1>2, <1>3, <2>1, <2>2, <2>3 DEF Placed
<1>9. Shared'
  <2>1. \A e \in Calls : /\ stage'[e] \in Served => stage[e] \in Served
                         /\ stage'[e] = "creating" => stage[e] = "creating"
    BY <1>1, <1>2, <1>3 DEF TypeOK, Makers
  <2>2. \A e, d : Together(e, d)' <=> Together(e, d)
    BY <1>2 DEF Together
  <2>3. QED  BY <1>1, <1>2, <2>1, <2>2 DEF Shared
<1>20. Len(Seen(c)) \in Nat /\ Context(c) = FirstOf(Seen(c), asked[c].agent, Len(Seen(c)))
  BY <1>6, ContextIsSeen
<1>21. Typed'
  <2>1. Extends(Context(c), Context(c))
    BY <1>20, FirstFacts
  <2>2. Steady(WordsOf(asked[c].agent), reply'[c], reply'[c])
    BY <1>1, <1>4, <1>6, <2>1, AskedIsLegal, MoreContextNeverMilder
  <2>3. QED  BY <1>1, <1>2, <1>3, <1>4, <2>2 DEF Typed, Steady, Answered
<1>10. Replied'
  <2> SUFFICES ASSUME NEW e \in Answered', e \notin lost
               PROVE  \E n \in 0..Len(Seen(e)) :
                        reply'[e] = process(asked[e].agent, asked[e].session, asked[e].message,
                                            FirstOf(Seen(e), asked[e].agent, n))
    BY <1>2, <1>5 DEF Replied, Answered
  <2>1. CASE e = c
    <3>1. Len(Seen(c)) \in 0..Len(Seen(c))
      BY <1>20
    <3>2. QED  BY <1>4, <1>20, <2>1, <3>1
  <2>2. CASE e # c
    <3>1. e \in Answered /\ reply'[e] = reply[e]
      BY <1>3, <1>4, <2>2 DEF Answered
    <3>2. QED  BY <1>1, <3>1 DEF Replied
  <2>3. QED  BY <2>1, <2>2
<1>11. Remembered'
  <2>1. \A e \in Calls : stage'[e] = "done" => stage[e] = "done" /\ Decision(e)' = Decision(e)
    BY <1>2, <1>3, <1>4 DEF Decision
  <2>2. ASSUME NEW e \in Calls \ lost, stage'[e] = "done"
        PROVE  \E i \in DOMAIN Seen(e)' : Seen(e)'[i] = Decision(e)'
    BY <1>1, <1>5, <2>1, <2>2 DEF Remembered
  <2>3. ASSUME NEW e \in Calls \ lost, NEW d \in Calls \ lost,
               stage'[e] = "done", stage'[d] = "done", e # d, Together(e, d)'
        PROVE  \E i, j \in DOMAIN Seen(e)' :
                 i # j /\ Seen(e)'[i] = Decision(e)' /\ Seen(e)'[j] = Decision(d)'
    <3>1. /\ stage[e] = "done" /\ stage[d] = "done"
          /\ Decision(e)' = Decision(e) /\ Decision(d)' = Decision(d)
          /\ Seen(e)' = Seen(e)
      BY <1>5, <2>1, <2>3
    <3>2. Together(e, d)
      BY <1>2, <2>3 DEF Together
    <3>3. QED  BY <1>1, <2>3, <3>1, <3>2 DEF Remembered
  <2>4. QED  BY <1>2, <2>2, <2>3 DEF Remembered
<1>12. LaterNeverMilder'
  <2> SUFFICES ASSUME NEW e \in Answered', NEW d \in Answered',
                      e \in before[d] \ lost, asked[e] = asked[d]
               PROVE  reply'[d].level >= reply'[e].level /\ reply'[d].conf >= reply'[e].conf
    BY <1>2 DEF LaterNeverMilder, Answered
  <2>1. stage[e] = "done" /\ e \in Answered /\ e \in Calls /\ d \in Calls
    BY <1>1, <1>3 DEF Placed, Answered, Makers
  <2>2. e # c /\ reply'[e] = reply[e]
    BY <1>2, <1>4, <2>1
  <2>3. CASE d = c
    <3>1. Seen(e) = Seen(c)
      BY <1>1, <1>2, <2>3 DEF Shared, Seen, Served, Opened
    <3>2. PICK n \in 0..Len(Seen(c)) :
            reply[e] = process(asked[c].agent, asked[c].session, asked[c].message,
                               FirstOf(Seen(c), asked[c].agent, n))
      BY <1>1, <2>1, <2>3, <3>1 DEF Replied
    <3>3. Extends(Context(c), FirstOf(Seen(c), asked[c].agent, n))
      BY <1>20, FirstFacts
    <3>4. Steady(WordsOf(asked[c].agent), reply[e], reply'[c])
      BY <1>1, <1>4, <1>6, <3>2, <3>3, AskedIsLegal, MoreContextNeverMilder
    <3>5. QED  BY <2>2, <2>3, <3>4 DEF Steady
  <2>4. CASE d # c
    <3>1. d \in Answered /\ reply'[d] = reply[d]
      BY <1>3, <1>4, <2>1, <2>4
    <3>2. QED  BY <1>1, <2>1, <2>2, <3>1 DEF LaterNeverMilder
  <2>5. QED  BY <2>3, <2>4
<1>13. WarningsHeeded'
  <2> SUFFICES ASSUME NEW d \in Answered', Warned(d)'
               PROVE  Heeds(reply'[d], process(asked[d].agent, asked[d].session,
                                               asked[d].message, <<>>))
    BY <1>2 DEF WarningsHeeded, Heeds, Answered
  <2>1. d \in Calls
    BY <1>3 DEF Answered
  <2>2. \A e \in Calls : stage[e] = "done" => reply'[e] = reply[e]
    BY <1>2, <1>4
  <2>3. CASE d = c
    <3>1. Alarmed(c)' /\ (asked[c].agent = "sales-agent" => reply'[c].intent = "upgrade_request")
      BY <1>2, <2>3, WarnedThen
    <3>2. Alarmed(c)
      BY <1>1, <1>2, <2>2, <3>1, AlarmedStays
    <3>3. Troubled(asked[c].agent, Context(c))
      BY <1>2, <3>2, WarningsAreSeen
    <3>4. IsFiniteSet(DOMAIN Context(c))
      <4>1. 0 \in 0..Len(Seen(c))
        BY <1>20
      <4>2. QED  BY <1>20, <4>1, FirstFacts
    <3>5. asked[c].agent \in Agents /\ Readable(asked[c].message)
      BY <1>1, <1>6, AskedIsLegal
    <3>6. QED  BY <1>4, <2>3, <3>1, <3>3, <3>4, <3>5, Heeded
  <2>4. CASE d # c
    <3>1. d \in Answered /\ reply'[d] = reply[d]
      BY <1>3, <1>4, <2>1, <2>4
    <3>2. Warned(d)
      BY <1>1, <1>2, <2>1, <2>2, <3>1, WarnedStays
    <3>3. QED  BY <1>1, <3>1, <3>2 DEF WarningsHeeded, Heeds
  <2>5. QED  BY <2>3, <2>4
<1>14. QED  BY <1>7, <1>8, <1>9, <1>10, <1>11, <1>12, <1>13, <1>21 DEF IInv

LEMMA RememberSafe ==
  ASSUME IInv, NEW c \in Calls, Remember(c)
  PROVE  IInv'
<1>1. /\ TypeOK /\ Placed /\ Shared /\ Typed /\ Replied /\ Remembered
      /\ LaterNeverMilder /\ WarningsHeeded
  BY DEF IInv
<1>2. /\ stage[c] = "answering" /\ stage' = [stage EXCEPT ![c] = "done"]
      /\ memory' = [memory EXCEPT ![held[c]][asked[c].session] = Append(@, Decision(c))]
      /\ UNCHANGED <<orchestrator, asked, held, known, reply, before, lost>>
  BY DEF Remember, Goto, Decision
<1>3. /\ Begun' = Begun /\ Answered' = Answered /\ c \in Answered
      /\ \A e \in Calls : stage'[e] = "done" <=> stage[e] = "done" \/ e = c
      /\ \A u \in Makers : /\ stage'[u] \in Served <=> stage[u] \in Served
                           /\ stage'[u] \in Opened <=> stage[u] \in Opened
  BY <1>1, <1>2 DEF TypeOK, Begun, Answered, Makers, Served, Opened
<1>4. /\ Seen(c) \in Seq(Decisions) /\ held[c] \in Makers /\ c \in Begun
      /\ asked[c].session \in Sessions /\ asked[c].agent \in Agents
  BY <1>1, <1>2, SeenType, AskedIsLegal DEF Served, Opened
<1>5. Decision(c) \in Decisions
  <2>1. reply[c].intent \in Intents
    BY <1>1, <1>3, <1>4 DEF Typed, Intents
  <2>2. QED  BY <1>4, <2>1 DEF Decision, Decisions
<1>6. \A e \in Calls : stage[e] \in Served =>
        /\ Seen(e) \in Seq(Decisions) /\ e \in Begun
        /\ Seen(e)' = IF held[e] = held[c] /\ asked[e].session = asked[c].session
                      THEN Append(Seen(e), Decision(c)) ELSE Seen(e)
  <2> SUFFICES ASSUME NEW e \in Calls, stage[e] \in Served
               PROVE  /\ Seen(e) \in Seq(Decisions) /\ e \in Begun
                      /\ Seen(e)' = IF held[e] = held[c] /\ asked[e].session = asked[c].session
                                    THEN Append(Seen(e), Decision(c)) ELSE Seen(e)
    OBVIOUS
  <2>1. /\ Seen(e) \in Seq(Decisions) /\ e \in Begun /\ held[e] \in Makers
        /\ asked[e].session \in Sessions
    BY <1>1, SeenType, AskedIsLegal
  <2>2. Seen(e)' = memory'[held[e]][asked[e].session]
    BY <1>2 DEF Seen
  <2>3. memory'[held[e]][asked[e].session] =
          IF held[e] = held[c] /\ asked[e].session = asked[c].session
          THEN Append(memory[held[e]][asked[e].session], Decision(c))
          ELSE memory[held[e]][asked[e].session]
    BY <1>1, <1>2, <1>4, <2>1 DEF TypeOK
  <2>4. QED  BY <2>1, <2>2, <2>3 DEF Seen
<1>7. TypeOK'
  <2>1. stage' \in [Makers -> {"new", "making", "made"} \cup Served]
    BY <1>1, <1>2 DEF TypeOK, Served, Opened
  <2>2. memory' \in [Makers -> [Sessions -> Seq(Decisions)]]
    <3>1. Append(memory[held[c]][asked[c].session], Decision(c)) \in Seq(Decisions)
      BY <1>4, <1>5 DEF Seen
    <3>2. QED  BY <1>1, <1>2, <1>4, <3>1 DEF TypeOK
  <2>3. QED  BY <1>1, <1>2, <1>3, <2>1, <2>2 DEF TypeOK
<1>8. Placed'
  <2>1. \A u \in Makers : stage'[u] \in {"making", "made"} => stage[u] = stage'[u]
    BY <1>1, <1>2 DEF TypeOK
  <2>2. \A u \in Makers : \A e \in before[u] : stage'[e] = "done"
    BY <1>1, <1>3 DEF Placed, TypeOK
  <2>3. \A e \in Calls : /\ stage'[e] \in Served => stage[e] \in Served
                         /\ stage'[e] \in Opened => stage[e] \in Opened
    BY <1>3 DEF Makers
  <2>4. QED  BY <1>1, <1>2, <1>3, <2>1, <2>2, <2>3 DEF Placed
<1>9. Shared'
  <2>1. \A e \in Calls : /\ stage'[e] \in Served => stage[e] \in Served
                         /\ stage'[e] = "creating" => stage[e] = "creating"
    BY <1>1, <1>2, <1>3 DEF TypeOK, Makers
  <2>2. \A e, d : Together(e, d)' <=> Together(e, d)
    BY <1>2 DEF Together
  <2>3. QED  BY <1>1, <1>2, <2>1, <2>2 DEF Shared
<1>10. Replied'
  <2> SUFFICES ASSUME NEW e \in Answered, e \notin lost
               PROVE  \E n \in 0..Len(Seen(e)') :
                        reply[e] = process(asked[e].agent, asked[e].session, asked[e].message,
                                           FirstOf(Seen(e)', asked[e].agent, n))
    BY <1>2, <1>3 DEF Replied
  <2>1. PICK n \in 0..Len(Seen(e)) :
          reply[e] = process(asked[e].agent, asked[e].session, asked[e].message,
                             FirstOf(Seen(e), asked[e].agent, n))
    BY <1>1 DEF Replied
  <2>2. /\ Seen(e) \in Seq(Decisions)
        /\ Seen(e)' = Seen(e) \/ Seen(e)' = Append(Seen(e), Decision(c))
    BY <1>6, AnsweredIsServed
  <2>3. CASE Seen(e)' = Seen(e)
    BY <2>1, <2>3
  <2>4. CASE Seen(e)' = Append(Seen(e), Decision(c))
    <3>1. FirstOf(Seen(e)', asked[e].agent, n) = FirstOf(Seen(e), asked[e].agent, n)
      BY <1>5, <2>2, <2>4, FirstOfLonger
    <3>2. n \in 0..Len(Seen(e)')
      BY <1>5, <2>2, <2>4
    <3>3. QED  BY <2>1, <3>1, <3>2
  <2>5. QED  BY <2>2, <2>3, <2>4
<1>11. Remembered'
  <2>1. \A e \in Calls : Decision(e)' = Decision(e)
    BY <1>2 DEF Decision
  <2>2. \A e \in Calls : stage'[e] = "done" => stage[e] \in Served
    BY <1>2, <1>3 DEF Served, Opened
  <2>3. ASSUME NEW e \in Calls, stage[e] \in Served
        PROVE  \A i \in DOMAIN Seen(e) : i \in DOMAIN Seen(e)' /\ Seen(e)'[i] = Seen(e)[i]
    <3>1. /\ Seen(e) \in Seq(Decisions)
          /\ Seen(e)' = Seen(e) \/ Seen(e)' = Append(Seen(e), Decision(c))
      BY <1>6, <2>3
    <3>2. QED  BY <1>5, <3>1
  <2>4. /\ Seen(c)' = Append(Seen(c), Decision(c))
        /\ Len(Seen(c)) + 1 \in DOMAIN Seen(c)'
        /\ Seen(c)'[Len(Seen(c)) + 1] = Decision(c)
    <3>1. Seen(c)' = Append(Seen(c), Decision(c))
      BY <1>2, <1>6 DEF Served, Opened
    <3>2. QED  BY <1>4, <1>5, <3>1
  <2>5. ASSUME NEW e \in Calls \ lost, stage'[e] = "done"
        PROVE  \E i \in DOMAIN Seen(e)' : Seen(e)'[i] = Decision(e)'
    <3>1. CASE e = c
      BY <2>1, <2>4, <3>1
    <3>2. CASE e # c
      <4>1. PICK i \in DOMAIN Seen(e) : Seen(e)[i] = Decision(e)
        BY <1>1, <1>3, <2>5, <3>2 DEF Remembered
      <4>2. QED  BY <2>1, <2>2, <2>3, <2>5, <4>1
    <3>3. QED  BY <3>1, <3>2
  <2>6. ASSUME NEW e \in Calls \ lost, stage[e] = "done", e # c, Together(e, c)
        PROVE  /\ Seen(e)' = Seen(c)'
               /\ \E i, j \in DOMAIN Seen(c)' :
                    i # j /\ Seen(c)'[i] = Decision(e) /\ Seen(c)'[j] = Decision(c)
    <3>1. Seen(e) = Seen(c) /\ Seen(e)' = Seen(c)'
      BY <1>2, <2>6 DEF Seen, Together
    <3>2. PICK i \in DOMAIN Seen(c) : Seen(c)[i] = Decision(e)
      BY <1>1, <2>6, <3>1 DEF Remembered
    <3>3. i \in DOMAIN Seen(c)' /\ Seen(c)'[i] = Decision(e)
      BY <1>2, <2>3, <3>2 DEF Served, Opened
    <3>4. i # Len(Seen(c)) + 1
      BY <1>4, <3>2
    <3>5. QED  BY <2>4, <3>1, <3>3, <3>4
  <2>7. ASSUME NEW e \in Calls \ lost, NEW d \in Calls \ lost,
               stage'[e] = "done", stage'[d] = "done", e # d, Together(e, d)
        PROVE  \E i, j \in DOMAIN Seen(e)' :
                 i # j /\ Seen(e)'[i] = Decision(e) /\ Seen(e)'[j] = Decision(d)
    <3>1. CASE e = c
      <4>1. stage[d] = "done" /\ d # c
        BY <1>3, <2>7, <3>1
      <4>2. QED  BY <2>6, <2>7, <3>1, <4>1 DEF Together
    <3>2. CASE d = c
      <4>1. stage[e] = "done" /\ e # c
        BY <1>3, <2>7, <3>2
      <4>2. QED  BY <2>6, <2>7, <3>2, <4>1
    <3>3. CASE e # c /\ d # c
      <4>1. stage[e] = "done" /\ stage[d] = "done"
        BY <1>3, <2>7, <3>3
      <4>2. PICK i \in DOMAIN Seen(e), j \in DOMAIN Seen(e) :
              i # j /\ Seen(e)[i] = Decision(e) /\ Seen(e)[j] = Decision(d)
        BY <1>1, <2>7, <4>1 DEF Remembered
      <4>3. QED  BY <2>3, <4>1, <4>2 DEF Served, Opened
    <3>4. QED  BY <3>1, <3>2, <3>3
  <2>8. QED  BY <1>2, <2>1, <2>5, <2>7 DEF Remembered, Together
<1>12. LaterNeverMilder'
  BY <1>1, <1>2, <1>3 DEF LaterNeverMilder
<1>13. WarningsHeeded'
  <2> SUFFICES ASSUME NEW d \in Answered, Warned(d)'
               PROVE  Heeds(reply[d], process(asked[d].agent, asked[d].session,
                                              asked[d].message, <<>>))
    BY <1>2, <1>3 DEF WarningsHeeded, Heeds
  <2>1. Warned(d)
    BY <1>1, <1>2, WarnedStays DEF Answered
  <2>2. QED  BY <1>1, <2>1 DEF WarningsHeeded, Heeds
<1>14. Typed'
  BY <1>1, <1>2, <1>3 DEF Typed
<1>15. QED  BY <1>7, <1>8, <1>9, <1>10, <1>11, <1>12, <1>13, <1>14 DEF IInv

LEMMA StutterSafe ==
  ASSUME IInv, UNCHANGED vars
  PROVE  IInv'
<1>1. UNCHANGED <<orchestrator, stage, asked, held, known, memory, reply, before, lost>>
  BY DEF vars
<1>2. TypeOK' /\ Placed' /\ Shared'
  <2>1. TypeOK /\ Placed /\ Shared
    BY DEF IInv
  <2>2. Begun' = Begun
    BY <1>1 DEF Begun
  <2>3. QED  BY <1>1, <2>1, <2>2 DEF TypeOK, Placed, Shared, Together
<1>3. Quiet
  BY <1>1 DEF Quiet, Answered, Seen
<1>4. QED  BY <1>2, <1>3, QuietSafe DEF IInv

LEMMA IInvHolds == Spec => []IInv
<1>1. Init => IInv
  BY InitSafe
<1>2. IInv /\ [Next]_vars => IInv'
  <2> SUFFICES ASSUME IInv, [Next]_vars PROVE IInv'
    OBVIOUS
  <2>1. ASSUME NEW t \in Makers, Before(t) PROVE IInv'
    BY <2>1, GetSteps
  <2>6. ASSUME NEW c \in Calls, FindSession(c) \/ CreateSession(c) PROVE IInv'
    BY <2>6, SessionSteps
  <2>2. ASSUME NEW c \in Calls, Dispatch(c) PROVE IInv'
    BY <2>2, DispatchSafe
  <2>3. ASSUME NEW c \in Calls, Remember(c) PROVE IInv'
    BY <2>3, RememberSafe
  <2>4. ASSUME UNCHANGED vars PROVE IInv'
    BY <2>4, StutterSafe
  <2>5. QED  BY <2>1, <2>2, <2>3, <2>4, <2>6 DEF Next, Before
<1>3. QED  BY <1>1, <1>2, PTL DEF Spec

(* Of two calls of a session that put the same question to an agent, the    *)
(* one that began when the other was over is not treated more mildly, for   *)
(* any calls in flight: the memory it reads holds all the other one read.   *)
(* Singleton and sessions are looked for and made without a lock            *)
(* (multi_agent_routes.py:30-76, memory_bridge.py:127-133); the only calls  *)
(* excused are those whose memory a thread dropped that had been under way  *)
(* since before they were over.                                             *)
THEOREM NeverMilder == Spec => []LaterNeverMilder
<1>1. IInv => LaterNeverMilder
  BY DEF IInv
<1>2. QED  BY <1>1, IInvHolds, PTL

(* What other agents concluded before a call began, in a memory not dropped *)
(* by a thread under way at the time, reaches the agents that heed it and   *)
(* raises their level: the fraud risk, the churn probability, and for an    *)
(* upgrade request the withheld promotion (memory_bridge.py:161-170).       *)
THEOREM HeedsWarnings == Spec => []WarningsHeeded
<1>1. IInv => WarningsHeeded
  BY DEF IInv
<1>2. QED  BY <1>1, IInvHolds, PTL
==============================================================================
