--------------------------- MODULE ResolveProofs ---------------------------
(***************************************************************************)
(* What a resolution promises, whatever Twitch answers: for any library,   *)
(* categories, aliases, words of editions and budget.  And what the walk   *)
(* of the pages of a list promises, however the list moves.                *)
(***************************************************************************)
EXTENDS Resolve, FiniteSetTheorems, WellFoundedInduction, TLAPS

\* Names as they come: one separator less than words.
Good == {n \in Name : Len(n.seps) = Len(n.words) - 1}

AllSeparators == Separators \cup {"space"}

LEMMA TitlesAreGood ==
    /\ Titles \subseteq Good
    /\ \A c \in Categories : c.name \in Good
    /\ Games \in Nat /\ IsFiniteSet(Categories)
BY ResolveAssumption DEF Good

----------------------------------------------------------------------------
(* Prefixes *)

LEMMA PrefixIsPrefix ==
    ASSUME NEW s \in Seq(STRING), NEW k \in 0..Len(s)
    PROVE  /\ SubSeq(s, 1, k) \in Seq(STRING) /\ Len(SubSeq(s, 1, k)) = k
           /\ IsPrefix(SubSeq(s, 1, k), s)
<1>1. SubSeq(s, 1, k) \in Seq(STRING) /\ Len(SubSeq(s, 1, k)) = k
  OBVIOUS
<1>2. \A i \in 1..k : SubSeq(s, 1, k)[i] = s[i]
  OBVIOUS
<1> DEFINE t == SubSeq(s, 1, k)
<1>3. SubSeq(t, 1, k) = t
  BY <1>1
<1> QED
  BY <1>1, <1>3 DEF IsPrefix

LEMMA PrefixByIndex ==
    ASSUME NEW s \in Seq(STRING), NEW t \in Seq(STRING)
    PROVE  IsPrefix(s, t) <=> Len(s) <= Len(t) /\ \A i \in 1..Len(s) : s[i] = t[i]
<1>1. SubSeq(s, 1, Len(s)) = s
  OBVIOUS
<1>2. ASSUME Len(s) <= Len(t)
      PROVE  /\ SubSeq(t, 1, Len(s)) \in Seq(STRING) /\ Len(SubSeq(t, 1, Len(s))) = Len(s)
             /\ \A i \in 1..Len(s) : SubSeq(t, 1, Len(s))[i] = t[i]
  BY <1>2
<1> QED
  BY <1>1, <1>2 DEF IsPrefix

LEMMA PrefixTransitive ==
    ASSUME NEW s \in Seq(STRING), NEW t \in Seq(STRING), NEW u \in Seq(STRING),
           IsPrefix(s, t), IsPrefix(t, u)
    PROVE  IsPrefix(s, u)
BY PrefixByIndex

LEMMA PrefixReflexive == ASSUME NEW s \in Seq(STRING) PROVE IsPrefix(s, s)
BY PrefixByIndex

LEMMA CutPrefix ==
    ASSUME NEW n \in Good, NEW k \in 1..Len(n.words)
    PROVE  /\ Cut(n, k) \in Good /\ IsPrefix(Cut(n, k).words, n.words)
<1>1. n.words \in Seq(STRING) /\ n.seps \in Seq(AllSeparators)
      /\ Len(n.seps) = Len(n.words) - 1
  BY DEF Good, Name, AllSeparators
<1>2. k - 1 \in 0..Len(n.seps)
  BY <1>1
<1>3. SubSeq(n.seps, 1, k - 1) \in Seq(AllSeparators)
      /\ Len(SubSeq(n.seps, 1, k - 1)) = k - 1
  BY <1>1, <1>2
<1>4. SubSeq(n.words, 1, k) \in Seq(STRING) /\ Len(SubSeq(n.words, 1, k)) = k
      /\ IsPrefix(SubSeq(n.words, 1, k), n.words)
  BY <1>1, PrefixIsPrefix
<1> DEFINE w == SubSeq(n.words, 1, k)
           p == SubSeq(n.seps, 1, k - 1)
           cut == [n EXCEPT !.words = w, !.seps = p]
<1> HIDE DEF w, p
<1>5. w \in Seq(STRING) /\ p \in Seq(AllSeparators)
  BY <1>3, <1>4 DEF w, p
<1>6. cut \in Name /\ cut.words = w /\ cut.seps = p
  BY <1>5 DEF Good, Name, AllSeparators
<1>7. cut = Cut(n, k)
  BY DEF Cut, w, p
<1> HIDE DEF cut
<1> QED
  BY <1>3, <1>4, <1>6, <1>7 DEF Good, w, p

LEMMA GoodLength ==
    ASSUME NEW n \in Good
    PROVE  /\ n.words \in Seq(STRING) /\ Len(n.words) \in Nat \ {0}
           /\ DOMAIN n.seps = 1..(Len(n.words) - 1)
<1>1. n.words \in Seq(STRING) /\ n.seps \in Seq(AllSeparators)
      /\ Len(n.seps) = Len(n.words) - 1
  BY DEF Good, Name, AllSeparators
<1>2. Len(n.words) \in Nat /\ Len(n.seps) \in Nat /\ DOMAIN n.seps = 1..Len(n.seps)
  BY <1>1
<1> QED
  BY <1>1, <1>2

\* A name and what is left of it.
Left(m, n) == m \in Good /\ IsPrefix(m.words, n.words)

LEMMA LeftTransitive ==
    ASSUME NEW n \in Good, NEW m, Left(m, n), NEW l, Left(l, m)
    PROVE  Left(l, n)
BY GoodLength, PrefixTransitive DEF Left

LEMMA StripLastLeaves ==
    ASSUME NEW n \in Good, NEW seps, NEW words
    PROVE  Left(StripLast(n, seps, words), n)
<1>1. Left(n, n)
  BY GoodLength, PrefixReflexive DEF Left
<1>2. CASE Len(n.words) > 1
  <2>1. Len(n.words) - 1 \in 1..Len(n.words)
    BY <1>2, GoodLength
  <2>2. Left(Cut(n, Len(n.words) - 1), n)
    BY <2>1, CutPrefix DEF Left
  <2> QED
    BY <1>1, <2>2 DEF StripLast
<1> QED
  BY <1>1, <1>2 DEF StripLast

LEMMA StripExpansionLeaves ==
    ASSUME NEW n \in Good
    PROVE  Left(StripExpansion(n), n)
<1>1. CASE ExpansionMarks(n) = {}
  BY <1>1, GoodLength, PrefixReflexive DEF Left, StripExpansion
<1>2. CASE ExpansionMarks(n) # {}
  <2>1. PICK k \in ExpansionMarks(n) : StripExpansion(n) = Cut(n, k)
    BY <1>2 DEF StripExpansion
  <2>2. k \in DOMAIN n.seps
    BY DEF ExpansionMarks, Marks
  <2>3. k \in 1..Len(n.words)
    BY <2>2, GoodLength
  <2> QED
    BY <2>1, <2>3, CutPrefix DEF Left
<1> QED
  BY <1>1, <1>2

\* Stripping an edition leaves a prefix of the words.
LEMMA StripPrefix ==
    ASSUME NEW n \in Good
    PROVE  StripEdition(n) \in Good /\ IsPrefix(StripEdition(n).words, n.words)
<1> DEFINE plain == StripLast(n, {"space"}, Parentheticals)
           separated == StripLast(plain, Separators, Editions)
           bare == StripLast(separated, {"space"}, FullEditions)
<1>1. StripEdition(n) = StripExpansion(bare)
  BY DEF StripEdition
<1> HIDE DEF plain, separated, bare
<1>2. Left(plain, n)
  BY StripLastLeaves DEF plain
<1>3. Left(separated, n)
  BY <1>2, StripLastLeaves, LeftTransitive DEF separated, Left
<1>4. Left(bare, n)
  BY <1>3, StripLastLeaves, LeftTransitive DEF bare, Left
<1>5. Left(StripEdition(n), n)
  BY <1>1, <1>4, StripExpansionLeaves, LeftTransitive DEF Left
<1> QED
  BY <1>5 DEF Left

----------------------------------------------------------------------------
(* The names a tier asks for *)

Readings(n) == {n, Unify(n, "dash"), Unify(n, "spaced"), StripEdition(n)}

LEMMA UnifyWords == ASSUME NEW n \in Name, NEW sep PROVE Unify(n, sep).words = n.words
BY DEF Unify, Name

LEMMA ReadingsWords ==
    ASSUME NEW n \in Good, NEW m \in Readings(n)
    PROVE  m.words = n.words \/ m.words = StripEdition(n).words
BY UnifyWords DEF Readings, Good

LEMMA ChangedType == ASSUME NEW S, NEW v \in S, NEW n PROVE Changed(v, n) \in Seq(S)
BY DEF Changed

LEMMA VariantsType ==
    ASSUME NEW n
    PROVE  /\ Variants(n) \in Seq({Unify(n, "dash"), Unify(n, "spaced")})
           /\ Edition(n) \in Seq({StripEdition(n)})
<1> DEFINE U == {Unify(n, "dash"), Unify(n, "spaced")}
<1>1. Changed(Unify(n, "dash"), n) \in Seq(U) /\ Changed(Unify(n, "spaced"), n) \in Seq(U)
  BY ChangedType
<1> HIDE DEF U
<1>2. Variants(n) \in Seq(U)
  BY <1>1 DEF Variants
<1> QED
  BY <1>2, ChangedType DEF Edition, U

\* But for the alias, a candidate has the words of the name, or of what is left of
\* it without its edition.
LEMMA OptionsAreForms ==
    ASSUME NEW n \in Good, NEW t \in 1..4
    PROVE  /\ Len(Options(t, n)) \in Nat
           /\ Options(t, n) # <<>> => Len(Options(t, n)) >= 1
           /\ \A i \in 1..Len(Options(t, n)) :
                 /\ Options(t, n)[i] \in Forms(n)
                 /\ t # 1 => Options(t, n)[i] \in Readings(n)
<1>1. CASE t = 1
  <2>1. Options(t, n) = Alias(n)
    BY <1>1 DEF Options, Tiers
  <2>2. Alias(n) = <<>> \/ Alias(n) = <<Aliases[Key(n)]>>
    BY DEF Alias
  <2>3. \A i \in 1..Len(Alias(n)) : Alias(n)[i] \in Range(Alias(n))
    BY <2>2 DEF Range
  <2> QED
    BY <1>1, <2>1, <2>2, <2>3 DEF Forms
<1>2. CASE t = 2
  <2>1. Options(t, n) = <<n>>
    BY <1>2 DEF Options, Tiers
  <2> QED
    BY <1>2, <2>1 DEF Forms, Readings
<1>3. CASE t = 3
  <2>1. Options(t, n) = Variants(n)
    BY <1>3 DEF Options, Tiers
  <2>2. Variants(n) \in Seq({Unify(n, "dash"), Unify(n, "spaced")})
    BY VariantsType
  <2>3. \A i \in 1..Len(Variants(n)) : Variants(n)[i] \in Range(Variants(n))
    BY <2>2 DEF Range
  <2> QED
    BY <2>1, <2>2, <2>3 DEF Forms, Readings
<1>4. CASE t = 4
  <2>1. Options(t, n) = Edition(n)
    BY <1>4 DEF Options, Tiers
  <2>2. Edition(n) \in Seq({StripEdition(n)})
    BY VariantsType
  <2>3. \A i \in 1..Len(Edition(n)) : Edition(n)[i] \in Range(Edition(n))
    BY <2>2 DEF Range
  <2> QED
    BY <2>1, <2>2, <2>3 DEF Forms, Readings
<1> QED
  BY <1>1, <1>2, <1>3, <1>4

\* What a search result is compared with has, too.
LEMMA SearchTitlesAreReadings ==
    ASSUME NEW n \in Good
    PROVE  Range(SearchTitles(n)) \subseteq Readings(n)
<1>1. <<n>> \in Seq(Readings(n))
  BY DEF Readings
<1>2. Edition(n) \in Seq({StripEdition(n)}) /\ {StripEdition(n)} \subseteq Readings(n)
  BY VariantsType DEF Readings
<1>3. Edition(n) \in Seq(Readings(n))
  BY <1>2
<1>4. SearchTitles(n) \in Seq(Readings(n))
  BY <1>1, <1>3 DEF SearchTitles
<1> QED
  BY <1>4 DEF Range

----------------------------------------------------------------------------
(* Types *)

Less == {pair \in Nat \X Nat : pair[1] < pair[2]}

LEMMA LeastExists ==
    ASSUME NEW T \in SUBSET Nat, T # {}
    PROVE  \E a \in T : \A b \in T : a <= b
<1>1. IsWellFoundedOn(Less, Nat)
  BY NatLessThanWellFounded DEF OpToRel, Less
<1>2. PICK a \in T : \A b \in T : ~(<<b, a>> \in Less)
  BY <1>1, WFMin
<1>3. \A b \in T : ~(b < a)
  BY <1>2 DEF Less
<1> QED
  BY <1>2, <1>3

First1(T) == CHOOSE a \in T : \A b \in T : a <= b

LEMMA FirstIsIn ==
    ASSUME NEW T \in SUBSET (1..Games), T # {}
    PROVE  First1(T) \in T
<1>1. T \in SUBSET Nat
  BY TitlesAreGood
<1> QED
  BY <1>1, LeastExists DEF First1

\* What is left to do is of the tier, and an answer of Get Games fits its key.
Going ==
    /\ todo \subseteq 1..Games
    /\ tried \in Nat /\ (todo = {} => tried = 0)
    /\ tier \in 1..4 =>
          /\ \A a \in todo : Options(tier, titles[a]) # <<>>
          /\ todo # {} => tried + 1 \in 1..Len(Options(tier, titles[First1(todo)]))

Vias == {"none", "alias", "exact", "variant", "edition", "search"}

TypeInv ==
    /\ tier \in 0..6
    /\ categories \subseteq Categories
    /\ tier # 6 => titles \in [1..Games -> Titles]
    /\ tier \in {0, 6} => todo = {}
    /\ tier = 6 => matches = [a \in 1..Games |-> NoMatch]
    /\ matches \in [1..Games -> Categories \cup {NoMatch}]
    /\ via \in [1..Games -> Vias]
    /\ \A k \in DOMAIN hits : hits[k] \in categories /\ Key(hits[k].name) = k
    /\ Going

LEMMA GameIsFirst == Game = First1(todo)
BY DEF Game, First1

LEMMA GameInTodo ==
    ASSUME TypeInv, todo # {}
    PROVE  /\ Game \in todo /\ Game \in 1..Games /\ tier \in 1..5
           /\ titles[Game] \in Good
           /\ tier \in 1..4 => Option \in Forms(titles[Game])
           /\ tier \in 2..4 => Option \in Readings(titles[Game])
<1>1. Game \in todo /\ Game \in 1..Games
  BY FirstIsIn, GameIsFirst DEF TypeInv, Going
<1>2. tier \in 1..5 /\ titles[Game] \in Good
  BY <1>1, TitlesAreGood DEF TypeInv
<1>3. ASSUME tier \in 1..4
      PROVE  /\ Option \in Forms(titles[Game])
             /\ tier # 1 => Option \in Readings(titles[Game])
  <2>1. tried + 1 \in 1..Len(Options(tier, titles[Game]))
    BY <1>3, GameIsFirst DEF TypeInv, Going
  <2> QED
    BY <1>2, <1>3, <2>1, OptionsAreForms DEF Option
<1> QED
  BY <1>1, <1>2, <1>3

LEMMA DropKeepsGoing ==
    ASSUME TypeInv, todo # {}, tier' = tier, titles' = titles,
           DropGame \/ DropOption \/ (todo' = {} /\ tried' = 0)
    PROVE  Going' /\ todo' \subseteq todo
<1>1. CASE todo' = {} /\ tried' = 0
  BY <1>1 DEF Going
<1>2. CASE DropGame
  <2>1. todo' \subseteq todo /\ todo' \subseteq 1..Games /\ tried' = 0
    BY <1>2 DEF DropGame, TypeInv, Going
  <2>2. ASSUME tier \in 1..4, todo' # {}
        PROVE  0 + 1 \in 1..Len(Options(tier, titles[First1(todo')]))
    <3>1. First1(todo') \in todo'
      BY <2>1, <2>2, FirstIsIn
    <3> DEFINE a == First1(todo')
    <3> HIDE DEF a
    <3>2. a \in todo /\ titles[a] \in Good
      BY <2>1, <2>2, <3>1, TitlesAreGood DEF TypeInv, Going, a
    <3>3. Options(tier, titles[a]) # <<>>
      BY <2>2, <3>2 DEF TypeInv, Going
    <3> QED
      BY <2>2, <3>2, <3>3, OptionsAreForms DEF a
  <2> QED
    BY <2>1, <2>2 DEF Going, First1, TypeInv
<1>3. CASE DropOption /\ ~DropGame
  <2>1. /\ tried + 1 < Len(Options(tier, titles[Game]))
        /\ tried' = tried + 1 /\ todo' = todo
    BY <1>3 DEF DropOption
  <2>2. tried \in Nat
    BY DEF TypeInv, Going
  <2>3. tier \in 1..4 => (tried + 1) + 1 \in 1..Len(Options(tier, titles[Game]))
    BY <2>1, <2>2, GameInTodo, OptionsAreForms
  <2>4. tier \in 1..4 => tried' + 1 \in 1..Len(Options(tier, titles[First1(todo)]))
    BY <2>1, <2>3, GameIsFirst
  <2>5. tried' \in Nat /\ todo' \subseteq 1..Games /\ todo' # {}
    BY <2>1, <2>2 DEF Going, TypeInv
  <2>6. tier' \in 1..4 => \A a \in todo' : Options(tier', titles'[a]) # <<>>
    BY <2>1 DEF Going, TypeInv
  <2>7. tier' \in 1..4 => tried' + 1 \in 1..Len(Options(tier', titles'[First1(todo')]))
    BY <2>1, <2>4
  <2> QED
    BY <2>1, <2>5, <2>6, <2>7 DEF Going
<1> QED
  BY <1>1, <1>2, <1>3

----------------------------------------------------------------------------
(* What is accepted *)

\* In an exact tier: the category is spelt like the candidate, or is the only one
\* so spelt but for its case, if a page of results holds all that are.
Meant(c) ==
    /\ tier \in 1..4
    /\ Key(c.name) = Key(Option)
    /\ \/ c.name = Option
       \/ Cardinality(Spelt(categories, Option)) <= SEARCH_PAGE_SIZE =>
             \A d \in Spelt(categories, Option) : d = c

\* In the search tier: it has the words of a title, or continues them.
Searched(c) ==
    /\ tier = 5
    /\ \E t \in Range(SearchTitles(titles[Game])) :
          c.name.words = t.words \/ IsSubtitled(c.name, t)

Refused ==
    /\ UNCHANGED <<matches, via>>
    /\ DropGame \/ DropOption \/ (tier = 5 /\ todo' = {} /\ tried' = 0)

Accepted == \E c \in categories : Accept(c) /\ (Meant(c) \/ Searched(c))

LEMMA HitShape ==
    ASSUME TypeInv, TakeHit
    PROVE  Refused \/ Accepted
<1>1. tier \in 1..4 /\ ~NeedsConfirmation
  BY GameInTodo DEF TakeHit, InExactTier, Tiers
<1>2. CASE Key(Option) \in DOMAIN hits
  <2>1. /\ hits[Key(Option)] \in categories /\ hits[Key(Option)].name = Option
        /\ Accept(hits[Key(Option)])
    BY <1>1, <1>2 DEF TakeHit, NeedsConfirmation, TypeInv
  <2> QED
    BY <1>1, <2>1 DEF Accepted, Meant
<1>3. CASE Key(Option) \notin DOMAIN hits
  BY <1>3 DEF TakeHit, Refuse, Refused
<1> QED
  BY <1>2, <1>3

\* A page that has room for all categories so spelt has them.
LEMMA PageHasSpelt ==
    ASSUME TypeInv, NEW name, NEW found \in SearchCategories(categories, name),
           Cardinality(Spelt(categories, name)) <= SEARCH_PAGE_SIZE
    PROVE  Spelt(categories, name) \subseteq found
<1> DEFINE spelt == Spelt(categories, name)
<1>1. IsFiniteSet(spelt)
  <2>1. spelt \in SUBSET Categories
    BY DEF TypeInv, Spelt
  <2> QED
    BY <2>1, TitlesAreGood, FS_Subset
<1> HIDE DEF spelt
<1>2. CASE found \in SUBSET spelt /\ Cardinality(found) = SEARCH_PAGE_SIZE
  <2>1. /\ Cardinality(found) <= Cardinality(spelt)
        /\ Cardinality(spelt) = Cardinality(found) => spelt = found
    BY <1>1, <1>2, FS_Subset
  <2>2. Cardinality(spelt) \in Nat /\ SEARCH_PAGE_SIZE \in Nat
    BY <1>1, FS_CardinalityType, EndpointsAssumption
  <2>3. Cardinality(spelt) <= SEARCH_PAGE_SIZE
    BY DEF spelt
  <2> QED
    BY <1>2, <2>1, <2>2, <2>3 DEF spelt
<1> QED
  BY <1>2 DEF SearchCategories, spelt

LEMMA ConfirmShape ==
    ASSUME TypeInv, ConfirmCase
    PROVE  Refused \/ Accepted
<1>1. tier \in 1..4 /\ NeedsConfirmation
  BY GameInTodo DEF ConfirmCase, InExactTier, Tiers
<1> DEFINE hit == hits[Key(Option)]
           Same(found) == {c \in found : Key(c.name) = Key(Option)} \cup {hit}
<1>2. hit \in categories /\ Key(hit.name) = Key(Option)
  BY <1>1 DEF NeedsConfirmation, TypeInv
<1>3. CASE ~Refused
  <2>1. PICK found \in SearchCategories(categories, Option) :
            Cardinality(TheOneMeant(Same(found))) = 1
            /\ \E c \in TheOneMeant(Same(found)) : Accept(c)
    BY <1>3 DEF ConfirmCase, Refuse, Refused
  <2>2. PICK c \in TheOneMeant(Same(found)) : Accept(c)
    BY <2>1
  <2>3. /\ found \subseteq categories
        /\ Cardinality(Spelt(categories, Option)) <= SEARCH_PAGE_SIZE =>
              Spelt(categories, Option) \subseteq Same(found)
    <3>1. found \subseteq categories
      BY <2>1 DEF SearchCategories
    <3>2. Cardinality(Spelt(categories, Option)) <= SEARCH_PAGE_SIZE =>
              Spelt(categories, Option) \subseteq found
      BY <2>1, PageHasSpelt
    <3> QED
      BY <3>1, <3>2 DEF Spelt
  <2>4. c \in Same(found)
    BY <2>2 DEF TheOneMeant
  <2>5. c \in categories /\ Key(c.name) = Key(Option)
    BY <1>2, <2>3, <2>4
  <2>6. CASE Cardinality(Same(found)) = 1
    <3>1. Same(found) \in SUBSET Categories
      BY <1>2, <2>3 DEF TypeInv
    <3> DEFINE S == Same(found)
    <3> HIDE DEF S
    <3>2. IsFiniteSet(S)
      BY <3>1, TitlesAreGood, FS_Subset DEF S
    <3>3. \E x : S = {x}
      BY <2>6, <3>2, FS_Singleton DEF S
    <3>4. Cardinality(Spelt(categories, Option)) <= SEARCH_PAGE_SIZE =>
              \A d \in Spelt(categories, Option) : d = c
      BY <2>3, <2>4, <3>3 DEF S
    <3> QED
      BY <1>1, <2>2, <2>5, <3>4 DEF Accepted, Meant
  <2>7. CASE Cardinality(Same(found)) # 1
    <3>1. c.name = Option
      BY <2>2, <2>7 DEF TheOneMeant
    <3> QED
      BY <1>1, <2>2, <2>5, <3>1 DEF Accepted, Meant
  <2> QED
    BY <2>6, <2>7
<1> QED
  BY <1>3

LEMMA SearchShape ==
    ASSUME TypeInv, SearchTitle
    PROVE  Refused \/ Accepted
<1>1. tier = 5
  BY GameInTodo DEF SearchTitle, Tiers
<1>2. CASE ~Refused
  <2>1. PICK found \in SearchCategories(categories, Option) :
            \E c \in IF Cardinality(Pick(found)) = 1 THEN {Pick(found)}
                     ELSE Canonical(Pick(found)) :
               c # {} /\ \E g \in c : Accept(g)
    BY <1>1, <1>2 DEF SearchTitle, Refuse, Refused
  <2>2. \A c \in Canonical(Pick(found)) : c \subseteq Pick(found)
    BY DEF Canonical
  <2>3. PICK g \in Pick(found) : Accept(g)
    BY <2>1, <2>2
  <2>4. g \in found /\ \E t \in Range(SearchTitles(titles[Game])) :
                           g.name.words = t.words \/ IsSubtitled(g.name, t)
    BY DEF Pick
  <2>5. g \in categories
    BY <2>1, <2>4 DEF SearchCategories
  <2> QED
    BY <1>1, <2>3, <2>4, <2>5 DEF Accepted, Searched
<1> QED
  BY <1>2

\* A step that looks at a candidate.
Look == TakeHit \/ ConfirmCase \/ SearchTitle

LEMMA LookShape ==
    ASSUME TypeInv, Look
    PROVE  /\ todo # {} /\ UNCHANGED <<categories, titles, tier, hits>>
           /\ Going' /\ todo' \subseteq todo
           /\ Refused \/ Accepted
<1>1. todo # {} /\ UNCHANGED <<categories, titles, tier, hits>>
  BY DEF Look, TakeHit, ConfirmCase, SearchTitle, InExactTier
<1>2. Refused \/ Accepted
  BY HitShape, ConfirmShape, SearchShape DEF Look
<1> QED
  BY <1>1, <1>2, DropKeepsGoing DEF Refused, Accepted, Accept

LEMMA StepCases ==
    ASSUME TypeInv, [Next]_vars
    PROVE  UNCHANGED resolving \/ NextTier \/ Look \/ LookupFails
BY DEF Next, vars, Look

LEMMA TiersType == Len(Tiers) = 5 /\ \A t \in 1..5 : Tiers[t] \in Vias
BY DEF Tiers, Vias

LEMMA NextTypeInv == TypeInv /\ [Next]_vars => TypeInv'
<1> SUFFICES ASSUME TypeInv, [Next]_vars PROVE TypeInv'
  OBVIOUS
<1>1. CASE UNCHANGED resolving
  BY <1>1 DEF resolving, TypeInv, Going
<1>2. CASE NextTier
  <2>1. /\ tier \in 0..4 /\ tier' = tier + 1 /\ tried' = 0
        /\ UNCHANGED <<categories, titles, matches, via>>
        /\ todo' = Candidates(tier + 1)
    BY <1>2 DEF NextTier, Tiers, TypeInv, Going
  <2>2. todo' \subseteq 1..Games /\ \A a \in todo' : Options(tier', titles[a]) # <<>>
    BY <2>1 DEF Candidates
  <2>3. titles \in [1..Games -> Titles] /\ tier' \in 1..5
    BY <2>1 DEF TypeInv
  <2>4. ASSUME tier' \in 1..4, todo' # {}
        PROVE  0 + 1 \in 1..Len(Options(tier', titles[First1(todo')]))
    <3> DEFINE a == First1(todo')
    <3>1. a \in todo'
      BY <2>2, <2>4, FirstIsIn
    <3> HIDE DEF a
    <3>2. titles[a] \in Good /\ Options(tier', titles[a]) # <<>>
      BY <2>2, <2>3, <3>1, TitlesAreGood
    <3> QED
      BY <2>4, <3>2, OptionsAreForms DEF a
  <2>5. Going'
    BY <2>1, <2>2, <2>4 DEF Going
  <2>6. \A k \in DOMAIN hits' : hits'[k] \in categories /\ Key(hits'[k].name) = k
    BY <1>2 DEF NextTier, GetGamesByName
  <2> QED
    BY <2>1, <2>3, <2>5, <2>6 DEF TypeInv
<1>3. CASE Look
  <2>1. /\ todo # {} /\ UNCHANGED <<categories, titles, tier, hits>>
        /\ Going' /\ todo' \subseteq todo
        /\ Refused \/ Accepted
    BY <1>3, LookShape
  <2>2. Tiers[tier] \in Vias /\ tier \in 1..5
    BY <2>1, GameInTodo, TiersType
  <2>3. /\ matches' \in [1..Games -> Categories \cup {NoMatch}]
        /\ via' \in [1..Games -> Vias]
    <3>1. CASE Refused
      BY <3>1 DEF Refused, TypeInv
    <3>2. ASSUME NEW c \in categories, Accept(c)
          PROVE  /\ matches' \in [1..Games -> Categories \cup {NoMatch}]
                 /\ via' \in [1..Games -> Vias]
      BY <2>2, <3>2 DEF Accept, TypeInv
    <3> QED
      BY <2>1, <3>1, <3>2 DEF Accepted
  <2> QED
    BY <2>1, <2>2, <2>3 DEF TypeInv
<1>4. CASE LookupFails
  BY <1>4 DEF LookupFails, Tiers, TypeInv, Going
<1> QED
  BY <1>1, <1>2, <1>3, <1>4, StepCases

LEMMA TypeInvariance == Spec => []TypeInv
<1>1. Init => TypeInv
  <2> SUFFICES ASSUME Init PROVE TypeInv
    OBVIOUS
  <2>1. /\ tier \in {0, 6} /\ todo = {} /\ tried = 0 /\ hits = <<>>
        /\ categories \subseteq Categories
        /\ tier = 0 => titles \in [1..Games -> Titles]
    BY TiersType DEF Init
  <2>2. /\ matches = [a \in 1..Games |-> NoMatch]
        /\ via = [a \in 1..Games |-> "none"]
    BY DEF Init
  <2>3. Going
    BY <2>1 DEF Going
  <2> QED
    BY <2>1, <2>2, <2>3 DEF TypeInv, Vias
<1> QED
  BY <1>1, NextTypeInv, PTL DEF Spec

----------------------------------------------------------------------------
(* No match is of a truncated name, or of a twin *)

LEMMA CategoryIsNoNoMatch == \A c \in Categories : c # NoMatch
<1> SUFFICES ASSUME NoMatch \in Categories PROVE FALSE
  OBVIOUS
<1>1. NoMatch.name \in Good /\ NoMatch.name.words = <<>> /\ NoMatch.name.seps = <<>>
  BY TitlesAreGood DEF NoMatch
<1> QED
  BY <1>1 DEF Good

\* What a match adds to what is matched.
LEMMA MatchStep ==
    ASSUME TypeInv, [Next]_vars, NEW a \in Matched'
    PROVE  /\ a \in 1..Games /\ tier # 6 /\ UNCHANGED <<titles, categories>>
           /\ \/ a \in Matched /\ matches'[a] = matches[a] /\ via'[a] = via[a]
              \/ /\ todo # {} /\ a = Game /\ via'[a] = Tiers[tier] /\ tier' = tier
                 /\ matches'[a] \in categories
                 /\ Meant(matches'[a]) \/ Searched(matches'[a])
<1>0. a \in 1..Games /\ matches'[a] # NoMatch
  BY DEF Matched
<1>1. CASE UNCHANGED resolving
  BY <1>0, <1>1 DEF resolving, Matched, TypeInv
<1>2. CASE NextTier
  BY <1>0, <1>2 DEF NextTier, Matched, TypeInv, Tiers
<1>3. CASE Look
  <2>1. /\ todo # {} /\ UNCHANGED <<categories, titles, tier, hits>>
        /\ Refused \/ Accepted
    BY <1>3, LookShape
  <2>2. tier # 6
    BY <2>1 DEF TypeInv
  <2>3. CASE Refused
    BY <1>0, <2>1, <2>2, <2>3 DEF Refused, Matched
  <2>4. ASSUME NEW c \in categories, Accept(c), Meant(c) \/ Searched(c)
        PROVE  \/ a \in Matched /\ matches'[a] = matches[a] /\ via'[a] = via[a]
               \/ /\ a = Game /\ via'[a] = Tiers[tier] /\ matches'[a] = c
    BY <1>0, <2>4 DEF Accept, Matched, TypeInv
  <2> QED
    BY <1>0, <2>1, <2>2, <2>3, <2>4 DEF Accepted
<1>4. CASE LookupFails
  BY <1>0, <1>4 DEF LookupFails
<1> QED
  BY <1>1, <1>2, <1>3, <1>4, StepCases

\* A name that has the words of a reading, or continues them, is not cut.
LEMMA ReadingNotCut ==
    ASSUME NEW n \in Good, NEW t \in Readings(n), NEW m \in Good,
           m.words = t.words \/ IsPrefix(t.words, m.words)
    PROVE  IsPrefix(StripEdition(n).words, m.words)
<1>1. StripEdition(n) \in Good /\ IsPrefix(StripEdition(n).words, n.words)
  BY StripPrefix
<1>2. t.words = n.words \/ t.words = StripEdition(n).words
  BY ReadingsWords
<1>3. \A x \in Good : x.words \in Seq(STRING)
  BY DEF Good, Name
<1>4. IsPrefix(StripEdition(n).words, t.words) /\ t.words \in Seq(STRING)
  BY <1>1, <1>2, <1>3, PrefixReflexive
<1> QED
  BY <1>1, <1>3, <1>4, PrefixTransitive

LEMMA NextNeverCut ==
    ASSUME TypeInv, NeverCut, [Next]_vars
    PROVE  NeverCut'
<1> SUFFICES ASSUME NEW a \in Matched', via'[a] # "alias"
             PROVE  IsPrefix(StripEdition(titles'[a]).words, matches'[a].name.words)
  BY DEF NeverCut
<1>1. a \in 1..Games /\ UNCHANGED <<titles, categories>>
  BY MatchStep
<1>2. CASE a \in Matched /\ matches'[a] = matches[a] /\ via'[a] = via[a]
  BY <1>1, <1>2 DEF NeverCut
<1>3. CASE /\ todo # {} /\ a = Game /\ via'[a] = Tiers[tier] /\ tier' = tier
           /\ matches'[a] \in categories
           /\ Meant(matches'[a]) \/ Searched(matches'[a])
  <2> DEFINE c == matches'[a]
  <2>1. titles[a] \in Good /\ c.name \in Good
    BY <1>3, GameInTodo, TitlesAreGood DEF TypeInv
  <2>2. tier # 1
    BY <1>3 DEF Tiers
  <2> HIDE DEF c
  <2>3. CASE Meant(c)
    <3>1. Option \in Readings(titles[a]) /\ c.name.words = Option.words
      BY <1>3, <2>2, <2>3, GameInTodo DEF Meant, Key
    <3> QED
      BY <1>1, <2>1, <3>1, ReadingNotCut DEF c
  <2>4. CASE Searched(c)
    <3>1. PICK t \in Readings(titles[a]) :
              c.name.words = t.words \/ IsPrefix(t.words, c.name.words)
      BY <1>3, <2>1, <2>4, SearchTitlesAreReadings DEF Searched, IsSubtitled
    <3> QED
      BY <1>1, <2>1, <3>1, ReadingNotCut DEF c
  <2> QED
    BY <1>3, <2>3, <2>4 DEF c
<1> QED
  BY <1>2, <1>3, MatchStep

\* A match has all the words of the name but its edition, whatever Twitch answers
\* and whichever tier it comes from, aliases apart: the base of a title is a query
\* and never a measure (resolve.py:225).
THEOREM MatchesAreWhole == Spec => []NeverCut
<1>1. Init => NeverCut
  BY DEF Init, NeverCut, Matched
<1> QED
  BY <1>1, NextNeverCut, TypeInvariance, PTL DEF Spec

LEMMA NextTwinNeverTaken ==
    ASSUME TypeInv, TwinNeverTaken, [Next]_vars
    PROVE  TwinNeverTaken'
<1> SUFFICES ASSUME NEW a \in Matched', via'[a] # "search",
                    Cardinality(Spelt(categories', matches'[a].name)) <= SEARCH_PAGE_SIZE
             PROVE  \/ matches'[a].name \in Forms(titles'[a])
                    \/ ~\E c \in Spelt(categories', matches'[a].name) :
                          c.name \in Forms(titles'[a])
  BY DEF TwinNeverTaken
<1>1. a \in 1..Games /\ UNCHANGED <<titles, categories>>
  BY MatchStep
<1>2. CASE a \in Matched /\ matches'[a] = matches[a] /\ via'[a] = via[a]
  BY <1>1, <1>2 DEF TwinNeverTaken
<1>3. CASE /\ todo # {} /\ a = Game /\ via'[a] = Tiers[tier] /\ tier' = tier
           /\ matches'[a] \in categories
           /\ Meant(matches'[a]) \/ Searched(matches'[a])
  <2>1. Meant(matches'[a])
    BY <1>3 DEF Searched, Tiers
  <2>2. Option \in Forms(titles[a])
    BY <1>3, <2>1, GameInTodo DEF Meant
  <2>3. Spelt(categories', matches'[a].name) = Spelt(categories, Option)
    BY <1>1, <2>1 DEF Meant, Spelt
  <2>4. CASE matches'[a].name = Option
    BY <1>1, <2>2, <2>4
  <2>5. CASE \A d \in Spelt(categories, Option) : d = matches'[a]
    BY <1>1, <2>3, <2>5
  <2> QED
    BY <2>1, <2>3, <2>4, <2>5 DEF Meant
<1> QED
  BY <1>2, <1>3, MatchStep

\* Of two categories that differ only by case, the one spelt like a name of the game
\* is not passed over for its twin, if a page of results holds all that are so spelt: a
\* hit in another case is taken only if a search finds no other (resolve.py:171).
THEOREM TwinsAreTold == Spec => []TwinNeverTaken
<1>1. Init => TwinNeverTaken
  BY DEF Init, TwinNeverTaken, Matched
<1> QED
  BY <1>1, NextTwinNeverTaken, TypeInvariance, PTL DEF Spec

----------------------------------------------------------------------------
(* A hit needs no search *)

\* c is spelt like the game, and no other category is, but for its case.
Exactly(a, c) ==
    /\ Pending(a) /\ c.name = titles[a]
    /\ \A d \in categories \ {c} : Key(d.name) # Key(c.name)

\* Only what is unresolved is looked at, and before the exact tier only an alias
\* resolves.
Ordered ==
    tier # 6 =>
        /\ \A a \in todo : matches[a] = NoMatch
        /\ \A a \in 1..Games : via[a] = "alias" => matches[a] # NoMatch
        /\ tier \in 0..1 => \A a \in 1..Games : matches[a] # NoMatch => via[a] = "alias"

\* The exact tier takes the hit, or has it at hand.
HitTaken ==
    tier \in 2..5 =>
        \A a \in 1..Games : \A c \in categories :
            Exactly(a, c) =>
                \/ matches[a] = c \/ via[a] = "alias"
                \/ tier = 2 /\ a \in todo /\ Key(c.name) \in DOMAIN hits

LEMMA NextOrdered ==
    ASSUME TypeInv, Ordered, [Next]_vars
    PROVE  Ordered'
<1>1. CASE UNCHANGED resolving
  BY <1>1 DEF resolving, Ordered
<1>2. CASE NextTier
  <2>1. /\ tier \in 0..4 /\ tier' = tier + 1 /\ UNCHANGED <<matches, via>>
        /\ todo' = Candidates(tier + 1)
    BY <1>2, TiersType DEF NextTier, TypeInv
  <2>2. \A a \in todo' : matches'[a] = NoMatch
    BY <2>1 DEF Candidates, Unresolved
  <2>3. tier' \in 0..1 => tier \in 0..1
    BY <2>1
  <2> QED
    BY <2>1, <2>2, <2>3 DEF Ordered
<1>3. CASE Look
  <2>1. /\ todo # {} /\ UNCHANGED <<categories, titles, tier, hits>>
        /\ Going' /\ todo' \subseteq todo
        /\ Refused \/ Accepted
    BY <1>3, LookShape
  <2>2. CASE Refused
    BY <2>1, <2>2 DEF Refused, Ordered
  <2>3. ASSUME NEW c \in categories, Accept(c) PROVE Ordered'
    <3>1. /\ Game \in todo /\ Game \in 1..Games /\ tier \in 1..5
          /\ c # NoMatch
      BY <2>1, GameInTodo, CategoryIsNoNoMatch DEF TypeInv
    <3>2. /\ matches'[Game] = c /\ via'[Game] = Tiers[tier] /\ todo' = todo \ {Game}
          /\ \A a \in 1..Games : a # Game => matches'[a] = matches[a] /\ via'[a] = via[a]
      BY <2>3, <3>1 DEF Accept, DropGame, TypeInv
    <3>3. tier = 1 => Tiers[tier] = "alias"
      BY DEF Tiers
    <3>4. todo' \subseteq 1..Games
      BY <2>1 DEF TypeInv, Going
    <3> QED
      BY <2>1, <3>1, <3>2, <3>3, <3>4 DEF Ordered
  <2> QED
    BY <2>1, <2>2, <2>3 DEF Accepted
<1>4. CASE LookupFails
  BY <1>4, TiersType DEF LookupFails, Ordered
<1> QED
  BY <1>1, <1>2, <1>3, <1>4, StepCases

\* The exact tier has its own hit for such a game.
LEMMA OwnHit ==
    ASSUME TypeInv, tier = 2, todo # {}, NEW c \in categories, Exactly(Game, c),
           Key(c.name) \in DOMAIN hits
    PROVE  Option = c.name /\ hits[Key(Option)] = c /\ ~NeedsConfirmation
<1>1. Options(tier, titles[Game]) = <<titles[Game]>>
  BY DEF Options, Tiers
<1>2. tried \in Nat /\ tried + 1 \in 1..1
  <2>1. tried \in Nat /\ tried + 1 \in 1..Len(Options(tier, titles[First1(todo)]))
    BY DEF TypeInv, Going
  <2>2. Options(tier, titles[First1(todo)]) = <<titles[Game]>>
    BY <1>1, GameIsFirst
  <2>3. Len(<<titles[Game]>>) = 1
    OBVIOUS
  <2> QED
    BY <2>1, <2>2, <2>3
<1>3. Option = c.name
  BY <1>1, <1>2 DEF Option, Exactly
<1>4. hits[Key(c.name)] \in categories /\ Key(hits[Key(c.name)].name) = Key(c.name)
  BY DEF TypeInv
<1>5. hits[Key(c.name)] = c
  BY <1>4 DEF Exactly
<1> QED
  BY <1>3, <1>5 DEF NeedsConfirmation

LEMMA NextHitTaken ==
    ASSUME TypeInv, Ordered, HitTaken, [Next]_vars
    PROVE  HitTaken'
<1>1. CASE UNCHANGED resolving
  BY <1>1 DEF resolving, HitTaken, Exactly, Pending
<1>2. CASE NextTier
  <2> SUFFICES ASSUME tier' \in 2..5, NEW a \in 1..Games, NEW c \in categories,
                      Exactly(a, c)
               PROVE  \/ matches[a] = c \/ via[a] = "alias"
                      \/ tier' = 2 /\ a \in todo' /\ Key(c.name) \in DOMAIN hits'
    BY <1>2 DEF NextTier, HitTaken, Exactly, Pending
  <2>1. /\ tier \in 1..4 /\ tier' = tier + 1 /\ todo = {}
        /\ todo' = Candidates(tier + 1)
    BY <1>2 DEF NextTier, TypeInv
  <2>2. CASE tier = 1 /\ matches[a] = NoMatch
    <3>1. Options(2, titles[a]) = <<titles[a]>>
      BY DEF Options, Tiers
    <3>2. a \in todo' /\ a \in Candidates(2)
      BY <2>1, <2>2, <3>1 DEF Candidates, Unresolved, Exactly
    <3>3. titles[a] \in NamesOf(2)
      <4>1. titles[a] \in Range(Options(2, titles[a]))
        BY <3>1 DEF Range
      <4> QED
        BY <3>2, <4>1 DEF NamesOf
    <3>4. hits' \in GetGamesByName(categories, NamesOf(2))
      BY <1>2, <2>2 DEF NextTier, Tiers
    <3>5. Key(c.name) \in {Key(d.name) : d \in categories} \cap {Key(n) : n \in NamesOf(2)}
      BY <3>3 DEF Exactly
    <3>6. Key(c.name) \in DOMAIN hits'
      BY <3>4, <3>5 DEF GetGamesByName
    <3> QED
      BY <2>1, <2>2, <3>2, <3>6
  <2>3. CASE tier = 1 /\ matches[a] # NoMatch
    BY <2>3 DEF Ordered
  <2>4. CASE tier \in 2..4
    BY <2>1, <2>4 DEF HitTaken
  <2> QED
    BY <2>1, <2>2, <2>3, <2>4
<1>3. CASE Look
  <2>1. /\ todo # {} /\ UNCHANGED <<categories, titles, tier, hits>>
        /\ Refused \/ Accepted
    BY <1>3, LookShape
  <2> SUFFICES ASSUME tier \in 2..5, NEW a \in 1..Games, NEW c \in categories,
                      Exactly(a, c)
               PROVE  \/ matches'[a] = c \/ via'[a] = "alias"
                      \/ tier = 2 /\ a \in todo' /\ Key(c.name) \in DOMAIN hits
    BY <2>1 DEF HitTaken, Exactly, Pending
  <2>2. /\ Game \in todo /\ Game \in 1..Games /\ c # NoMatch
    BY <2>1, GameInTodo, CategoryIsNoNoMatch DEF TypeInv
  <2>3. a # Game => matches'[a] = matches[a] /\ via'[a] = via[a]
    BY <2>1 DEF Refused, Accepted, Accept, TypeInv
  <2>4. CASE a # Game /\ (matches[a] = c \/ via[a] = "alias")
    BY <2>3, <2>4
  <2>5. CASE a # Game /\ ~(matches[a] = c \/ via[a] = "alias")
    <3>1. tier = 2 /\ a \in todo /\ Key(c.name) \in DOMAIN hits
      BY <2>5 DEF HitTaken
    <3>2. a \in todo'
      BY <2>1, <2>5, <3>1 DEF Refused, Accepted, Accept, DropGame, DropOption
    <3> QED
      BY <3>1, <3>2
  <2>6. CASE a = Game
    <3>1. matches[a] = NoMatch /\ via[a] # "alias"
      BY <2>2, <2>6 DEF Ordered, TypeInv
    <3>2. tier = 2 /\ Key(c.name) \in DOMAIN hits
      BY <2>2, <3>1 DEF HitTaken
    <3>3. Option = c.name /\ hits[Key(Option)] = c /\ ~NeedsConfirmation
      BY <2>1, <2>6, <3>2, OwnHit
    <3>4. TakeHit
      BY <1>3, <3>2, <3>3 DEF Look, ConfirmCase, SearchTitle, Tiers
    <3>5. Accept(c)
      BY <3>2, <3>3, <3>4 DEF TakeHit
    <3> QED
      BY <2>2, <2>6, <3>5 DEF Accept, TypeInv
  <2> QED
    BY <2>4, <2>5, <2>6
<1>4. CASE LookupFails
  BY <1>4, TiersType DEF LookupFails, HitTaken
<1> QED
  BY <1>1, <1>2, <1>3, <1>4, StepCases

\* A budget that is spent, or spent on others, costs no game whose name is, as it
\* is spelt, that of one category: the hit of the exact tier needs no search
\* (resolve.py:145).
THEOREM HitsAreFree == Spec => []HitNeedsNoSearch
<1>1. Init => Ordered /\ HitTaken
  <2> SUFFICES ASSUME Init PROVE Ordered /\ HitTaken
    OBVIOUS
  <2>1. /\ tier \in {0, 6} /\ todo = {}
        /\ matches = [a \in 1..Games |-> NoMatch]
        /\ via = [a \in 1..Games |-> "none"]
    BY TiersType DEF Init
  <2> QED
    BY <2>1 DEF Ordered, HitTaken
<1>2. TypeInv /\ Ordered /\ HitTaken /\ [Next]_vars => Ordered' /\ HitTaken'
  BY NextOrdered, NextHitTaken
<1>3. HitTaken => HitNeedsNoSearch
  BY TiersType DEF HitTaken, HitNeedsNoSearch, Exactly
<1> QED
  BY <1>1, <1>2, <1>3, TypeInvariance, PTL DEF Spec

----------------------------------------------------------------------------
(* The items of a page *)

LEMMA Induction ==
    ASSUME NEW T \in SUBSET Nat, 0 \in T, \A n \in T : n + 1 \in T
    PROVE  T = Nat
<1> SUFFICES ASSUME Nat \ T # {} PROVE FALSE
  OBVIOUS
<1>1. PICK n \in Nat \ T : \A m \in Nat \ T : n <= m
  BY LeastExists
<1>2. n # 0 /\ n - 1 \in Nat /\ n - 1 < n
  BY <1>1
<1>3. n - 1 \in T
  BY <1>1, <1>2
<1>4. (n - 1) + 1 \in T
  BY <1>3
<1> QED
  BY <1>1, <1>4

\* How the items of a page are parsed, up to the k-th.
Parses(items, k, valid) ==
    [n \in 0..k |->
        IF n = 0 THEN <<>>
        ELSE IF items[n] \in Dropped THEN valid[n - 1]
        ELSE Append(valid[n - 1], items[n])]
ParsedTo(items) == CHOOSE valid : valid = Parses(items, Len(items), valid)

LEMMA ParsedIsLast ==
    ASSUME NEW items PROVE Parsed(items) = ParsedTo(items)[Len(items)]
BY DEF Parsed, ParsedTo, Parses

LEMMA ParsedExists ==
    ASSUME NEW items, NEW k \in Nat
    PROVE  \E valid : valid = Parses(items, k, valid)
<1> DEFINE T == {n \in Nat : \E valid : valid = Parses(items, n, valid)}
<1>1. 0 \in T
  <2>1. [n \in 0..0 |-> <<>>] = Parses(items, 0, [n \in 0..0 |-> <<>>])
    BY DEF Parses
  <2> QED
    BY <2>1
<1>2. ASSUME NEW n \in T PROVE n + 1 \in T
  <2>1. PICK f : f = Parses(items, n, f)
    OBVIOUS
  <2> DEFINE h == Parses(items, n + 1, f)
  <2>2. \A m \in 0..n : h[m] = f[m]
    <3>1. \A m \in 0..n : m \in 0..(n + 1)
      OBVIOUS
    <3>2. \A m \in 0..n : Parses(items, n, f)[m] = Parses(items, n + 1, f)[m]
      BY <3>1 DEF Parses
    <3> QED
      BY <2>1, <3>2
  <2>3. \A m \in 0..(n + 1) : m # 0 => h[m - 1] = f[m - 1]
    BY <2>2
  <2>4. h = Parses(items, n + 1, h)
    BY <2>3 DEF Parses
  <2> QED
    BY <2>4
<1>3. T = Nat
  <2> HIDE DEF T
  <2>1. T \subseteq Nat
    BY DEF T
  <2> QED
    BY <1>1, <1>2, <2>1, Induction
<1> QED
  BY <1>3

\* An item is read once, at the latest at its place; or it is not read.
OnceBy(s, i, p) ==
    \E m \in 1..Len(s) : /\ m <= p /\ s[m] = i
                         /\ \A n \in 1..Len(s) : s[n] = i => n = m
Never(s, i) == \A n \in 1..Len(s) : s[n] # i

\* What the first k items yield.
Yields(s, items, k) ==
    /\ s \in Seq(Items) /\ Len(s) <= k
    /\ \A p \in 1..k : items[p] \notin Dropped => OnceBy(s, items[p], p)
    /\ \A n \in 1..Len(s) : \E p \in 1..k : s[n] = items[p]

LEMMA YieldsMore ==
    ASSUME NEW items \in Seq(Items), IsInjective(items), NEW k \in Nat, k < Len(items),
           NEW s, Yields(s, items, k)
    PROVE  Yields(IF items[k + 1] \in Dropped THEN s ELSE Append(s, items[k + 1]),
                  items, k + 1)
<1>1. /\ s \in Seq(Items) /\ Len(s) \in Nat /\ Len(s) <= k
      /\ k + 1 \in 1..Len(items) /\ items[k + 1] \in Items
  BY DEF Yields
<1>2. CASE items[k + 1] \in Dropped
  <2>1. \A p \in 1..(k + 1) : items[p] \notin Dropped => p \in 1..k
    BY <1>2
  <2> QED
    BY <1>1, <1>2, <2>1 DEF Yields
<1>3. CASE items[k + 1] \notin Dropped
  <2> DEFINE t == Append(s, items[k + 1])
  <2>1. /\ t \in Seq(Items) /\ Len(t) = Len(s) + 1 /\ t[Len(s) + 1] = items[k + 1]
        /\ \A n \in 1..Len(s) : t[n] = s[n]
    BY <1>1
  <2>2. \A n \in 1..Len(t) : n \in 1..Len(s) \/ n = Len(s) + 1
    BY <1>1, <2>1
  <2>3. \A n \in 1..Len(s) : n \in 1..Len(t)
    BY <1>1, <2>1
  <2>4. \A p \in 1..k : p \in 1..Len(items) /\ p \in 1..(k + 1) /\ items[p] # items[k + 1]
    BY <1>1 DEF IsInjective
  <2> HIDE DEF t
  <2>5. ASSUME NEW p \in 1..k, items[p] \notin Dropped
        PROVE  OnceBy(t, items[p], p)
    <3>1. PICK m \in 1..Len(s) : /\ m <= p /\ s[m] = items[p]
                                 /\ \A n \in 1..Len(s) : s[n] = items[p] => n = m
      BY <2>5 DEF Yields, OnceBy
    <3>2. \A n \in 1..Len(t) : t[n] = items[p] => n = m
      BY <2>1, <2>2, <2>4, <3>1
    <3> QED
      BY <2>1, <2>3, <3>1, <3>2 DEF OnceBy
  <2>6. OnceBy(t, items[k + 1], k + 1)
    <3>1. \A n \in 1..Len(s) : t[n] # items[k + 1]
      BY <2>1, <2>4 DEF Yields
    <3>2. Len(s) + 1 \in 1..Len(t) /\ Len(s) + 1 <= k + 1
      BY <1>1, <2>1
    <3> QED
      BY <2>1, <2>2, <3>1, <3>2 DEF OnceBy
  <2>7. \A p \in 1..(k + 1) : p \in 1..k \/ p = k + 1
    BY <1>1
  <2>8. \A p \in 1..(k + 1) : items[p] \notin Dropped => OnceBy(t, items[p], p)
    BY <2>5, <2>6, <2>7
  <2>9. \A n \in 1..Len(t) : \E p \in 1..(k + 1) : t[n] = items[p]
    <3>1. k + 1 \in 1..(k + 1)
      BY <1>1
    <3> QED
      BY <2>1, <2>2, <2>4, <3>1 DEF Yields
  <2>10. Len(t) <= k + 1
    BY <1>1, <2>1
  <2>11. Yields(t, items, k + 1)
    BY <2>1, <2>8, <2>9, <2>10 DEF Yields
  <2> QED
    BY <1>3, <2>11 DEF t
<1> QED
  BY <1>2, <1>3

LEMMA ParsedYields ==
    ASSUME NEW items \in Seq(Items), IsInjective(items)
    PROVE  Yields(Parsed(items), items, Len(items))
<1> DEFINE f == ParsedTo(items)
<1>1. f = Parses(items, Len(items), f)
  BY ParsedExists DEF ParsedTo
<1> HIDE DEF f
<1>2. \A n \in 0..Len(items) :
        f[n] = IF n = 0 THEN <<>>
               ELSE IF items[n] \in Dropped THEN f[n - 1] ELSE Append(f[n - 1], items[n])
  BY <1>1 DEF Parses
<1> DEFINE T == {n \in Nat : n <= Len(items) => Yields(f[n], items, n)}
<1>3. 0 \in T
  <2>1. f[0] = <<>>
    BY <1>2
  <2>2. <<>> \in Seq(Items) /\ Len(<<>>) = 0
    OBVIOUS
  <2>3. Yields(<<>>, items, 0)
    <3>1. 1..0 = {}
      OBVIOUS
    <3> QED
      BY <2>2, <3>1 DEF Yields
  <2> QED
    BY <2>1, <2>3
<1>4. ASSUME NEW n \in T PROVE n + 1 \in T
  <2> SUFFICES ASSUME n + 1 <= Len(items) PROVE Yields(f[n + 1], items, n + 1)
    OBVIOUS
  <2>1. /\ n \in Nat /\ n < Len(items) /\ n + 1 \in 0..Len(items) /\ n + 1 # 0
        /\ (n + 1) - 1 = n
    OBVIOUS
  <2>2. Yields(f[n], items, n)
    BY <2>1
  <2>3. f[n + 1] = IF items[n + 1] \in Dropped THEN f[n] ELSE Append(f[n], items[n + 1])
    BY <1>2, <2>1
  <2> QED
    BY <2>1, <2>2, <2>3, YieldsMore
<1>5. Len(items) \in T
  <2> HIDE DEF T
  <2>1. T \subseteq Nat
    BY DEF T
  <2>2. T = Nat
    BY <1>3, <1>4, <2>1, Induction
  <2> QED
    BY <2>2
<1> QED
  BY <1>5, ParsedIsLast DEF f

----------------------------------------------------------------------------
(* Items in what was read *)

LEMMA OnceIsOne ==
    ASSUME NEW s, NEW i, NEW p, OnceBy(s, i, p)
    PROVE  Cardinality({n \in 1..Len(s) : s[n] = i}) = 1
<1>1. PICK m : {n \in 1..Len(s) : s[n] = i} = {m}
  BY DEF OnceBy
<1> QED
  BY <1>1, FS_Singleton

LEMMA OnceLater ==
    ASSUME NEW s \in Seq(Items), NEW i, NEW p \in Int, NEW q \in Int, OnceBy(s, i, p),
           p <= q \/ q = Len(s)
    PROVE  OnceBy(s, i, q)
BY DEF OnceBy

LEMMA OnceOfFirst ==
    ASSUME NEW s \in Seq(Items), NEW i, NEW k \in Nat, OnceBy(s, i, k)
    PROVE  OnceBy(First(k, s), i, k)
<1>1. PICK m \in 1..Len(s) : /\ m <= k /\ s[m] = i
                             /\ \A n \in 1..Len(s) : s[n] = i => n = m
  BY DEF OnceBy
<1> DEFINE e == IF k < Len(s) THEN k ELSE Len(s)
<1>2. e \in 0..Len(s) /\ e <= k /\ m \in 1..e
  BY <1>1
<1> HIDE DEF e
<1>3. Len(SubSeq(s, 1, e)) = e /\ \A n \in 1..e : SubSeq(s, 1, e)[n] = s[n]
  BY <1>2
<1>4. \A n \in 1..e : n \in 1..Len(s)
  BY <1>2
<1>5. OnceBy(SubSeq(s, 1, e), i, k)
  BY <1>1, <1>2, <1>3, <1>4 DEF OnceBy
<1> QED
  BY <1>5 DEF First, e

LEMMA InBoth ==
    ASSUME NEW s \in Seq(Items), NEW t \in Seq(Items), NEW i
    PROVE  /\ s \o t \in Seq(Items) /\ Len(s \o t) = Len(s) + Len(t)
           /\ \A p \in Int : OnceBy(s, i, p) /\ Never(t, i) => OnceBy(s \o t, i, p)
           /\ \A p \in Int : Never(s, i) /\ OnceBy(t, i, p) => OnceBy(s \o t, i, Len(s) + p)
           /\ Never(s, i) /\ Never(t, i) => Never(s \o t, i)
<1> DEFINE u == s \o t
<1>1. /\ u \in Seq(Items) /\ Len(u) = Len(s) + Len(t)
      /\ \A n \in 1..Len(s) : u[n] = s[n]
      /\ \A n \in 1..Len(t) : u[Len(s) + n] = t[n]
  OBVIOUS
<1>2. \A n \in 1..Len(u) : n \in 1..Len(s) \/ \E m \in 1..Len(t) : n = Len(s) + m
  <2> SUFFICES ASSUME NEW n \in 1..Len(u), n \notin 1..Len(s)
               PROVE  \E m \in 1..Len(t) : n = Len(s) + m
    OBVIOUS
  <2>1. n - Len(s) \in 1..Len(t) /\ n = Len(s) + (n - Len(s))
    BY <1>1
  <2> QED
    BY <2>1
<1>3. /\ \A n \in 1..Len(s) : n \in 1..Len(u)
      /\ \A n \in 1..Len(t) : Len(s) + n \in 1..Len(u)
  BY <1>1
<1>4. Len(s) \in Nat
  OBVIOUS
<1> HIDE DEF u
<1>5. ASSUME NEW p \in Int, OnceBy(s, i, p), Never(t, i)
      PROVE  OnceBy(u, i, p)
  <2>1. PICK m \in 1..Len(s) : /\ m <= p /\ s[m] = i
                               /\ \A n \in 1..Len(s) : s[n] = i => n = m
    BY <1>5 DEF OnceBy
  <2>2. \A n \in 1..Len(u) : u[n] = i => n = m
    <3> SUFFICES ASSUME NEW n \in 1..Len(u), u[n] = i PROVE n = m
      OBVIOUS
    <3>1. CASE n \in 1..Len(s)
      BY <1>1, <2>1, <3>1
    <3>2. ASSUME NEW k \in 1..Len(t), n = Len(s) + k PROVE FALSE
      BY <1>1, <1>5, <3>2 DEF Never
    <3> QED
      BY <1>2, <3>1, <3>2
  <2> QED
    BY <1>1, <1>3, <2>1, <2>2 DEF OnceBy
<1>6. ASSUME NEW p \in Int, Never(s, i), OnceBy(t, i, p)
      PROVE  OnceBy(u, i, Len(s) + p)
  <2>1. PICK m \in 1..Len(t) : /\ m <= p /\ t[m] = i
                               /\ \A n \in 1..Len(t) : t[n] = i => n = m
    BY <1>6 DEF OnceBy
  <2>2. ASSUME NEW n \in 1..Len(u), u[n] = i PROVE n = Len(s) + m
    <3>1. n \notin 1..Len(s)
      BY <1>1, <1>6, <2>2 DEF Never
    <3>2. PICK k \in 1..Len(t) : n = Len(s) + k
      BY <1>2, <3>1
    <3>3. t[k] = i
      BY <1>1, <2>2, <3>2
    <3> QED
      BY <2>1, <3>2, <3>3
  <2>3. Len(s) + m <= Len(s) + p /\ u[Len(s) + m] = i
    BY <1>1, <1>4, <2>1
  <2> QED
    BY <1>3, <2>1, <2>2, <2>3 DEF OnceBy
<1>7. Never(s, i) /\ Never(t, i) => Never(u, i)
  BY <1>1, <1>2 DEF Never
<1> QED
  BY <1>1, <1>5, <1>6, <1>7 DEF u

----------------------------------------------------------------------------
(* A page *)

LEMMA Parameters ==
    /\ IsFiniteSet(Items) /\ PAGE_SIZE \in Nat /\ PAGE_SIZE >= 1
    /\ \A l \in Limits : l \in Nat /\ l >= 1
BY EndpointsAssumption

LEMMA NextPage ==
    ASSUME NEW k \in Nat
    PROVE  k * PAGE_SIZE \in Nat /\ (k + 1) * PAGE_SIZE = k * PAGE_SIZE + PAGE_SIZE
<1>1. \A m \in Nat : k * m \in Nat /\ (k + 1) * m = k * m + m
  OBVIOUS
<1> QED
  BY <1>1, Parameters

LEMMA ListingType ==
    ASSUME NEW listing \in Listings
    PROVE  listing \in Seq(Items) /\ IsInjective(listing)
<1>1. Cardinality(Items) \in Nat
  BY Parameters, FS_CardinalityType
<1>2. PICK m \in 0..Cardinality(Items) : listing \in [1..m -> Items]
  BY DEF Listings, SeqOf
<1>3. m \in Nat
  BY <1>1
<1> QED
  BY <1>2, <1>3 DEF Listings

LEMMA PageWindow ==
    ASSUME NEW listing \in Listings, cursor \in Nat,
           NEW w, w = First(PAGE_SIZE, SubSeq(listing, cursor + 1, Len(listing)))
    PROVE  /\ w \in Seq(Items) /\ Len(w) <= PAGE_SIZE /\ IsInjective(w)
           /\ \A q \in 1..Len(w) : /\ cursor + q \in 1..Len(listing)
                                   /\ w[q] = listing[cursor + q]
           /\ \A p \in 1..Len(listing) :
                cursor < p /\ p <= cursor + PAGE_SIZE => p - cursor \in 1..Len(w)
<1> DEFINE rest == SubSeq(listing, cursor + 1, Len(listing))
<1>1. listing \in Seq(Items) /\ Len(listing) \in Nat
  BY ListingType
<1>2. /\ rest \in Seq(Items)
      /\ Len(rest) = IF cursor < Len(listing) THEN Len(listing) - cursor ELSE 0
      /\ \A q \in 1..Len(rest) : rest[q] = listing[cursor + q]
  <2>1. CASE cursor < Len(listing)
    BY <1>1, <2>1
  <2>2. CASE ~(cursor < Len(listing))
    <3>1. rest = <<>>
      BY <1>1, <2>2
    <3> QED
      BY <2>2, <3>1
  <2> QED
    BY <2>1, <2>2
<1> HIDE DEF rest
<1> DEFINE e == IF PAGE_SIZE < Len(rest) THEN PAGE_SIZE ELSE Len(rest)
<1>3. e \in 0..Len(rest) /\ e \in Nat /\ e <= PAGE_SIZE
  BY <1>2, Parameters
<1>4. w = SubSeq(rest, 1, e)
  BY DEF First, rest
<1>5. /\ w \in Seq(Items) /\ Len(w) = e
      /\ \A q \in 1..e : w[q] = rest[q]
  <2> HIDE DEF e
  <2>1. SubSeq(rest, 1, e) \in Seq(Items) /\ Len(SubSeq(rest, 1, e)) = e
    BY <1>2, <1>3
  <2>2. \A q \in 1..e : SubSeq(rest, 1, e)[q] = rest[q]
    BY <1>2, <1>3
  <2> QED
    BY <1>4, <2>1, <2>2
<1>6. \A q \in 1..Len(w) : /\ cursor + q \in 1..Len(listing)
                           /\ w[q] = listing[cursor + q]
  BY <1>1, <1>2, <1>3, <1>5
<1>7. \A p \in 1..Len(listing) :
        cursor < p /\ p <= cursor + PAGE_SIZE => p - cursor \in 1..Len(w)
  BY <1>1, <1>2, <1>5, Parameters
<1>8. IsInjective(w)
  <2> SUFFICES ASSUME NEW a \in 1..Len(w), NEW b \in 1..Len(w), w[a] = w[b] PROVE a = b
    BY <1>5 DEF IsInjective
  <2>1. /\ cursor + a \in 1..Len(listing) /\ cursor + b \in 1..Len(listing)
        /\ listing[cursor + a] = listing[cursor + b]
    BY <1>6
  <2>2. \A x, y \in 1..Len(listing) : listing[x] = listing[y] => x = y
    BY <1>1, ListingType DEF IsInjective
  <2>3. cursor + a = cursor + b
    BY <2>1, <2>2
  <2>4. a \in Int /\ b \in Int
    BY <1>5
  <2> QED
    BY <2>3, <2>4
<1> QED
  BY <1>3, <1>5, <1>6, <1>7, <1>8

LEMMA PageReads ==
    ASSUME NEW listing \in Listings, cursor \in Nat
    PROVE  /\ Page(listing) \in Seq(Items) /\ Len(Page(listing)) <= PAGE_SIZE
           /\ \A p \in 1..Len(listing) : listing[p] \notin Dropped =>
                IF cursor < p /\ p <= cursor + PAGE_SIZE
                THEN OnceBy(Page(listing), listing[p], p - cursor)
                ELSE Never(Page(listing), listing[p])
<1> DEFINE w == First(PAGE_SIZE, SubSeq(listing, cursor + 1, Len(listing)))
           out == Page(listing)
<1>1. /\ w \in Seq(Items) /\ Len(w) <= PAGE_SIZE /\ IsInjective(w)
      /\ \A q \in 1..Len(w) : /\ cursor + q \in 1..Len(listing)
                              /\ w[q] = listing[cursor + q]
      /\ \A p \in 1..Len(listing) :
           cursor < p /\ p <= cursor + PAGE_SIZE => p - cursor \in 1..Len(w)
  BY PageWindow
<1>2. Yields(out, w, Len(w))
  BY <1>1, ParsedYields DEF Page
<1> HIDE DEF w, out
<1>3. /\ out \in Seq(Items) /\ Len(out) \in Nat /\ Len(w) \in Nat
      /\ Len(out) <= PAGE_SIZE
  BY <1>1, <1>2, Parameters DEF Yields
<1>4. ASSUME NEW p \in 1..Len(listing), listing[p] \notin Dropped,
             cursor < p, p <= cursor + PAGE_SIZE
      PROVE  OnceBy(out, listing[p], p - cursor)
  <2>1. p - cursor \in 1..Len(w) /\ cursor + (p - cursor) = p
    BY <1>1, <1>4
  <2>2. w[p - cursor] = listing[p]
    BY <1>1, <2>1
  <2> QED
    BY <1>2, <1>4, <2>1, <2>2 DEF Yields
<1>5. ASSUME NEW p \in 1..Len(listing), ~(cursor < p /\ p <= cursor + PAGE_SIZE)
      PROVE  Never(out, listing[p])
  <2> SUFFICES ASSUME NEW n \in 1..Len(out), out[n] = listing[p] PROVE FALSE
    BY DEF Never
  <2>1. PICK q \in 1..Len(w) : listing[cursor + q] = listing[p]
    BY <1>1, <1>2 DEF Yields
  <2>2. cursor + q = p
    <3>1. listing \in Seq(Items) /\ cursor + q \in 1..Len(listing)
      BY <1>1, ListingType
    <3> QED
      BY <2>1, <3>1, ListingType DEF IsInjective
  <2> QED
    BY <1>1, <1>3, <1>5, <2>2, Parameters
<1> QED
  BY <1>3, <1>4, <1>5 DEF out

----------------------------------------------------------------------------
(* A walk of the pages *)

LEMMA PlaceOnPage ==
    ASSUME NEW p \in Nat, p >= 1, NEW page \in Nat, page >= 1,
           (p - 1) \div PAGE_SIZE = page - 1, NEW k \in Nat
    PROVE  /\ page <= k => p <= k * PAGE_SIZE
           /\ page = k + 1 => k * PAGE_SIZE < p /\ p <= k * PAGE_SIZE + PAGE_SIZE
           /\ page > k => k * PAGE_SIZE < p
<1> DEFINE q == (p - 1) \div PAGE_SIZE
<1>1. PAGE_SIZE \in Nat \ {0} /\ p - 1 \in Nat
  BY Parameters
<1>2. q \in Nat /\ q * PAGE_SIZE <= p - 1 /\ p - 1 < (q + 1) * PAGE_SIZE
  BY <1>1
<1>3. page = q + 1
  OBVIOUS
<1> HIDE DEF q
<1>4. CASE page <= k
  <2>1. (q + 1) * PAGE_SIZE <= k * PAGE_SIZE
    BY <1>1, <1>2, <1>3, <1>4
  <2>2. (q + 1) * PAGE_SIZE \in Int /\ k * PAGE_SIZE \in Int
    BY <1>1, <1>2
  <2> QED
    BY <1>2, <1>3, <1>4, <2>1, <2>2
<1>5. CASE page > k
  <2>1. k * PAGE_SIZE <= q * PAGE_SIZE
    BY <1>1, <1>2, <1>3, <1>5
  <2>2. (q + 1) * PAGE_SIZE = q * PAGE_SIZE + PAGE_SIZE /\ q * PAGE_SIZE \in Int
    BY <1>1, <1>2
  <2>3. k * PAGE_SIZE \in Int
    BY <1>1
  <2>4. k * PAGE_SIZE < p
    BY <1>1, <1>2, <2>1, <2>2, <2>3
  <2>5. page = k + 1 => q = k
    BY <1>2, <1>3
  <2> QED
    BY <1>1, <1>2, <1>3, <1>5, <2>2, <2>3, <2>4, <2>5
<1> QED
  BY <1>4, <1>5

\* An item at home is read with its page, and neither before nor after.
AtHome(i, page) ==
    Home(i, page) =>
        IF page <= Len(places) THEN OnceBy(got, i, Len(got)) ELSE Never(got, i)

Walking ==
    /\ cursor = Len(places) * PAGE_SIZE /\ Len(got) <= cursor
    /\ endpoint = "get_top_games" => Len(got) < limit
    /\ \A i \in Items \ Dropped, page \in Nat \ {0} : AtHome(i, page)

WalkInv ==
    endpoint # "none" =>
        /\ endpoint \in {"get_top_games", "get_streams"} /\ limit \in Nat
        /\ got \in Seq(Items) /\ places \in Seq(Listings)
        /\ result = "reading" => Walking
        /\ SettledReadOnce

\* One page more, and what it adds.
LEMMA ReadOn ==
    ASSUME WalkInv, endpoint # "none", result = "reading", NEW listing \in Listings,
           endpoint' = endpoint, limit' = limit, places' = Append(places, listing),
           NEW all, all = got \o Page(listing)
    PROVE  /\ places' \in Seq(Listings) /\ Len(places') = Len(places) + 1
           /\ all \in Seq(Items) /\ Len(all) <= cursor + PAGE_SIZE
           /\ cursor \in Nat /\ cursor + PAGE_SIZE = Len(places') * PAGE_SIZE
           /\ \A i \in Items \ Dropped, page \in Nat \ {0} : Home(i, page)' =>
                /\ page <= Len(places') =>
                     /\ OnceBy(all, i, Len(all))
                     /\ endpoint = "get_top_games" => OnceBy(all, i, limit)
                /\ page > Len(places') =>
                     /\ Never(all, i) /\ cursor + PAGE_SIZE < Len(listing)
                     /\ endpoint = "get_top_games" => cursor + PAGE_SIZE < limit
<1>1. /\ limit \in Nat /\ got \in Seq(Items) /\ places \in Seq(Listings) /\ Walking
      /\ Len(got) \in Nat /\ Len(places) \in Nat /\ Listings # {}
  BY DEF WalkInv
<1>2. /\ places' \in Seq(Listings) /\ Len(places') = Len(places) + 1
      /\ places'[Len(places) + 1] = listing
      /\ \A n \in 1..Len(places) : places'[n] = places[n] /\ n \in 1..Len(places')
      /\ Len(places) + 1 \in 1..Len(places')
  BY <1>1
<1>3. /\ cursor \in Nat /\ cursor = Len(places) * PAGE_SIZE
      /\ cursor + PAGE_SIZE = Len(places') * PAGE_SIZE
  <2>1. PICK k \in Nat : k = Len(places)
    BY <1>1
  <2>2. cursor = k * PAGE_SIZE
    BY <1>1, <2>1 DEF Walking
  <2>3. k * PAGE_SIZE \in Nat /\ (k + 1) * PAGE_SIZE = k * PAGE_SIZE + PAGE_SIZE
    BY NextPage
  <2> QED
    BY <1>2, <2>1, <2>2, <2>3
<1>4. /\ Page(listing) \in Seq(Items) /\ Len(Page(listing)) <= PAGE_SIZE
      /\ \A p \in 1..Len(listing) : listing[p] \notin Dropped =>
           IF cursor < p /\ p <= cursor + PAGE_SIZE
           THEN OnceBy(Page(listing), listing[p], p - cursor)
           ELSE Never(Page(listing), listing[p])
  BY <1>3, PageReads
<1>5. listing \in Seq(Items)
  BY ListingType
<1> DEFINE new == Page(listing)
<1> HIDE DEF new
<1>6. new \in Seq(Items) /\ Len(new) <= PAGE_SIZE /\ Len(new) \in Nat
  BY <1>4 DEF new
<1>7. /\ all \in Seq(Items) /\ Len(all) = Len(got) + Len(new)
      /\ Len(all) <= cursor + PAGE_SIZE
  BY <1>1, <1>3, <1>6, InBoth, Parameters DEF new, Walking
<1>8. ASSUME NEW i \in Items \ Dropped, NEW page \in Nat \ {0}, Home(i, page)'
      PROVE  /\ page <= Len(places') =>
                  /\ OnceBy(all, i, Len(all))
                  /\ endpoint = "get_top_games" => OnceBy(all, i, limit)
             /\ page > Len(places') =>
                  /\ Never(all, i) /\ cursor + PAGE_SIZE < Len(listing)
                  /\ endpoint = "get_top_games" => cursor + PAGE_SIZE < limit
  <2>0. \A a, b \in Int : OnceBy(all, i, a) /\ (a <= b \/ b = Len(all)) => OnceBy(all, i, b)
    BY <1>7, OnceLater
  <2>1. Home(i, page)
    BY <1>2, <1>8 DEF Home
  <2>2. PICK p \in 1..Len(listing) :
             /\ listing[p] = i /\ (p - 1) \div PAGE_SIZE = page - 1
             /\ endpoint = "get_top_games" => p <= limit
    BY <1>2, <1>8 DEF Home
  <2>3. p \in Nat /\ p >= 1 /\ page >= 1 /\ Len(listing) \in Nat
    BY <1>5
  <2>4. /\ page <= Len(places) => p <= cursor
        /\ page = Len(places) + 1 => cursor < p /\ p <= cursor + PAGE_SIZE
        /\ page > Len(places) + 1 => cursor + PAGE_SIZE < p
    BY <1>1, <1>2, <1>3, <2>2, <2>3, PlaceOnPage
  <2>5. IF cursor < p /\ p <= cursor + PAGE_SIZE
        THEN OnceBy(new, i, p - cursor) ELSE Never(new, i)
    BY <1>4, <1>8, <2>2 DEF new
  <2>6. IF page <= Len(places) THEN OnceBy(got, i, Len(got)) ELSE Never(got, i)
    BY <1>1, <1>8, <2>1 DEF Walking, AtHome
  <2>7. CASE page <= Len(places)
    <3>1. OnceBy(all, i, Len(got))
      <4>1. Never(new, i)
        BY <1>3, <2>3, <2>4, <2>5, <2>7
      <4> QED
        BY <1>1, <1>6, <2>6, <2>7, <4>1, InBoth DEF new
    <3>2. OnceBy(all, i, Len(all)) /\ (Len(got) < limit => OnceBy(all, i, limit))
      BY <1>1, <1>6, <1>7, <2>0, <3>1
    <3> QED
      BY <1>1, <1>2, <2>7, <3>2 DEF Walking
  <2>8. CASE page = Len(places) + 1
    <3>1. OnceBy(all, i, Len(got) + (p - cursor))
      <4>1. OnceBy(new, i, p - cursor) /\ Never(got, i) /\ p - cursor \in Int
        BY <1>1, <1>3, <2>3, <2>4, <2>5, <2>6, <2>8
      <4> QED
        BY <1>1, <1>6, <4>1, InBoth DEF new
    <3>2. Len(got) + (p - cursor) <= p /\ Len(got) + (p - cursor) \in Int
      BY <1>1, <1>3, <2>3 DEF Walking
    <3>3. OnceBy(all, i, p)
      BY <2>0, <2>3, <3>1, <3>2
    <3>4. OnceBy(all, i, Len(all)) /\ (p <= limit => OnceBy(all, i, limit))
      BY <1>1, <1>6, <1>7, <2>0, <2>3, <3>3
    <3> QED
      BY <1>1, <1>2, <2>2, <2>8, <3>4
  <2>9. CASE page > Len(places) + 1
    <3>1. Never(new, i) /\ Never(got, i)
      BY <1>1, <1>3, <2>3, <2>4, <2>5, <2>6, <2>9, Parameters
    <3>2. Never(all, i)
      BY <1>1, <1>6, <3>1, InBoth DEF new
    <3>3. /\ cursor + PAGE_SIZE < Len(listing)
          /\ endpoint = "get_top_games" => cursor + PAGE_SIZE < limit
      BY <1>1, <1>3, <2>2, <2>3, <2>4, <2>9, Parameters
    <3> QED
      BY <1>1, <1>2, <2>9, <3>2, <3>3
  <2> QED
    BY <1>1, <2>7, <2>8, <2>9
<1> QED
  BY <1>2, <1>3, <1>7, <1>8

LEMMA FirstType ==
    ASSUME NEW s \in Seq(Items), NEW k \in Nat
    PROVE  First(k, s) \in Seq(Items)
<1>1. PICK e \in 0..Len(s) : First(k, s) = SubSeq(s, 1, e)
  BY DEF First
<1> QED
  BY <1>1

LEMMA PagesForLimit ==
    ASSUME NEW n \in Nat
    PROVE  n <= PagesFor(n) * PAGE_SIZE
<1>1. PAGE_SIZE \in Nat \ {0} /\ n + PAGE_SIZE - 1 \in Nat
  BY Parameters
<1> DEFINE q == (n + PAGE_SIZE - 1) \div PAGE_SIZE
<1>2. q \in Nat /\ n + PAGE_SIZE - 1 < (q + 1) * PAGE_SIZE
  BY <1>1
<1>3. (q + 1) * PAGE_SIZE = q * PAGE_SIZE + PAGE_SIZE /\ q * PAGE_SIZE \in Int
  BY <1>1, <1>2
<1> HIDE DEF q
<1>4. n <= q * PAGE_SIZE
  BY <1>1, <1>2, <1>3
<1> QED
  BY <1>4 DEF PagesFor, q

\* As long as the list goes on there is a cursor, which moves by a page.
LEMMA CursorGoesOn ==
    ASSUME cursor \in Nat, NEW listing \in Listings, NEW c \in Cursors(listing)
    PROVE  /\ c # NoCursor => c = cursor + PAGE_SIZE
           /\ cursor + PAGE_SIZE < Len(listing) => c # NoCursor
BY Parameters DEF Cursors, NoCursor

LEMMA SettledPages == \A page \in 1..Cardinality(Items) : page \in Nat \ {0}
BY Parameters, FS_CardinalityType

LEMMA TopGamesStep ==
    ASSUME WalkInv, endpoint # "none", result = "reading", ReadTopGames
    PROVE  WalkInv'
<1>0. PICK listing \in Listings : \E c \in Cursors(listing) :
         LET games == got \o Page(listing)
             over == \/ c = NoCursor \/ Len(games) >= limit
                     \/ Len(places) + 1 = PagesFor(limit)
         IN  /\ cursor' = c
             /\ places' = Append(places, listing)
             /\ got' = IF over THEN First(limit, games) ELSE games
             /\ result' = IF over THEN "returned" ELSE result
  BY DEF ReadTopGames
<1>1. PICK c \in Cursors(listing) :
         LET games == got \o Page(listing)
             over == \/ c = NoCursor \/ Len(games) >= limit
                     \/ Len(places) + 1 = PagesFor(limit)
         IN  /\ cursor' = c
             /\ places' = Append(places, listing)
             /\ got' = IF over THEN First(limit, games) ELSE games
             /\ result' = IF over THEN "returned" ELSE result
  BY <1>0
<1>2. /\ endpoint = "get_top_games" /\ endpoint' = endpoint /\ limit' = limit
      /\ limit \in Nat
  BY DEF ReadTopGames, WalkInv
<1> DEFINE all == got \o Page(listing)
           over == \/ c = NoCursor \/ Len(all) >= limit
                   \/ Len(places) + 1 = PagesFor(limit)
<1>3. /\ cursor' = c /\ places' = Append(places, listing)
      /\ got' = IF over THEN First(limit, all) ELSE all
      /\ result' = IF over THEN "returned" ELSE result
  BY <1>1
<1>4. /\ places' \in Seq(Listings) /\ Len(places') = Len(places) + 1
      /\ all \in Seq(Items) /\ Len(all) <= cursor + PAGE_SIZE
      /\ cursor \in Nat /\ cursor + PAGE_SIZE = Len(places') * PAGE_SIZE
      /\ \A i \in Items \ Dropped, page \in Nat \ {0} : Home(i, page)' =>
           /\ page <= Len(places') => OnceBy(all, i, Len(all)) /\ OnceBy(all, i, limit)
           /\ page > Len(places') =>
                /\ Never(all, i) /\ cursor + PAGE_SIZE < Len(listing)
                /\ cursor + PAGE_SIZE < limit
  BY <1>2, <1>3, ReadOn
<1> HIDE DEF all
<1>5. /\ c # NoCursor => c = cursor + PAGE_SIZE
      /\ cursor + PAGE_SIZE < Len(listing) => c # NoCursor
  BY <1>4, CursorGoesOn
<1>6. Len(all) \in Nat /\ Len(places') \in Nat
  BY <1>4
<1>7. CASE over
  <2>1. cursor + PAGE_SIZE < Len(listing) => ~(cursor + PAGE_SIZE < limit)
    <3>1. Len(places) + 1 = PagesFor(limit) => limit <= cursor + PAGE_SIZE
      BY <1>2, <1>4, PagesForLimit
    <3> QED
      BY <1>2, <1>4, <1>5, <1>6, <1>7, <3>1, Parameters
  <2>2. got' = First(limit, all) /\ got' \in Seq(Items) /\ result' = "returned"
    BY <1>2, <1>3, <1>4, <1>7, FirstType
  <2>3. ASSUME NEW i \in Items \ Dropped, NEW page \in 1..Cardinality(Items), Home(i, page)'
        PROVE  Cardinality({n \in 1..Len(got') : got'[n] = i}) = 1
    <3>1. page \in Nat \ {0}
      BY SettledPages
    <3>2. page <= Len(places')
      BY <1>4, <1>6, <2>1, <2>3, <3>1
    <3>3. OnceBy(got', i, limit)
      BY <1>2, <1>4, <2>2, <2>3, <3>1, <3>2, OnceOfFirst
    <3> QED
      BY <3>3, OnceIsOne
  <2>4. SettledReadOnce'
    BY <2>3 DEF SettledReadOnce
  <2> QED
    BY <1>2, <1>4, <2>2, <2>4 DEF WalkInv
<1>8. CASE ~over
  <2>1. got' = all /\ result' = "reading" /\ cursor' = cursor + PAGE_SIZE
    BY <1>3, <1>5, <1>8
  <2>2. Len(all) < limit
    BY <1>2, <1>6, <1>8
  <2>3. ASSUME NEW i \in Items \ Dropped, NEW page \in Nat \ {0} PROVE AtHome(i, page)'
    BY <1>4, <1>6, <2>1 DEF AtHome
  <2>4. Walking'
    BY <1>2, <1>4, <2>1, <2>2, <2>3 DEF Walking
  <2>5. SettledReadOnce'
    BY <2>1 DEF SettledReadOnce
  <2> QED
    BY <1>2, <1>4, <2>1, <2>4, <2>5 DEF WalkInv
<1> QED
  BY <1>7, <1>8

LEMMA StreamsStep ==
    ASSUME WalkInv, endpoint # "none", result = "reading", ReadStreams
    PROVE  WalkInv'
<1>0. PICK listing \in Listings : \E c \in Cursors(listing) :
         LET capped == c # NoCursor /\ Len(places) + 1 = MaxPages
         IN  /\ cursor' = c
             /\ places' = Append(places, listing)
             /\ got' = got \o Page(listing)
             /\ truncated' = capped
             /\ result' = IF c = NoCursor \/ capped THEN "returned" ELSE result
  BY DEF ReadStreams
<1>1. PICK c \in Cursors(listing) :
         LET capped == c # NoCursor /\ Len(places) + 1 = MaxPages
         IN  /\ cursor' = c
             /\ places' = Append(places, listing)
             /\ got' = got \o Page(listing)
             /\ truncated' = capped
             /\ result' = IF c = NoCursor \/ capped THEN "returned" ELSE result
  BY <1>0
<1>2. /\ endpoint = "get_streams" /\ endpoint' = endpoint /\ limit' = limit
      /\ limit \in Nat
  BY DEF ReadStreams, WalkInv
<1> DEFINE all == got \o Page(listing)
<1>3. /\ cursor' = c /\ places' = Append(places, listing) /\ got' = all
      /\ result' = "returned" => c = NoCursor \/ truncated'
      /\ result' = "reading" => c # NoCursor
  BY <1>1
<1>4. /\ places' \in Seq(Listings) /\ Len(places') = Len(places) + 1
      /\ all \in Seq(Items) /\ Len(all) <= cursor + PAGE_SIZE
      /\ cursor \in Nat /\ cursor + PAGE_SIZE = Len(places') * PAGE_SIZE
      /\ \A i \in Items \ Dropped, page \in Nat \ {0} : Home(i, page)' =>
           /\ page <= Len(places') => OnceBy(all, i, Len(all))
           /\ page > Len(places') => Never(all, i) /\ cursor + PAGE_SIZE < Len(listing)
  BY <1>2, <1>3, ReadOn
<1> HIDE DEF all
<1>5. /\ c # NoCursor => c = cursor + PAGE_SIZE
      /\ cursor + PAGE_SIZE < Len(listing) => c # NoCursor
  BY <1>4, CursorGoesOn
<1>6. Len(places') \in Nat
  BY <1>4
<1>7. result' = "reading" => Walking'
  <2> SUFFICES ASSUME result' = "reading" PROVE Walking'
    OBVIOUS
  <2>1. ASSUME NEW i \in Items \ Dropped, NEW page \in Nat \ {0} PROVE AtHome(i, page)'
    BY <1>3, <1>4, <1>6 DEF AtHome
  <2> QED
    BY <1>2, <1>3, <1>4, <1>5, <2>1 DEF Walking
<1>8. SettledReadOnce'
  <2> SUFFICES ASSUME result' = "returned",
                      NEW i \in Items \ Dropped, NEW page \in 1..Cardinality(Items),
                      Home(i, page)'
               PROVE  \/ Cardinality({n \in 1..Len(got') : got'[n] = i}) = 1
                      \/ truncated' /\ \A n \in 1..Len(got') : got'[n] # i
    BY DEF SettledReadOnce
  <2>1. page \in Nat \ {0}
    BY SettledPages
  <2>2. CASE page <= Len(places')
    <3>1. OnceBy(got', i, Len(all))
      BY <1>3, <1>4, <2>1, <2>2
    <3> QED
      BY <3>1, OnceIsOne
  <2>3. CASE page > Len(places')
    BY <1>3, <1>4, <1>5, <2>1, <2>3 DEF Never
  <2> QED
    BY <1>6, <2>1, <2>2, <2>3
<1> QED
  BY <1>2, <1>3, <1>4, <1>7, <1>8 DEF WalkInv

LEMMA NextWalkInv == WalkInv /\ [Next]_vars => WalkInv'
<1> SUFFICES ASSUME WalkInv, [Next]_vars PROVE WalkInv'
  OBVIOUS
<1>1. CASE UNCHANGED paging
  <2>1. /\ endpoint' = endpoint /\ limit' = limit /\ result' = result /\ cursor' = cursor
        /\ got' = got /\ truncated' = truncated /\ places' = places
    BY <1>1 DEF paging
  <2>2. \A i, page : Home(i, page)' <=> Home(i, page)
    BY <2>1 DEF Home
  <2>3. SettledReadOnce' <=> SettledReadOnce
    BY <2>1, <2>2 DEF SettledReadOnce
  <2>4. \A i, page : AtHome(i, page)' <=> AtHome(i, page)
    BY <2>1, <2>2 DEF AtHome
  <2>5. Walking' <=> Walking
    BY <2>1, <2>4 DEF Walking
  <2> QED
    BY <2>1, <2>3, <2>5 DEF WalkInv
<1>2. CASE ReadPage
  <2>1. CASE PageFails
    BY <2>1 DEF PageFails, WalkInv, SettledReadOnce
  <2>2. CASE ReadTopGames
    BY <1>2, <2>2, TopGamesStep DEF ReadPage, ReadTopGames
  <2>3. CASE ReadStreams
    BY <1>2, <2>3, StreamsStep DEF ReadPage, ReadStreams
  <2> QED
    BY <1>2, <2>1, <2>2, <2>3 DEF ReadPage
<1> QED
  BY <1>1, <1>2 DEF Next, vars, NextTier, TakeHit, ConfirmCase, SearchTitle, LookupFails

\* An item that keeps its page is read exactly once, however the rest of the list
\* moves between the pages, or the result says that it is truncated: cursors step
\* by whole pages, and as many are read as the limit implies (client.py:158, 205).
THEOREM SettledIsReadOnce == Spec => []SettledReadOnce
<1>1. Init => WalkInv
  <2> SUFFICES ASSUME PagingInit PROVE WalkInv
    BY DEF Init, NoPaging, WalkInv
  <2>1. /\ endpoint \in {"get_top_games", "get_streams"} /\ limit \in Nat
        /\ endpoint = "get_top_games" => 0 < limit
    BY Parameters DEF PagingInit
  <2>2. /\ result = "reading" /\ cursor = 0 /\ got = <<>> /\ places = <<>>
        /\ got \in Seq(Items) /\ places \in Seq(Listings)
        /\ Len(got) = 0 /\ Len(places) = 0
    BY DEF PagingInit, NoCursor
  <2>3. Walking
    <3>1. \A i \in Items \ Dropped, page \in Nat \ {0} : AtHome(i, page)
      BY <2>2 DEF AtHome, Never
    <3> QED
      BY <2>1, <2>2, <3>1, Parameters DEF Walking
  <2> QED
    BY <2>1, <2>2, <2>3 DEF WalkInv, SettledReadOnce
<1>2. WalkInv => SettledReadOnce
  BY DEF WalkInv, SettledReadOnce
<1> QED
  BY <1>1, <1>2, NextWalkInv, PTL DEF Spec
=============================================================================
