------------------------------ MODULE Resolve ------------------------------
(***************************************************************************)
(* resolve_titles (src/twitch_scout/steam/resolve.py): from the names of a  *)
(* Steam library to Twitch categories, in tiers, each for what those before *)
(* left unresolved, under one budget of searches.  A name is its words,     *)
(* what separates them, and its case; accents, punctuation and marks, which *)
(* every comparison but one ignores, are left out.                          *)
(***************************************************************************)
EXTENDS Endpoints

CONSTANTS
    Titles,      \* names the games on Steam may have
    Categories,  \* [name, id], what there may be on Twitch
    Games,       \* the number of games in the library
    Aliases,     \* aliases.toml: from the key of a name to a name
    Editions,    \* words that name an edition after a separator
    FullEditions,    \* and those that do so after a space: "... edition"
    Parentheticals,  \* words in parentheses
    TestBuilds,  \* words that name a test build
    Budgets      \* _MAX_SEARCHES

Separators == {"dash", "colon", "spaced"}
Name == [words : Seq(STRING), seps : Seq(Separators \cup {"space"}), case : STRING]

ASSUME ResolveAssumption ==
    /\ \A n \in Titles \cup {c.name : c \in Categories} :
          n \in Name /\ Len(n.seps) = Len(n.words) - 1
    /\ IsFiniteSet(Categories)
    /\ Games \in Nat /\ Budgets \subseteq Nat

VARIABLES
    categories,
    titles,   \* by game, in the order of the library
    tier,     \* an index of Tiers, or beyond it
    hits,     \* what Get Games returned for the tier
    todo,     \* the games the tier has still to look at, in their order
    tried,    \* how many names of the first of them it has tried
    budget,
    matches,  \* game -> category, or NoMatch
    via       \* the tier of a match; the code records all but "exact"

resolving == <<categories, titles, tier, hits, todo, tried, budget, matches, via>>
vars == <<paging, resolving>>

Tiers == <<"alias", "exact", "variant", "edition", "search">>
NoMatch == [name |-> [words |-> <<>>, seps |-> <<>>, case |-> "none"], id |-> 0]

Init ==
    /\ \/ /\ PagingInit /\ tier = Len(Tiers) + 1
          /\ categories = {} /\ titles = <<>>
       \/ /\ NoPaging /\ tier = 0
          /\ categories \in SUBSET Categories
          /\ titles \in [1..Games -> Titles]
    /\ hits = <<>> /\ todo = {} /\ tried = 0
    /\ budget \in Budgets
    /\ matches = [a \in 1..Games |-> NoMatch]
    /\ via = [a \in 1..Games |-> "none"]

----------------------------------------------------------------------------
(* Names *)

Cut(n, k) == [n EXCEPT !.words = SubSeq(@, 1, k), !.seps = SubSeq(@, 1, k - 1)]

\* After which words there is more than a space.
Marks(n) == {i \in DOMAIN n.seps : n.seps[i] \in Separators}

\* "Series: Title - Expansion", with no dash between the first colon and the last.
ExpansionMarks(n) ==
    LET dashes == {i \in Marks(n) : n.seps[i] = "dash"}
        colons == Marks(n) \ dashes
    IN  {last \in dashes :
            /\ colons # {} /\ \A i \in colons : i < last
            /\ \A i \in dashes \ {last}, j \in colons : i < j}

StripExpansion(n) ==
    IF ExpansionMarks(n) = {} THEN n ELSE Cut(n, CHOOSE k \in ExpansionMarks(n) : TRUE)

\* The last word goes, if it is one of these and so separated.
StripLast(n, seps, words) ==
    IF Len(n.words) > 1 /\ Last(n.seps) \in seps /\ Last(n.words) \in words
    THEN Cut(n, Len(n.words) - 1) ELSE n

\* A parenthetical, an edition, one without a separator, an expansion, each of what
\* the ones before left.  The name itself where _strip_edition returns None.
StripEdition(n) ==
    LET plain == StripLast(n, {"space"}, Parentheticals)
        separated == StripLast(plain, Separators, Editions)
        bare == StripLast(separated, {"space"}, FullEditions)
    IN  StripExpansion(bare)

\* _base_title: what comes before the first separator.
BaseTitle(n) == IF Marks(n) = {} THEN n ELSE Cut(n, Min(Marks(n)))

Unify(n, sep) == [n EXCEPT !.seps = [i \in DOMAIN @ |-> IF @[i] = sep THEN "colon" ELSE @[i]]]

\* _fold(g).startswith(_fold(t) + ":")
IsSubtitled(g, t) ==
    LET end == Len(t.words)
    IN  /\ IsPrefix(t.words, g.words)
        /\ Marks(g) \cap (1..end) = Marks(t) \cup {end}

Alias(n) == IF Key(n) \in DOMAIN Aliases THEN <<Aliases[Key(n)]>> ELSE <<>>

\* What is no other name is no candidate.
Changed(v, n) == IF v = n THEN <<>> ELSE <<v>>
Variants(n) == Changed(Unify(n, "dash"), n) \o Changed(Unify(n, "spaced"), n)
Edition(n) == Changed(StripEdition(n), n)

\* Slip: a result may equal the base of the title.
SearchTitlesCut(n) == <<n>> \o Edition(n) \o <<BaseTitle(n)>>

\* What a result of a search is compared with.
SearchTitles(n) == <<n>> \o Edition(n)

Queries(n) ==
    LET known == <<n>> \o Edition(n)
    IN  IF BaseTitle(n) \in Range(known) THEN known ELSE Append(known, BaseTitle(n))

\* The candidate names of a tier, in their order.
Options(t, n) ==
    CASE Tiers[t] = "alias"   -> Alias(n)
      [] Tiers[t] = "exact"   -> <<n>>
      [] Tiers[t] = "variant" -> Variants(n)
      [] Tiers[t] = "edition" -> Edition(n)
      [] Tiers[t] = "search"  -> Queries(n)

----------------------------------------------------------------------------
(* The tiers *)

Pending(a) == Last(titles[a].words) \notin TestBuilds
Unresolved(a) == Pending(a) /\ matches[a] = NoMatch

Candidates(t) == {a \in 1..Games : Unresolved(a) /\ Options(t, titles[a]) # <<>>}
NamesOf(t) == UNION {Range(Options(t, titles[a])) : a \in Candidates(t)}

\* A tier begins: but for the search, Get Games for all its names at once.
NextTier ==
    /\ todo = {} /\ tier < Len(Tiers)
    /\ tier' = tier + 1
    /\ todo' = Candidates(tier + 1)
    /\ hits' \in IF Tiers[tier + 1] = "search" THEN {<<>>}
                 ELSE GetGamesByName(categories, NamesOf(tier + 1))
    /\ UNCHANGED <<paging, categories, titles, tried, budget, matches, via>>

Game == CHOOSE a \in todo : \A b \in todo : a <= b
Option == Options(tier, titles[Game])[tried + 1]

\* A game is through with its tier, or a name of it is.
DropGame == todo' = todo \ {Game} /\ tried' = 0
DropOption ==
    IF tried + 1 < Len(Options(tier, titles[Game]))
    THEN tried' = tried + 1 /\ UNCHANGED todo
    ELSE DropGame

Accept(c) ==
    /\ matches' = [matches EXCEPT ![Game] = c]
    /\ via' = [via EXCEPT ![Game] = Tiers[tier]]
    /\ DropGame

Refuse(Drop) == Drop /\ UNCHANGED <<matches, via>>

InExactTier == todo # {} /\ Tiers[tier] # "search"

\* Slip: every hit is confirmed.
NeedsConfirmationAlways == Key(Option) \in DOMAIN hits

\* A hit that is not spelt as asked.
NeedsConfirmation == Key(Option) \in DOMAIN hits /\ hits[Key(Option)].name # Option

TakeHit ==
    /\ InExactTier /\ ~NeedsConfirmation
    /\ IF Key(Option) \in DOMAIN hits THEN Accept(hits[Key(Option)]) ELSE Refuse(DropOption)
    /\ UNCHANGED <<paging, categories, titles, tier, hits, budget>>

\* Slip: the hit taken although another category is so spelt.
TheOneMeantOrHit(same) == {hits[Key(Option)]}

\* Of the categories so spelt the only one, or else the only one in this case.
TheOneMeant(same) ==
    IF Cardinality(same) = 1 THEN same ELSE {c \in same : c.name = Option}

\* _confirm_case
ConfirmCase ==
    /\ InExactTier /\ NeedsConfirmation
    /\ IF budget = 0 THEN Refuse(DropOption) /\ UNCHANGED budget
       ELSE /\ budget' = budget - 1
            /\ \E found \in SearchCategories(categories, Option) :
                  LET same == {c \in found : Key(c.name) = Key(Option)} \cup {hits[Key(Option)]}
                      meant == TheOneMeant(same)
                  IN  IF Cardinality(meant) = 1 THEN \E c \in meant : Accept(c)
                      ELSE Refuse(DropOption)
    /\ UNCHANGED <<paging, categories, titles, tier, hits>>

\* _pick: the results equal to a title, but for separators and case, or else those
\* that are one with a subtitle.
Pick(found) ==
    LET accepted == Range(SearchTitles(titles[Game]))
        equal == {c \in found : \E t \in accepted : c.name.words = t.words}
    IN  IF equal # {} THEN equal
        ELSE {c \in found : \E t \in accepted : IsSubtitled(c.name, t)}

\* _canonical: of categories of one name, the one Get Games returns.
Canonical(tied) ==
    IF Cardinality({c.name : c \in tied}) # 1 THEN {{}}
    ELSE {tied \cap {byKey[k] : k \in DOMAIN byKey} :
            byKey \in GetGamesByName(categories, {c.name : c \in tied})}

\* Without budget all that is left stays unresolved.
SearchTitle ==
    /\ todo # {} /\ Tiers[tier] = "search"
    /\ IF budget = 0
       THEN todo' = {} /\ tried' = 0 /\ UNCHANGED <<budget, matches, via>>
       ELSE /\ budget' = budget - 1
            /\ \E found \in SearchCategories(categories, Option) :
                  LET picked == Pick(found)
                  IN  IF picked = {} THEN Refuse(DropOption)
                      ELSE \E c \in IF Cardinality(picked) = 1 THEN {picked}
                                    ELSE Canonical(picked) :
                              IF c = {} THEN Refuse(DropGame) ELSE \E g \in c : Accept(g)
    /\ UNCHANGED <<paging, categories, titles, tier, hits>>

\* A lookup raises, and the sync with it.
LookupFails ==
    /\ tier <= Len(Tiers) /\ (tier = 0 \/ todo # {})
    /\ tier' = Len(Tiers) + 1 /\ todo' = {} /\ tried' = 0
    /\ matches' = [a \in 1..Games |-> NoMatch]
    /\ UNCHANGED <<paging, categories, titles, hits, budget, via>>

Next ==
    \/ ReadPage /\ UNCHANGED resolving
    \/ NextTier \/ TakeHit \/ ConfirmCase \/ SearchTitle \/ LookupFails

Spec == Init /\ [][Next]_vars

----------------------------------------------------------------------------
(* Properties *)

Matched == {a \in 1..Games : matches[a] # NoMatch}

\* "Acceptance always compares against the full (or edition-stripped) Steam name,
\* never a truncated base" (resolve.py:225): whatever Twitch answers, a match has all
\* the words of the name but its edition.
NeverCut ==
    \A a \in Matched :
        via[a] # "alias" => IsPrefix(StripEdition(titles[a]).words, matches[a].name.words)

\* The names under which the tiers may ask for a game.
Forms(n) ==
    Range(Alias(n)) \cup {n} \cup Range(Variants(n)) \cup Range(Edition(n))

\* Of two categories that differ only by case the one spelt like the game is not
\* passed over for its twin, though Get Games returned the twin, and whichever of
\* the names of the game it was asked for (resolve.py:171).  The search tier has no
\* such promise: its results may lack the right one.  Nor has a game with more
\* twins than a page of results holds.
TwinNeverTaken ==
    \A a \in {b \in Matched : via[b] # "search"} :
        LET m == matches[a].name
            forms == Forms(titles[a])
            twins == Spelt(categories, m)
        IN  Cardinality(twins) <= SEARCH_PAGE_SIZE =>
                m \in forms \/ ~\E c \in twins : c.name \in forms

\* A budget that is spent costs no game whose name is, as it is spelt, that of one
\* category: it is matched, if not by an alias, wherever it stands (resolve.py:145).
HitNeedsNoSearch ==
    endpoint = "none" /\ tier = Len(Tiers) /\ todo = {} =>
        \A a \in 1..Games : \A c \in categories :
            /\ Pending(a) /\ c.name = titles[a]
            /\ \A d \in categories \ {c} : Key(d.name) # Key(c.name)
            => matches[a] = c \/ via[a] = "alias"
=============================================================================
