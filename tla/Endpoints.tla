----------------------------- MODULE Endpoints -----------------------------
(***************************************************************************)
(* The endpoints of HelixClient (src/twitch_scout/twitch/client.py), over   *)
(* requests as module HelixClient has them: one returns a page or the whole *)
(* call fails.  get_top_games and get_streams walk the pages of a list that *)
(* Twitch reorders between any two of them; a cursor is an offset into it.  *)
(* get_games_by_name and search_categories are one answer each, of which    *)
(* little is certain.                                                       *)
(***************************************************************************)
EXTENDS Integers, Sequences, FiniteSets, SequencesExt

CONSTANTS
    Items,      \* games, or streams of the category, that may be listed
    Dropped,    \* those that fail validation, or have another game_id
    PAGE_SIZE,
    Limits,     \* limit of get_top_games
    MaxPages,   \* max_pages of get_streams
    SEARCH_PAGE_SIZE

ASSUME EndpointsAssumption ==
    /\ Dropped \subseteq Items /\ IsFiniteSet(Items)
    /\ PAGE_SIZE \in Nat \ {0} /\ Limits \subseteq Nat \ {0} /\ MaxPages \in Nat \ {0}
    /\ SEARCH_PAGE_SIZE \in Nat \ {0}

VARIABLES
    endpoint,   \* "get_top_games", "get_streams", or "none"
    limit,
    result,     \* "reading", "returned" or "failed"
    cursor,     \* NoCursor, or how many places of the list to pass over
    got,        \* the items read
    truncated,
    places      \* history: for every page read, the list as it was

paging == <<endpoint, limit, result, cursor, got, truncated, places>>

NoCursor == 0

Listings == {l \in SeqOf(Items, Cardinality(Items)) : IsInjective(l)}

PagingInit ==
    /\ \/ endpoint = "get_top_games" /\ limit \in Limits
       \/ endpoint = "get_streams" /\ limit = 0
    /\ result = "reading" /\ cursor = NoCursor
    /\ got = <<>> /\ truncated = FALSE /\ places = <<>>

NoPaging ==
    /\ endpoint = "none" /\ limit = 0 /\ result = "returned" /\ cursor = NoCursor
    /\ got = <<>> /\ truncated = FALSE /\ places = <<>>

First(n, items) == SubSeq(items, 1, IF n < Len(items) THEN n ELSE Len(items))

\* The items that pass parse_games or parse_streams, in their order.
Parsed(items) ==
    LET valid[n \in 0..Len(items)] ==
            IF n = 0 THEN <<>>
            ELSE IF items[n] \in Dropped THEN valid[n - 1]
            ELSE Append(valid[n - 1], items[n])
    IN  valid[Len(items)]

Page(listing) == Parsed(First(PAGE_SIZE, SubSeq(listing, cursor + 1, Len(listing))))

\* There is a cursor as long as the list goes on, and perhaps at its end.
Cursors(listing) ==
    LET next == cursor + PAGE_SIZE
    IN  IF next < Len(listing) THEN {next} ELSE {next, NoCursor}

PagesFor(n) == (n + PAGE_SIZE - 1) \div PAGE_SIZE

ReadTopGames ==
    /\ endpoint = "get_top_games"
    /\ \E listing \in Listings : \E c \in Cursors(listing) :
          LET games == got \o Page(listing)
              over == \/ c = NoCursor \/ Len(games) >= limit
                      \/ Len(places) + 1 = PagesFor(limit)
          IN  /\ cursor' = c
              /\ places' = Append(places, listing)
              /\ got' = IF over THEN First(limit, games) ELSE games
              /\ result' = IF over THEN "returned" ELSE result
    /\ UNCHANGED <<endpoint, limit, truncated>>

\* Slip: the cap reached without a word.
ReadStreamsSilently ==
    /\ endpoint = "get_streams"
    /\ \E listing \in Listings : \E c \in Cursors(listing) :
          /\ cursor' = c
          /\ places' = Append(places, listing)
          /\ got' = got \o Page(listing)
          /\ result' = IF c = NoCursor \/ Len(places) + 1 = MaxPages THEN "returned" ELSE result
    /\ UNCHANGED <<endpoint, limit, truncated>>

ReadStreams ==
    /\ endpoint = "get_streams"
    /\ \E listing \in Listings : \E c \in Cursors(listing) :
          LET capped == c # NoCursor /\ Len(places) + 1 = MaxPages
          IN  /\ cursor' = c
              /\ places' = Append(places, listing)
              /\ got' = got \o Page(listing)
              /\ truncated' = capped
              /\ result' = IF c = NoCursor \/ capped THEN "returned" ELSE result
    /\ UNCHANGED <<endpoint, limit>>

\* _get_page raises, and nothing of the pages before is kept.
PageFails ==
    /\ result' = "failed" /\ got' = <<>>
    /\ UNCHANGED <<endpoint, limit, cursor, truncated, places>>

ReadPage == result = "reading" /\ (ReadTopGames \/ ReadStreams \/ PageFails)

----------------------------------------------------------------------------

\* A name: its words, what separates them, and its case.  Trademark marks and
\* spaces are gone, as _clean leaves it.
Key(name) == <<name.words, name.seps>>

\* Get Games, of all names asked for, as a dict by name: it compares without
\* regard to case, so any of the categories that differ only by it may come back,
\* but none only if there is none.
GetGamesByName(categories, names) ==
    LET known == {Key(c.name) : c \in categories} \cap {Key(n) : n \in names}
    IN  {byKey \in [known -> categories] : \A k \in known : Key(byKey[k].name) = k}

\* The categories whose name this is, but for its case.
Spelt(categories, name) == {c \in categories : Key(c.name) = Key(name)}

\* Search reads one page: of those so spelt all, and any others, or as many as fit.
SearchCategories(categories, name) ==
    LET spelt == Spelt(categories, name)
    IN  {page \in SUBSET categories :
            /\ Cardinality(page) <= SEARCH_PAGE_SIZE
            /\ \/ spelt \subseteq page
               \/ page \subseteq spelt /\ Cardinality(page) = SEARCH_PAGE_SIZE}

----------------------------------------------------------------------------

\* An item that stayed on one page, and for get_top_games within the limit,
\* whenever a page was read, was on page Home.
Home(i, page) ==
    \A n \in 1..Len(places) : \E p \in 1..Len(places[n]) :
        /\ places[n][p] = i
        /\ (p - 1) \div PAGE_SIZE = page - 1
        /\ endpoint = "get_top_games" => p <= limit

\* A call that returns has each item that stayed on its page exactly once, however
\* the rest of the list moved between the pages, unless it says it is truncated:
\* what moves may be counted twice or missed, what stays may not (client.py:158, 205).
SettledReadOnce ==
    endpoint # "none" /\ result = "returned" =>
        \A i \in Items \ Dropped :
            (\E page \in 1..Cardinality(Items) : Home(i, page)) =>
                \/ Cardinality({n \in 1..Len(got) : got[n] = i}) = 1
                \/ truncated /\ \A n \in 1..Len(got) : got[n] # i
=============================================================================
