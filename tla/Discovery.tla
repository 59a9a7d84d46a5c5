----------------------------- MODULE Discovery -----------------------------
(***************************************************************************)
(* The customer site between a reader's search and the comparison of what  *)
(* was found (apps/customer-web: features/discovery, features/compare,     *)
(* features/landings).  No page keeps state: filters and selection are the *)
(* address, every control is a link or a GET form that names the next one, *)
(* and a page is what its address is parsed into.  Gyms stand for their    *)
(* place in the catalogue; ratings and distances are in tenths.            *)
(***************************************************************************)
EXTENDS Integers, Sequences, SequencesExt

CONSTANTS
    Catalogue,     \* the gyms: city, categories, amenities, words, price, rating, distance
    PriceCeilings, RatingFloors, Radii,
    MaxCompare,
    TeaserCount,
    None,          \* a parameter that is absent, a filter that is not set, no rating
    Blank,         \* a parameter that is present and empty
    Junk           \* a value no parser knows

VARIABLE url  \* the page, what it is about, its filters and its gyms as written, its anchor

Gyms == DOMAIN Catalogue
Cities == {Catalogue[g].city : g \in Gyms}
Categories == UNION {Catalogue[g].categories : g \in Gyms}
Amenities == UNION {Catalogue[g].amenities : g \in Gyms}
Words == UNION {Catalogue[g].words : g \in Gyms}
Sorts == {"relevance", "price-asc", "price-desc", "rating", "distance"}

-----------------------------------------------------------------------------
(* search.ts *)
Filters == {"q", "city", "category", "amenity", "price", "rating", "radius"}

EmptyQuery == [q |-> {}, city |-> None, category |-> None, amenity |-> None, price |-> None,
               rating |-> None, radius |-> None, sort |-> "relevance"]

Without(query, f) == [query EXCEPT ![f] = EmptyQuery[f]]

First(value) == IF value = Blank THEN None ELSE value

\* A price is written in rupees and kept in paise.
ParseSearchQuery(raw) ==
    [q        |-> raw.q,
     city     |-> First(raw.city),
     category |-> First(raw.category),
     amenity  |-> First(raw.amenity),
     price    |-> IF raw.price \in Nat THEN 100 * raw.price ELSE None,
     rating   |-> IF raw.rating \in RatingFloors THEN raw.rating ELSE None,
     radius   |-> IF raw.radius \in Radii THEN raw.radius ELSE None,
     sort     |-> IF raw.sort \in Sorts THEN raw.sort ELSE "relevance"]

ToSearchParams(query) ==
    [query EXCEPT !.price = IF query.price = None THEN None ELSE query.price \div 100,
                  !.sort = IF query.sort = "relevance" THEN None ELSE query.sort]

Matches(gym, query) ==
    /\ query.q \subseteq gym.words
    /\ query.city \in {None, gym.city}
    /\ query.category \in {None} \union gym.categories
    /\ query.amenity \in {None} \union gym.amenities
    /\ query.price = None \/ gym.price <= query.price
    /\ query.radius = None \/ gym.distance <= 10 * query.radius
    /\ query.rating = None \/ (gym.rating # None /\ gym.rating >= query.rating)

\* What a sort puts first has the smallest key; the catalogue's order breaks ties.
SortKey(gym, sort) ==
    CASE sort = "price-asc"  -> gym.price
      [] sort = "price-desc" -> -gym.price
      [] sort = "rating"     -> IF gym.rating = None THEN 10 ELSE -gym.rating
      [] OTHER               -> gym.distance

Sorted(S, sort) ==
    SetToSortSeq(S, LAMBDA g, h : LET k == SortKey(Catalogue[g], sort)
                                      l == SortKey(Catalogue[h], sort)
                                  IN  k < l \/ (k = l /\ g < h))

Search(query) == Sorted({g \in Gyms : Matches(Catalogue[g], query)}, query.sort)

HasActiveFilters_NoRadius(query) ==   \* mutant: the distance was forgotten
    \E f \in Filters \ {"radius"} : query[f] # EmptyQuery[f]

HasActiveFilters(query) == \E f \in Filters : query[f] # EmptyQuery[f]

-----------------------------------------------------------------------------
(* compare.ts: the gyms an address names; 0 is a key that names nothing. *)
ParseCompare(keys) ==
    LET unique == FoldLeft(LAMBDA seen, k : IF Contains(seen, k) THEN seen ELSE Append(seen, k),
                           <<>>, keys)
        found  == SelectSeq(unique, LAMBDA k : k \in Gyms)
    IN  [gyms       |-> SelectSeq(found, LAMBDA k : \E i \in 1 .. MaxCompare :
                                                       i <= Len(found) /\ found[i] = k),
         unresolved |-> SelectSeq(unique, LAMBDA k : k \notin Gyms),
         truncated  |-> Len(found) > MaxCompare]

Capped(keys) == SubSeq(keys, 1, IF Len(keys) < MaxCompare THEN Len(keys) ELSE MaxCompare)

ToCompareParams(keys, base) == [base EXCEPT !.gyms = Capped(keys)]

ToggleHref(selected, g, base) ==
    ToCompareParams(IF Contains(selected, g) THEN Remove(selected, g) ELSE Append(selected, g),
                    base)

AddableGyms(selected) == Sorted({g \in Gyms : ~Contains(selected, g)}, "distance")

-----------------------------------------------------------------------------
(* Addresses *)
Page(page, about) ==
    [page |-> page, about |-> about, raw |-> ToSearchParams(EmptyQuery), gyms |-> <<>>, at |-> None]

SearchPage(query) == [Page("search", None) EXCEPT !.raw = ToSearchParams(query)]

ComparePage == Page("compare", None)

\* The page a toggle comes back to: the reader's own query, never a selection.
Base(u) ==
    CASE u.page = "search" -> SearchPage(ParseSearchQuery(u.raw))
      [] u.page = "home"   -> [Page("home", None) EXCEPT !.at = "gyms"]
      [] OTHER             -> Page(u.page, u.about)

Query(u) == ParseSearchQuery(u.raw)
Selected(u) == ParseCompare(u.gyms).gyms

\* The gyms a page shows as cards.
Shown(u) ==
    CASE u.page = "search"   -> Search(Query(u))
      [] u.page = "city"     -> Search([EmptyQuery EXCEPT !.city = u.about, !.sort = "distance"])
      [] u.page = "activity" -> Search([EmptyQuery EXCEPT !.category = u.about, !.sort = "distance"])
      [] u.page = "home"     -> Sorted(Gyms, "distance")
      [] OTHER               -> <<>>

-----------------------------------------------------------------------------
(* search-results.tsx: the controls of a results page. *)
Option(query, f, value) ==
    LET selected == query[f] = value
        with     == [query EXCEPT ![f] = value]
    IN  [count |-> Len(Search(with)), selected |-> selected,
         href  |-> SearchPage(IF selected THEN Without(query, f) ELSE with)]

Facets(query) ==
    {Option(query, "city", c) : c \in Cities} \union
    {Option(query, "category", c) : c \in Categories} \union
    {Option(query, "amenity", a) : a \in Amenities} \union
    {Option(query, "price", p) : p \in PriceCeilings} \union
    {Option(query, "rating", r) : r \in RatingFloors}

\* An option that would find nothing is text, unless it is what is to be taken back.
Offered(query) ==
    {o.href : o \in {x \in Facets(query) : x.count > 0 \/ x.selected}} \union
    {SearchPage(Without(query, f)) : f \in {"city", "category", "amenity", "price", "rating"}}

Chips(query) ==
    IF ~HasActiveFilters(query) THEN {}
    ELSE {SearchPage(Without(query, f)) : f \in {x \in Filters : query[x] # EmptyQuery[x]}}
         \union {SearchPage([EmptyQuery EXCEPT !.sort = query.sort])}

Relaxations(query) ==
    IF Search(query) # <<>> THEN {}
    ELSE {SearchPage(Without(query, f)) : f \in {x \in Filters : query[x] # EmptyQuery[x]}}

SortBar(query) == {SearchPage([query EXCEPT !.sort = s]) : s \in Sorts}

\* The form posts the words and every other filter as hidden fields, as written.
SearchForm(query, words) == SearchPage([query EXCEPT !.q = words])

-----------------------------------------------------------------------------
(* gym-card.tsx and compare-rail.tsx: the controls of a selection. *)
AtLimit(u, g) == ~Contains(Selected(u), g) /\ Len(Selected(u)) >= MaxCompare

CardLinks(u) ==
    {ToggleHref(Selected(u), g, Base(u)) : g \in {x \in ToSet(Shown(u)) : ~AtLimit(u, x)}}

RailLinks(u) ==
    LET afterRemove == IF Len(Selected(u)) > 1 THEN [Base(u) EXCEPT !.at = "rail"] ELSE Base(u)
    IN  IF Selected(u) = <<>> THEN {}
        ELSE {ToggleHref(Selected(u), g, afterRemove) : g \in ToSet(Selected(u))}
             \union {ToCompareParams(<<>>, Base(u))}

RailOpens(u) == ToCompareParams(Selected(u), ComparePage)

\* compare-table.tsx and the picker of compare-page.tsx, which posts the boxes ticked in
\* the order the page lists them.
TableLinks(u) == {ToCompareParams(Remove(Selected(u), g), ComparePage) : g \in ToSet(Selected(u))}

Picked(u, ticked) ==
    [ComparePage EXCEPT
       !.gyms = SelectSeq(Selected(u) \o AddableGyms(Selected(u)), LAMBDA g : g \in ticked)]

\* home/teaser.ts, and the chips of landing-views.tsx with their counts.
TeaserCompareHref == ToCompareParams(SubSeq(Sorted(Gyms, "distance"), 1, TeaserCount), ComparePage)

CityIndex ==
    {[count |-> Cardinality({g \in Gyms : Catalogue[g].city = c}), href |-> Page("city", c)]
       : c \in Cities}

ActivityIndex ==
    {[count |-> Cardinality({g \in Gyms : c \in Catalogue[g].categories}),
      href  |-> Page("activity", c)] : c \in Categories}

CityChips(activity) ==
    {[count |-> Cardinality({g \in ToSet(Shown(Page("activity", activity))) : Catalogue[g].city = c}),
      href  |-> SearchPage([EmptyQuery EXCEPT !.city = c, !.category = activity])] : c \in Cities}

-----------------------------------------------------------------------------
(* A reader follows links.  Addresses as a stranger may have written them: *)
(* values no parser knows, gyms no longer listed, named twice, too many.   *)
Written(gyms) ==
    {[Page("search", None) EXCEPT !.raw = r, !.gyms = gyms]
       : r \in {[ToSearchParams(EmptyQuery) EXCEPT !.city = c, !.radius = d, !.price = p, !.sort = s]
                 : c \in {Blank, Junk}, d \in {Blank, Junk} \union Radii, p \in {Junk, 0},
                   s \in {Junk, "rating"}}}

Openings ==
    {Page("home", None)} \union Written(<<>>) \union Written(<<2, 0, 2, 1>>)
    \union {[ComparePage EXCEPT !.gyms = <<0, 3, 1, 2, 3>>]}

Init == url \in Openings

Refine ==
    /\ url.page = "search"
    /\ url' \in Offered(Query(url)) \union Chips(Query(url)) \union Relaxations(Query(url))
                \union SortBar(Query(url))

Ask == url.page = "search" /\ \E words \in SUBSET Words : url' = SearchForm(Query(url), words)

\* The hero's form posts a blank for a choice not made.
AskFromHome ==
    /\ url.page = "home"
    /\ \E c \in Cities \union {Blank}, d \in Radii \union {Blank}, words \in SUBSET Words :
          url' = [Page("search", None) EXCEPT !.raw.city = c, !.raw.radius = d, !.raw.q = words]

Select == url.page # "compare" /\ url' \in CardLinks(url) \union RailLinks(url)

Compare ==
    \/ url.page # "compare" /\ Selected(url) # <<>> /\ url' = RailOpens(url)
    \/ url.page = "home" /\ url' = TeaserCompareHref

Pick ==
    /\ url.page = "compare"
    /\ \/ url' \in TableLinks(url)
       \/ \E ticked \in SUBSET Gyms : url' = Picked(url, ticked)

Browse ==
    \/ url' \in {c.href : c \in CityIndex \union ActivityIndex}
    \/ url.page = "city" /\ url' = SearchPage([EmptyQuery EXCEPT !.city = url.about])
    \/ url.page = "activity" /\ url' \in {c.href : c \in {x \in CityChips(url.about) : x.count > 0}}
    \/ url.page = "compare" /\ url' = SearchPage(EmptyQuery)

Next == Refine \/ Ask \/ AskFromHome \/ Select \/ Compare \/ Pick \/ Browse

-----------------------------------------------------------------------------
(* "a count that disagrees with what the link actually returns is worse    *)
(* than no count": every count printed beside a link is the number of gyms *)
(* on the page it leads to, and the way back from a chosen option gives    *)
(* back the page it was chosen on (search.ts, landings.ts).                *)
CountsArePromises ==
    /\ \A o \in IF url.page = "search" THEN Facets(Query(url)) ELSE {} :
          IF o.selected THEN o.count = Len(Shown(url)) /\ Len(Shown(o.href)) >= o.count
          ELSE Len(Shown(o.href)) = o.count
    /\ \A c \in CityIndex \union ActivityIndex : Len(Shown(c.href)) = c.count
    /\ url.page = "activity" =>
          \A c \in CityChips(url.about) : Len(Shown(c.href)) = c.count

(* "The filter is applied and invisible, which is the worst of both":      *)
(* whatever keeps a gym off the page has a chip that takes just that away, *)
(* and a page with no result has a way to one (search-results.tsx).        *)
NothingHidden ==
    url.page = "search" =>
       LET query == Query(url)
       IN  /\ \A f \in Filters :
                 Shown(SearchPage(Without(query, f))) # Shown(url) =>
                    SearchPage(Without(query, f)) \in Chips(query)
           /\ Search(query) = <<>> =>
                 /\ Relaxations(query) # {}
                 /\ \E c \in Chips(query) : Shown(c) # <<>>
           /\ \A r \in Relaxations(query) : \E f \in Filters : Query(r) = Without(query, f)

(* A page means the same after a round trip through its own links: the     *)
(* form with the same words, the link to the sort in force and a toggle    *)
(* undone all lead back to this query, whoever wrote the address.          *)
RoundTrips ==
    url.page = "search" =>
       /\ Query(SearchForm(Query(url), Query(url).q)) = Query(url)
       /\ \A u \in SortBar(Query(url)) : Shown(u) # Shown(url) => Query(u).sort # Query(url).sort
       /\ \A f \in Filters :
             Query(SearchPage(Without(Query(url), f))) = Without(Query(url), f)

(* A selection never exceeds what is compared, names each gym once, and    *)
(* changes by the one gym whose control was used while the page's own      *)
(* query stays; what the rail shows is what the comparison opens with; an  *)
(* anchor names something the next page has (compare.ts, gym-card.tsx,     *)
(* compare-rail.tsx).                                                      *)
SelectionHolds ==
    LET now == Selected(url)
    IN  /\ Len(now) <= MaxCompare /\ IsInjective(now)
        /\ url.at = "rail" => now # <<>>
        /\ Selected(RailOpens(url)) = now
        /\ url.page # "compare" =>
              \A u \in CardLinks(url) \union RailLinks(url) :
                 /\ u.page = url.page /\ u.about = url.about /\ Query(u) = Query(url)
                 /\ \/ Selected(u) = <<>>
                    \/ \E g \in ToSet(Shown(url)) \union ToSet(now) :
                          \/ Contains(now, g) /\ Selected(u) = Remove(now, g)
                          \/ ~Contains(now, g) /\ Selected(u) = Append(now, g)
        /\ ParseCompare(url.gyms).truncated => Len(now) = MaxCompare

PagesTellTheTruth == CountsArePromises /\ NothingHidden /\ RoundTrips /\ SelectionHolds
=============================================================================
