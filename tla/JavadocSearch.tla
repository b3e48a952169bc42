---------------------------- MODULE JavadocSearch ----------------------------
(***************************************************************************)
(* The search box of the generated API documentation that the server       *)
(* publishes: script.js, which fetches the index of each category, and     *)
(* search.js, which looks terms up in whatever has arrived by then. The    *)
(* box is an autocomplete widget of jQuery UI; Widget below says what that *)
(* library does between the callbacks of search.js.                        *)
(*                                                                         *)
(* Text is a sequence of letters; letters that terms have together or not  *)
(* at all may count as one. It enters by the keyboard.                     *)
(***************************************************************************)
EXTENDS Integers, SequencesExt, Orders

CONSTANTS
  Index,    \* per category the site has an index of, its entries in order
  Term,     \* what readers type
  Lower,    \* per upper case letter the lower case one
  Small,    \* lower case letters and what else names may have in a word
  Undefined, \* how the script reads a package that is not there, with a dot
  Limit     \* entries shown per category if no more match exactly, 500

\* An entry: l its label, q the label with what it is in, shown the label the
\* menu displays, c the class of a member, p and m package and module or None,
\* url the address or None, and page, where javadoc has written about it.
None == <<>>
Unnamed == <<"<Unnamed>">>
NoResult == [category |-> "None", entry |-> [l |-> <<"No", "results", "found">>]]
Watermark == <<"Search">>
Categories == <<"Modules", "Packages", "Types", "Members", "SearchTags">>

ASSUME IndexAssumption ==
  /\ DOMAIN Index \subseteq Range(Categories)
  /\ \A c \in DOMAIN Index : Index[c] \in Seq(Range(Index[c])) /\ IsInjective(Index[c])
ASSUME TermAssumption ==
  /\ <<>> \notin Term /\ Watermark \notin Term
  /\ \A t \in Term : t \in Seq(Range(t))
ASSUME LimitAssumption == Limit \in Nat \ {0}

-----------------------------------------------------------------------------
(* Matching *)

Capital == DOMAIN Lower
Fold(letter) == IF letter \in Capital THEN Lower[letter] ELSE letter

\* Whatever the case, anywhere in a word.
OccursAt(term, name, i) ==
  /\ i + Len(term) <= Len(name)
  /\ \A k \in DOMAIN term : Fold(term[k]) = Fold(name[i + k])
ExactMatcher(term, name) == Len(term) = Len(name) /\ OccursAt(term, name, 0)
SecondaryMatcher(term, name) == \E i \in 0 .. Len(name) - 1 : OccursAt(term, name, i)

\* Before a capital of the term the expression passes over small letters.
CamelCaseAt(term, name, i) ==
  \E at \in [DOMAIN term -> DOMAIN name] :
    /\ at[1] = i + 1
    /\ \A k \in DOMAIN term : name[at[k]] = term[k]
    /\ \A k \in 2 .. Len(term) :
         \/ at[k] = at[k - 1] + 1
         \/ /\ term[k] \in Capital /\ at[k - 1] < at[k]
            /\ \A j \in at[k - 1] + 1 .. at[k] - 1 : name[j] \in Small
CamelCaseMatcher(term, name) == CamelCaseAt(term, name, 0)

NestedName(name) ==
  LET dots == {i \in DOMAIN name : name[i] = "."}
  IN  IF dots = {} THEN name ELSE SubSeq(name, Max(dots) + 1, Len(name))

Name(category, entry) ==
  IF category \in {"Types", "Members"} THEN NestedName(entry.l) ELSE entry.l

IsExact(term, category, entry) == ExactMatcher(term, Name(category, entry))

IsPrimary(term, category, entry) ==
  \/ IsExact(term, category, entry)
  \/ /\ category # "SearchTags"
     /\ CamelCaseMatcher(term, IF category = "Packages" THEN entry.q
                               ELSE Name(category, entry))

IsSecondary(term, category, entry) ==
  ~IsPrimary(term, category, entry) /\ SecondaryMatcher(term, entry.q)

(***************************************************************************)
(* Entries are looked up by an end of what the menu shows of them, only    *)
(* that a type without a package, as the overview page in the index of     *)
(* types, is looked up as if its package were called "undefined".          *)
(***************************************************************************)
Ends(name, shown) ==
  /\ Len(name) <= Len(shown)
  /\ \A k \in DOMAIN name : name[k] = shown[Len(shown) - Len(name) + k]

ASSUME LabelAssumption ==
  /\ Undefined \in Seq(Range(Undefined))
  /\ \A c \in DOMAIN Index : \A e \in Range(Index[c]) :
       /\ \A name \in {e.l, e.q, e.shown} : name \in Seq(Range(name))
       /\ Ends(e.l, e.shown)
       /\ \/ Ends(e.q, e.shown)
          \/ c = "Types" /\ e.p = None /\ e.q = Undefined \o e.shown

-----------------------------------------------------------------------------
(* The callback "source" of the widget *)

Entries(indices, category) == IF category \in indices THEN Index[category] ELSE <<>>

\* Variant: what one category found is still in the shared array for the next.
ConcatKeeping(found, own, secondary) ==
  [result |-> found.result \o own \o found.secondary \o secondary,
   secondary |-> found.secondary \o secondary, displayCount |-> found.displayCount]

\* concatResults empties the array the categories share.
ConcatResults(found, own, secondary) ==
  [result |-> found.result \o own \o found.secondary \o secondary,
   secondary |-> <<>>, displayCount |-> found.displayCount]

Listed(indices, category) ==
  LET all == Entries(indices, category)
  IN  [i \in DOMAIN all |-> [category |-> category, entry |-> all[i]]]

Hits(term, all, IsHit(_, _, _)) ==
  Pick(all, {i \in DOMAIN all : IsHit(term, all[i].category, all[i].entry)})

Collect(term, indices, found, category) ==
  LET all == Listed(indices, category)
      exact == Len(Hits(term, all, IsExact))
  IN  [ConcatResults(found, Hits(term, all, IsPrimary), Hits(term, all, IsSecondary)) EXCEPT
         !.displayCount = IF exact > @ THEN exact ELSE @]

\* Category by category.
Found(term, indices) ==
  LET After(found, category) == Collect(term, indices, found, category)
      nothing == [result |-> <<>>, secondary |-> <<>>, displayCount |-> Limit]
      named == After(After(After(nothing, "Modules"), "Packages"), "Types")
  IN  After(After(named, "Members"), "SearchTags")

Nth(rows, i) == Cardinality({j \in 1 .. i : rows[j].category = rows[i].category})

\* Variant: the counter runs on from category to category.
CounterOverall(rows, displayCount) == Pick(rows, {i \in DOMAIN rows : i <= displayCount})
Counter(rows, displayCount) == Pick(rows, {i \in DOMAIN rows : Nth(rows, i) <= displayCount})

\* The callback "response" says so when nothing was found.
Response(rows) == IF rows = <<>> THEN <<NoResult>> ELSE rows

Source(term, indices) ==
  LET found == Found(term, indices) IN Response(Counter(found.result, found.displayCount))

-----------------------------------------------------------------------------
(* The menu *)

\* A category is headed where the row above has another, or none.
Headed(rows, i) ==
  /\ rows[i] # NoResult
  /\ i = 1 \/ rows[i - 1].category # rows[i].category

RenderMenu(rows) ==
  Pick([i \in DOMAIN rows |-> rows[i].category], {i \in DOMAIN rows : Headed(rows, i)})

\* Variant: types are listed without their package.
RenderItemByName(row) == IF row.category = "Types" THEN row.entry.l ELSE row.entry.shown
RenderItem(row) == row.entry.shown

\* Where the camel case expression matches, or else the term as it stands.
GetHighlightedText(term, label) ==
  LET at == {i \in 0 .. Len(label) - 1 : CamelCaseAt(term, label, i)}
  IN  IF at # {} THEN at ELSE {i \in 0 .. Len(label) - 1 : OccursAt(term, label, i)}

\* Variant: an entry of the package index need not name a module.
GetURLPrefixOfAny(row, indices) ==
  LET named == {e \in Range(Entries(indices, "Packages")) : row.entry.p = e.l}
      m == (CHOOSE e \in named : TRUE).m
  IN  CASE named = {} -> <<>>
        [] m # None -> m
        [] OTHER -> <<"undefined">>

\* With useModuleDirectories, as this site has it: modules come first in paths,
\* and the module of a type or member is that of its package in the index.
GetURLPrefix(row, indices) ==
  LET named == {e \in Range(Entries(indices, "Packages")) : e.m # None /\ row.entry.p = e.l}
  IN  CASE row.category = "Modules" -> row.entry.l
        [] row.category = "Packages" /\ row.entry.m # None -> row.entry.m
        [] row.category \in {"Types", "Members"} /\ named # {} -> (CHOOSE e \in named : TRUE).m
        [] OTHER -> <<>>

Url(row, indices) ==
  LET prefix == GetURLPrefix(row, indices)
      entry == row.entry
      Given(otherwise) == IF entry.url # None THEN entry.url ELSE otherwise
      package == IF entry.p = Unnamed THEN <<>> ELSE entry.p
  IN  CASE row.category = "Modules" -> prefix \o <<"module-summary">>
        [] row.category = "Packages" -> Given(prefix \o entry.l \o <<"package-summary">>)
        [] row.category = "Types" -> Given(prefix \o package \o entry.l)
        [] row.category = "Members" -> prefix \o package \o entry.c \o <<"#">> \o Given(entry.l)
        [] row.category = "SearchTags" -> prefix \o entry.url

\* Where javadoc puts the pages of a site without modules and tags, as this is.
ASSUME PageAssumption ==
  /\ DOMAIN Index \subseteq {"Packages", "Types", "Members"}
  /\ \A c \in DOMAIN Index : \A e \in Range(Index[c]) :
       LET package == IF e.p = Unnamed THEN <<>> ELSE e.p
       IN  /\ c = "Packages" => e.m = None
           /\ c # "Packages" => e.p \in Seq(Range(e.p))
           /\ e.url # None /\ c # "Members" => e.page = e.url
           /\ e.url = None /\ c = "Packages" => e.page = e.l \o <<"package-summary">>
           /\ e.url = None /\ c = "Types" => e.page = package \o e.l
           /\ c = "Members" =>
                e.page = package \o e.c \o <<"#">> \o (IF e.url = None THEN e.l ELSE e.url)

-----------------------------------------------------------------------------
(* The page *)

VARIABLES
  loaded,     \* categories whose index has arrived
  text,       \* value of the box
  watermark,  \* it has the class of that name
  focused,    \* the box, or not: before search.js it is disabled
  searching,  \* the widget's delay after a key is running
  term,       \* what the widget has searched for last
  rows,       \* the menu, empty if it is closed
  had         \* what had arrived at the last search; observed only

box == <<text, watermark, focused>>
widget == <<searching, term, rows, had>>
vars == <<loaded, box, widget>>

\* Variant: the box keeps the value it has in the page.
InitKeepingValue ==
  /\ loaded \in SUBSET DOMAIN Index
  /\ text = <<"search">> /\ watermark = TRUE /\ focused = TRUE
  /\ searching = FALSE /\ term = <<>> /\ rows = <<>> /\ had = {}

\* Once search.js has run: it sets the watermark and moves to the box.
Init ==
  /\ loaded \in SUBSET DOMAIN Index
  /\ text = Watermark /\ watermark = TRUE /\ focused = TRUE
  /\ searching = FALSE /\ term = <<>> /\ rows = <<>> /\ had = {}

(***************************************************************************)
(* An index is fetched twice, packed and as a script, in any order; the    *)
(* second to come replaces the first by the same. It may never come.       *)
(***************************************************************************)
LoadScripts(category) ==
  /\ loaded' = loaded \cup {category}
  /\ UNCHANGED <<box, widget>>

(* Handlers of search.js *)

ClearWatermark ==
  IF text = Watermark THEN text' = <<>> /\ watermark' = FALSE
                      ELSE UNCHANGED <<text, watermark>>

SetWatermark ==
  IF text = <<>> THEN text' = Watermark /\ watermark' = TRUE
                 ELSE UNCHANGED <<text, watermark>>

(* Widget *)

Close == rows' = <<>>
Search(value) ==
  /\ term' = value /\ had' = loaded
  /\ IF value = <<>> THEN Close ELSE rows' = Source(value, loaded)

ClickBox ==
  /\ focused' = TRUE /\ ClearWatermark
  /\ UNCHANGED <<loaded, widget>>

TabToBox ==
  /\ ~focused /\ focused' = TRUE
  /\ UNCHANGED <<loaded, text, watermark, widget>>

\* A key that writes or erases: the handler first, then the key.
Type(new) ==
  /\ focused
  /\ text' = new
  /\ watermark' = (watermark /\ text # Watermark)
  /\ searching' = TRUE
  /\ UNCHANGED <<loaded, focused, term, rows, had>>

\* Not again for what is in the menu, nor when only a modifier was pressed.
Delay ==
  /\ searching /\ searching' = FALSE
  /\ \/ (text # term \/ rows = <<>>) /\ Search(text)
     \/ text = term /\ UNCHANGED <<term, rows, had>>
  /\ UNCHANGED <<loaded, box>>

\* An arrow key opens the menu at once. In the menu it writes the value of the
\* entry it comes to, of which these have none, or past the end the term.
Arrow ==
  /\ focused
  /\ \/ rows = <<>> /\ ClearWatermark /\ Search(text')
     \/ rows # <<>> /\ text' \in {<<>>, term} /\ UNCHANGED <<watermark, term, rows, had>>
  /\ UNCHANGED <<loaded, focused, searching>>

Escape ==
  /\ focused /\ rows # <<>>
  /\ text' = term /\ Close
  /\ UNCHANGED <<loaded, watermark, focused, searching, term, had>>

\* The browser goes to Url(row, loaded); an anchor on this page leaves all as
\* it is. The line that says there is no result leads nowhere.
Select(row) ==
  /\ text' = <<>> /\ term' = <<>> /\ Close
  /\ focused' = TRUE
  /\ UNCHANGED <<loaded, watermark, searching, had>>

\* Variant: the widget goes on with its delay when the box is left.
LeaveBoxSearching ==
  /\ focused /\ focused' = FALSE
  /\ SetWatermark
  /\ Close
  /\ UNCHANGED <<loaded, searching, term, had>>

LeaveBox ==
  /\ focused /\ focused' = FALSE
  /\ SetWatermark
  /\ searching' = FALSE /\ Close
  /\ UNCHANGED <<loaded, term, had>>

\* Pressing the button leaves the box, the click comes back to it; the class
\* stays if the box was empty or showed the watermark.
Reset ==
  /\ text' = <<>>
  /\ watermark' = (watermark \/ (focused /\ text = <<>>))
  /\ focused' = TRUE
  /\ searching' = FALSE /\ Close
  /\ UNCHANGED <<loaded, term, had>>

Next ==
  \/ \E category \in DOMAIN Index : LoadScripts(category)
  \/ ClickBox \/ TabToBox \/ Arrow \/ Escape \/ LeaveBox \/ Reset
  \/ \E new \in Term \cup {<<>>} : Type(new)
  \/ Delay
  \/ \E row \in Range(rows) : Select(row)

Spec == Init /\ [][Next]_vars

-----------------------------------------------------------------------------
(* Properties *)

Hit(row) == row # NoResult
Row == UNION {{[category |-> c, entry |-> e] : e \in Range(Index[c])} : c \in DOMAIN Index}

TypeOK ==
  /\ loaded \subseteq DOMAIN Index
  /\ text \in Term \cup {<<>>, Watermark}
  /\ term \in Term \cup {<<>>, Watermark}
  /\ {watermark, focused, searching} \subseteq BOOLEAN
  /\ Range(rows) \subseteq Row \cup {NoResult}
  /\ had \subseteq loaded

(***************************************************************************)
(* An open menu answers the last search from the indices that had arrived: *)
(* each entry that matches is listed once, unless its category is cut at   *)
(* the limit, or at the number of exact matches of one category if that is *)
(* more, and nothing else is listed.                                       *)
(***************************************************************************)
Matching(category) ==
  {row \in Row : /\ row.category = category /\ category \in had
                 /\ IsPrimary(term, category, row.entry) \/ IsSecondary(term, category, row.entry)}
Exact(category) == {row \in Matching(category) : IsExact(term, category, row.entry)}
MostShown == Max({Limit} \cup {Cardinality(Exact(c)) : c \in Range(Categories)})

MenuAnswersTerm ==
  rows # <<>> =>
    /\ \A i, j \in DOMAIN rows : rows[i] = rows[j] => i = j
    /\ \A c \in Range(Categories) :
         LET shown == {r \in Range(rows) : r.category = c}
         IN  /\ shown \subseteq Matching(c)
             /\ Cardinality(shown) = Min({MostShown, Cardinality(Matching(c))})

(***************************************************************************)
(* The menu explains itself: it heads each category once, in the order of  *)
(* the site, and of every entry it lists, part of what it shows matches    *)
(* and is highlighted. The one exception is a type without a package that  *)
(* was found by letters of "undefined.", which the menu does not show.     *)
(***************************************************************************)
HeadedOnce ==
  LET headings == RenderMenu(rows)
  IN  \A i, j \in DOMAIN headings :
        i < j => \E a, b \in DOMAIN Categories :
                   a < b /\ Categories[a] = headings[i] /\ Categories[b] = headings[j]

FoundByUndefined(row) ==
  /\ row.category = "Types" /\ row.entry.p = None
  /\ \E i \in 0 .. Len(Undefined) - 1 : OccursAt(term, row.entry.q, i)

MenuExplains ==
  /\ HeadedOnce
  /\ \A row \in Range(rows) :
       Hit(row) => GetHighlightedText(term, RenderItem(row)) # {} \/ FoundByUndefined(row)

(***************************************************************************)
(* Whichever indices have arrived, an entry of the menu leads to the page  *)
(* javadoc has written about it.                                           *)
(***************************************************************************)
SelectLeadsToPage ==
  \A row \in Range(rows) : Hit(row) => Url(row, loaded) = row.entry.page

(***************************************************************************)
(* The watermark is never looked up as if a reader had typed it, and never *)
(* looks as if.                                                            *)
(***************************************************************************)
WatermarkNotSearched == term # Watermark /\ (text = Watermark => watermark)
=============================================================================
