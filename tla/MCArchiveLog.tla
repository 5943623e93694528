----------------------------- MODULE MCArchiveLog -----------------------------
(* One publication of two works by one composer, one link that a newer       *)
(* binary recognizes as the record the other names, saved by one request and *)
(* edited by another.                                                        *)
EXTENDS ArchiveLog

CONSTANTS bach, busch, suite, partita, bwv, solo, isbn, u1, u2, copy, scan

\* Two addresses of one record; the second version knows the host of u1 as well.
AddressOf(host, path) ==
    [scheme |-> "https", host |-> host, path |-> path, query |-> NoQuery]
Item == [Word("Q") EXCEPT !.digits = 2]
Record1 == [kind |-> "wikidata", id |-> Item]

Work(composers, numbers, links) ==
    [title |-> suite, tags |-> {}, numbers |-> numbers, links |-> links, composers |-> composers]
Publication(title, credits, works, held) ==
    [title |-> title, tags |-> {}, identifiers |-> {}, links |-> <<>>,
     credits |-> credits, works |-> works, held |-> held]

MCCatalog ==
    [library |-> TRUE,
     about |-> <<[name |-> bach, private |-> FALSE]>>,
     works |-> <<Work({1}, {bwv}, <<[url |-> u1, record |-> Generic], [url |-> u2, record |-> Record1]>>),
                 Work({1}, {}, <<>>)>>,
     people |-> <<[name |-> bach, links |-> <<>>]>>,
     pubs |-> <<Publication(suite, {}, {1, 2}, {copy})>>,
     last |-> [works |-> 2, people |-> 1, pubs |-> 1]]

NewOne == <<"new", [name |-> busch, links |-> <<>>]>>
Row(ref, composer, numbers, links) ==
    [ref |-> ref, title |-> suite, tags |-> {}, numbers |-> numbers, links |-> links,
     composers |-> {composer}]
\* Posts name the newest rows, also when a newer edit has deleted them.
MCWorkPosts(tables) ==
    {Row(StoredWork(0), composer, numbers, links) :
       composer \in {Linked(tables.last.people), NewOne}, numbers \in {{}, {bwv}}, links \in {<<u1>>, <<u2, u1>>}}

Form(contents, credits, held, title) ==
    [title |-> title, tags |-> {}, identifiers |-> {isbn}, links |-> <<u1>>,
     credits |-> credits, held |-> held, contents |-> contents]
MCPublicationPosts(tables) ==
    {Form(contents, credits, held, title) :
       contents \in {<<>>, <<Row(StoredWork(tables.last.works), Linked(1), {bwv}, <<u2>>)>>,
                     <<Row(StoredWork(1), Linked(1), {bwv}, <<>>), Row(NewWork, NewOne, {}, <<>>)>>},
       credits \in {{}, {NewOne}}, held \in {{}, {scan}}, title \in {suite, partita}}

Budget(loads, saves, edits, calls, opens) ==
    [loads |-> loads, saves |-> saves, edits |-> edits, calls |-> calls, opens |-> opens]
MCBudgets ==
    {Budget(1, 1, 1, 2, 0), Budget(0, 0, 1, 3, 1), Budget(0, 0, 2, 2, 2), Budget(2, 2, 0, 0, 1)}

-----------------------------------------------------------------------------
\* Addresses at every host the binary knows, below the paths its sites use and some they
\* don't, with ids of every shape a site tells apart.
Digits(n) == [Empty EXCEPT !.digits = n]
Ids ==
    {Digits(n) : n \in {1, 2, 7, 8, 10, 11, 16}}
    \union {[Digits(n) EXCEPT !.zero = TRUE] : n \in {1, 16}}
    \union {[Digits(n) EXCEPT !.close = close] : n \in {1, 7, 9, 15}, close \in {"X", "x", "-X"}}
    \union {[Digits(n) EXCEPT !.serial = serial, !.word = word] :
               n \in {2, 4}, serial \in {0, 1, 6, 7}, word \in {"", "n", "OL", "Dickens"}}
    \union {[Digits(3) EXCEPT !.tail = tail] : tail \in {".json", ".html", "-slug"}}
    \union {[Digits(16) EXCEPT !.spaced = TRUE], [Digits(8) EXCEPT !.spaced = TRUE]}
    \union {[Digits(2) EXCEPT !.word = "OL", !.close = letter, !.tail = tail] :
               letter \in {"M", "W", "A"}, tail \in {"", ".json"}}
    \union {[Item EXCEPT !.tail = tail] : tail \in {"", ".json", "-slug"}}
    \union {[Digits(8) EXCEPT !.word = "n", !.tail = tail] : tail \in {"", ".html"}}
    \union {[Named(space, w) EXCEPT !.spaced = spaced] :
               space \in {"", "Category", "File", "Special"}, w \in {"", "title"}, spaced \in BOOLEAN}
    \union {[Empty EXCEPT !.space = "opac-de-627:ppn", !.digits = n] : n \in {7, 9}}
    \union {Word(w) : w \in {"uuid", "UUID", "dickens", "Dickens", "de"}}
    \union DotSegments

OpenLibraryPaths == {<<"books">>, <<"works">>, <<"authors">>}
WikidataPaths == {<<"wiki">>, <<"entity">>, <<"property">>}
GoodreadsPaths == {<<"book", "show">>, <<"work", "editions">>, <<"author", "show">>,
                   <<"author", "list">>, <<"de", "book", "show">>}
PathsAt ==
    ("openlibrary.org" :> OpenLibraryPaths) @@ ("www.openlibrary.org" :> OpenLibraryPaths)
    @@ ("www.wikidata.org" :> WikidataPaths) @@ ("m.wikidata.org" :> WikidataPaths)
    @@ ("musicbrainz.org" :> {<<"work">>, <<"artist">>, <<"release">>})
    @@ ("beta.musicbrainz.org" :> {<<"work">>, <<"artist">>})
    @@ ("imslp.org" :> {<<"wiki">>, <<>>})
    @@ ("viaf.org" :> {<<"viaf">>, <<"de", "viaf">>, <<"processed">>})
    @@ ("www.viaf.org" :> {<<"viaf">>})
    @@ ("d-nb.info" :> {<<"gnd">>, <<>>}) @@ ("lobid.org" :> {<<"gnd">>})
    @@ ("explore.gnd.network" :> {<<"gnd">>})
    @@ ("www.deutsche-digitale-bibliothek.de" :> {<<"entity">>})
    @@ ("isni.org" :> {<<"isni">>, <<>>}) @@ ("www.isni.org" :> {<<"isni">>})
    @@ ("lccn.loc.gov" :> {<<>>}) @@ ("www.loc.gov" :> {<<"item">>})
    @@ ("id.loc.gov" :> {<<"authorities", "names">>, <<"authorities", "subjects">>})
    @@ ("uri.gbv.de" :> {<<"document">>}) @@ ("id.lib.harvard.edu" :> {<<"alma">>})
    @@ ("goodreads.com" :> GoodreadsPaths) @@ ("www.goodreads.com" :> GoodreadsPaths)
    @@ ("librarything.com" :> {<<"work">>, <<"author">>})
    @@ ("www.librarything.com" :> {<<"work">>, <<"author">>})
    @@ ("archive.org" :> {<<"details">>, <<"download">>})
    @@ ("gutenberg.org" :> {<<"ebooks">>, <<"ebooks", "author">>})
    @@ ("www.gutenberg.org" :> {<<"ebooks">>, <<"ebooks", "author">>})
    @@ ("librivox.org" :> {<<"author">>})
    @@ ("opac.k10plus.de" :> {<<>>}) @@ ("kxp.k10plus.de" :> {<<>>}) @@ ("" :> {<<>>})

EndsAt(host) ==
    {<<>>} \union (CASE host \in {"viaf.org", "www.viaf.org", "lccn.loc.gov", "www.loc.gov", "d-nb.info"} ->
                          {<<"">>, <<"about">>}
                     [] host = "id.lib.harvard.edu" -> {<<"catalog">>, <<"about">>}
                     [] OTHER -> {<<"about">>})
Below(host) ==
    {AddressOf(host, Words(before) \o <<id>> \o Words(end)) :
       before \in PathsAt[host], id \in Ids, end \in EndsAt(host)}
\* Special pages, queries, and an address that is not of the web.
Others ==
    {AddressOf("www.wikidata.org",
               <<Word("wiki"), Named("Special", page), id>>) :
       page \in {"EntityPage", "EntityData", "History"}, id \in Ids}
    \union {[AddressOf(host, <<Word(page)>>) EXCEPT !.query = [key |-> key, value |-> id]] :
               host \in {"imslp.org", "opac.k10plus.de", "kxp.k10plus.de"},
               page \in {"index.php", "PPNSET"}, key \in {"title", "PPN"}, id \in Ids}
    \union {[AddressOf("viaf.org", <<Word("viaf"), Digits(3)>>) EXCEPT !.scheme = "ftp"]}
Addresses == UNION {Below(host) : host \in DOMAIN PathsAt} \union Others

MCAddress(url) ==
    CASE url = u1 -> AddressOf("m.wikidata.org", <<Word("wiki"), Item>>)
      [] url = u2 -> AddressOf("www.wikidata.org", <<Word("wiki"), Item>>)
      [] OTHER -> url
MCHostsKnown(v) == IF v = 1 THEN DOMAIN PathsAt \ {"m.wikidata.org"} ELSE DOMAIN PathsAt

\* A publication, a work and a person that each have a link an older binary did not know.
Linking(address) ==
    LET links == <<[url |-> address, record |-> Generic]>> IN
    [MCCatalog EXCEPT !.works = <<Work({1}, {}, links)>>,
                      !.people = <<[name |-> bach, links |-> links]>>,
                      !.pubs = <<[Publication(suite, {}, {1}, {copy}) EXCEPT !.links = links]>>]
MCStarts ==
    {[tables |-> MCCatalog, budget |-> bound] : bound \in MCBudgets}
    \union {[tables |-> Linking(address), budget |-> Budget(0, 0, 0, 0, 1)] : address \in Addresses}
=============================================================================
