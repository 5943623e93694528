---------------------------- MODULE ExternalLinks ----------------------------
(***************************************************************************)
(* Which record of which external site a web address names, and the        *)
(* canonical address of a record (link.rs; the archive's external_id.rs    *)
(* has the same functions again).                                          *)
(*                                                                         *)
(* A segment of a path is the parts the sites tell apart, in this order: a *)
(* namespace and its colon, a word, a run of digits, spaces in between, a  *)
(* hyphen and more digits, a closing letter, and a tail that starts with a *)
(* dot or a hyphen.  No id is empty, so the empty segment is also None.    *)
(* In a title of IMSLP, spaced says that its underscores are spelled as    *)
(* spaces; a title has no slash.                                           *)
(***************************************************************************)
EXTENDS SequencesExt

Empty == [space |-> "", word |-> "", digits |-> 0, zero |-> FALSE, spaced |-> FALSE,
          serial |-> 0, close |-> "", tail |-> ""]
Segments == [space : STRING, word : STRING, digits : Nat, zero : BOOLEAN, spaced : BOOLEAN,
             serial : Nat, close : STRING, tail : STRING]
WebAddresses == [scheme : STRING, host : STRING, path : Seq(Segments),
                 query : [key : STRING, value : Segments]]

Word(w) == [Empty EXCEPT !.word = w]
Named(space, w) == [Word(w) EXCEPT !.space = space]

\* Words and closing letters with a capital, and words of three letters at most.
CapitalWords == {"OL", "Q", "UUID", "Dickens", "PPNSET"}
ShortWords == {"", "n", "de"}
DottedTails == {".json", ".html"}
DotSegments == {[Empty EXCEPT !.tail = dots] : dots \in {".", ".."}}

Consists(s, parts) == \A f \in DOMAIN s \ parts : s[f] = Empty[f]
AllDigits(s) == s.digits > 0 /\ Consists(s, {"digits", "zero"})
Number(s) == AllDigits(s) /\ ~s.zero
HasTwoBytes(s) == s = Word("de") \/ (AllDigits(s) /\ s.digits = 2)

Filter(wellFormed, id) == IF wellFormed THEN id ELSE Empty
WithoutTail(s, tails) == IF s.tail \in tails THEN [s EXCEPT !.tail = ""] ELSE s
WithoutSlash(path) == IF path # <<>> /\ Last(path) = Empty THEN Front(path) ELSE path

\* The segment after these words, with or without more behind it.
After(path, words) ==
    IF Len(path) > Len(words) /\ \A k \in DOMAIN words : path[k] = Word(words[k])
    THEN path[Len(words) + 1]
    ELSE Empty
Ends(path, words) == Filter(Len(path) = Len(words) + 1, After(path, words))
\* An id, or an id and what is about it.
OrAbout(path, words) ==
    LET rest == SubSeq(path, Len(words) + 2, Len(path)) IN
    Filter(rest = <<>> \/ rest[1] = Word("about"), After(path, words))

-----------------------------------------------------------------------------
(***************************************************************************)
(* The sites                                                               *)
(***************************************************************************)
Letter == [publication |-> "M", work |-> "W", person |-> "A"]
Shelf == [publication |-> "books", work |-> "works", person |-> "authors"]
OpenLibrary(entity, path) ==
    LET id == WithoutTail(After(path, <<Shelf[entity]>>), {".json"}) IN
    Filter(/\ id.word = "OL" /\ id.close = Letter[entity]
           /\ Number([id EXCEPT !.word = "", !.close = ""]), id)

Wikidata(path) ==
    LET special == Len(path) = 3 /\ path[1] = Word("wiki")
        id == CASE special /\ path[2] = Named("Special", "EntityPage") -> path[3]
                [] special /\ path[2] = Named("Special", "EntityData") ->
                      WithoutTail(path[3], DottedTails)
                [] OTHER -> IF Ends(path, <<"wiki">>) # Empty THEN Ends(path, <<"wiki">>)
                            ELSE Ends(path, <<"entity">>)
    IN Filter(id.word = "Q" /\ Number([id EXCEPT !.word = ""]), id)

MusicBrainz(entity, path) ==
    CASE entity = "publication" -> Empty
      [] OTHER ->
           LET uuid == After(path, <<[work |-> "work", person |-> "artist"][entity]>>) IN
           Filter(uuid \in {Word("uuid"), Word("UUID")}, Word("uuid"))

Imslp(entity, url) ==
    LET title == IF url.path = <<Word("index.php")>>
                 THEN IF url.query.key = "title" THEN url.query.value ELSE Empty
                 ELSE Ends(url.path, <<"wiki">>)
        id == [title EXCEPT !.space = "", !.spaced = FALSE]
        owner == CASE title.space = "Category" -> "person"
                   [] title.space = "" -> "work"
                   [] OTHER -> "none"
    IN Filter(owner = entity, id)

Viaf(path) ==
    LET bare == WithoutSlash(path)
        id == IF bare # <<>> /\ HasTwoBytes(bare[1]) THEN Ends(Tail(bare), <<"viaf">>)
              ELSE Ends(bare, <<"viaf">>)
    IN Filter(Number(id), id)

\* Digits and, with or without a hyphen before it, a digit or an X.
Gnd(prefix, path) ==
    LET id == OrAbout(path, <<prefix>>)
        last == CASE id.close = "" -> id.serial = 1 \/ (id.serial = 0 /\ id.digits > 1)
                  [] OTHER -> id.serial = 0 /\ id.close \in {"X", "-X"}
    IN Filter(last /\ Number([id EXCEPT !.serial = 0, !.close = ""]), id)

Isni(path) ==
    LET id == [OrAbout(path, <<"isni">>) EXCEPT !.spaced = FALSE] IN
    Filter(/\ <<id.digits, id.close>> \in {<<16, "">>, <<15, "X">>}
           /\ AllDigits([id EXCEPT !.close = ""]), id)

\* A serial number after a hyphen is filled up to six digits.
NormalizeLccn(lccn) ==
    LET digits == lccn.digits + (IF lccn.serial > 0 THEN 6 ELSE 0)
        id == [lccn EXCEPT !.spaced = FALSE, !.digits = digits, !.serial = 0]
    IN Filter(/\ lccn.serial <= 6 /\ id.digits \in {8, 10}
              /\ id.word \in ShortWords /\ AllDigits([id EXCEPT !.word = ""]), id)
Loc(entity, host, path) ==
    NormalizeLccn(
      CASE entity = "publication" /\ host = "lccn.loc.gov" -> Ends(WithoutSlash(path), <<>>)
        [] entity = "publication" /\ host = "www.loc.gov" -> Ends(WithoutSlash(path), <<"item">>)
        [] entity = "person" /\ host = "id.loc.gov" ->
              WithoutTail(Ends(path, <<"authorities", "names">>), {".html"})
        [] OTHER -> Empty)

Ppn(ppn) ==
    LET id == [ppn EXCEPT !.close = IF @ = "x" THEN "X" ELSE @] IN
    Filter(/\ \/ id.close = "" /\ id.digits \in 8 .. 10
              \/ id.close = "X" /\ id.digits \in 7 .. 9
           /\ AllDigits([id EXCEPT !.close = ""]), id)
K10plusUri(path) ==
    LET document == Ends(path, <<"document">>) IN
    Filter(document.space = "opac-de-627:ppn", Ppn([document EXCEPT !.space = ""]))

Dnb(path) ==
    LET id == OrAbout(path, <<>>) IN
    Filter(/\ \/ id.close = "" /\ id.digits \in 8 .. 10
              \/ id.close = "X" /\ id.digits \in 8 .. 9
           /\ AllDigits([id EXCEPT !.close = ""]), id)

Harvard(path) ==
    LET mmsid == After(path, <<"alma">>) IN
    Filter(Len(path) = 3 /\ path[3] = Word("catalog") /\ AllDigits(mmsid), mmsid)

Goodreads(entity, path) ==
    LET bare == IF path # <<>> /\ HasTwoBytes(path[1]) THEN Tail(path) ELSE path
        show == After(bare, <<"author", "show">>)
        found == CASE entity = "publication" -> After(bare, <<"book", "show">>)
                   [] entity = "work" -> After(bare, <<"work", "editions">>)
                   [] OTHER -> IF show # Empty THEN show ELSE After(bare, <<"author", "list">>)
        id == [found EXCEPT !.tail = "", !.serial = 0, !.close = IF @ = "-X" THEN "" ELSE @]
    IN Filter(Number(id), id)

LibraryThing(entity, path) ==
    LET work == After(path, <<"work">>)  slug == After(path, <<"author">>) IN
    CASE entity = "work" -> Filter(AllDigits(work), work)
      [] entity = "person" ->
           Filter(/\ slug.space = "" /\ ~slug.spaced /\ slug.word \notin CapitalWords
                  /\ slug.close \in {"", "x"} /\ slug.tail \in {"", "-slug"}, slug)
      [] OTHER -> Empty

InternetArchive(path) ==
    LET id == After(path, <<"details">>) IN
    Filter(id.space = "" /\ ~id.spaced /\ (id.word # "" \/ id.digits > 0), id)

Gutenberg(entity, path) ==
    LET id == CASE entity = "person" -> After(path, <<"ebooks", "author">>)
                [] entity = "work" -> After(path, <<"ebooks">>)
                [] OTHER -> Empty
    IN Filter(Number(id), id)

Librivox(path) == LET id == After(path, <<"author">>) IN Filter(AllDigits(id), id)

-----------------------------------------------------------------------------
(***************************************************************************)
(* From an address to a record, and back                                   *)
(***************************************************************************)
NoQuery == [key |-> "", value |-> Empty]
NoRecord == [kind |-> "generic"]
IsHttpUrl(url) == url.scheme \in {"http", "https"} /\ url.host # ""

\* ExternalRecord::recognize
Recognize(entity, url) ==
    LET path == url.path  host == url.host
        found ==
          CASE host = "openlibrary.org" -> <<"openlibrary", OpenLibrary(entity, path)>>
            [] host \in {"www.wikidata.org", "m.wikidata.org"} -> <<"wikidata", Wikidata(path)>>
            [] host \in {"musicbrainz.org", "www.musicbrainz.org", "beta.musicbrainz.org"} ->
                 <<"musicbrainz", MusicBrainz(entity, path)>>
            [] host = "imslp.org" -> <<"imslp", Imslp(entity, url)>>
            [] host \in {"viaf.org", "www.viaf.org"} /\ entity = "person" -> <<"viaf", Viaf(path)>>
            [] host = "d-nb.info" /\ entity = "publication" -> <<"dnb", Dnb(path)>>
            [] host \in {"d-nb.info", "lobid.org", "explore.gnd.network"}
                 /\ entity # "publication" -> <<"gnd", Gnd("gnd", path)>>
            [] host = "www.deutsche-digitale-bibliothek.de" /\ entity # "publication" ->
                 <<"gnd", Gnd("entity", path)>>
            [] host \in {"isni.org", "www.isni.org"} /\ entity = "person" -> <<"isni", Isni(path)>>
            [] host \in {"lccn.loc.gov", "www.loc.gov", "id.loc.gov"} ->
                 <<"loc", Loc(entity, host, path)>>
            [] host \in {"opac.k10plus.de", "kxp.k10plus.de"} /\ entity = "publication" ->
                 <<"k10plus", Filter(url.query.key = "PPN", Ppn(url.query.value))>>
            [] host = "uri.gbv.de" /\ entity = "publication" -> <<"k10plus", K10plusUri(path)>>
            [] host = "id.lib.harvard.edu" /\ entity = "publication" -> <<"harvard", Harvard(path)>>
            [] host \in {"goodreads.com", "www.goodreads.com"} ->
                 <<"goodreads", Goodreads(entity, path)>>
            [] host \in {"librarything.com", "www.librarything.com"} ->
                 <<"librarything", LibraryThing(entity, path)>>
            [] host = "archive.org" /\ entity = "publication" ->
                 <<"internetarchive", InternetArchive(path)>>
            [] host \in {"gutenberg.org", "www.gutenberg.org"} ->
                 <<"gutenberg", Gutenberg(entity, path)>>
            [] host = "librivox.org" /\ entity = "person" -> <<"librivox", Librivox(path)>>
            [] OTHER -> <<"generic", Empty>>
    IN IF ~IsHttpUrl(url) \/ found[2] = Empty THEN NoRecord
       ELSE [kind |-> found[1], id |-> found[2]]

\* PathSegmentsMut::push, which leaves a dot segment out.
Push(path, segment) == IF segment \in DotSegments THEN path ELSE Append(path, segment)

ForgetsTheNamespace(entity, id) == id
\* The page of a title: a person's is a category.
Page(entity, id) == IF entity = "person" THEN [id EXCEPT !.space = "Category"] ELSE id

\* Where a site has its records of a kind: the words before the id and after it.
Place(host, before, after) == [host |-> host, before |-> before, after |-> after]
Places(entity) ==
    CASE entity = "publication" ->
           [openlibrary |-> Place("openlibrary.org", <<"books">>, <<>>),
            wikidata |-> Place("www.wikidata.org", <<"wiki">>, <<>>),
            loc |-> Place("lccn.loc.gov", <<>>, <<>>),
            dnb |-> Place("d-nb.info", <<>>, <<>>),
            harvard |-> Place("id.lib.harvard.edu", <<"alma">>, <<"catalog">>),
            goodreads |-> Place("www.goodreads.com", <<"book", "show">>, <<>>),
            internetarchive |-> Place("archive.org", <<"details">>, <<>>)]
      [] entity = "work" ->
           [openlibrary |-> Place("openlibrary.org", <<"works">>, <<>>),
            wikidata |-> Place("www.wikidata.org", <<"wiki">>, <<>>),
            musicbrainz |-> Place("musicbrainz.org", <<"work">>, <<>>),
            gnd |-> Place("d-nb.info", <<"gnd">>, <<>>),
            goodreads |-> Place("www.goodreads.com", <<"work", "editions">>, <<>>),
            librarything |-> Place("www.librarything.com", <<"work">>, <<>>),
            gutenberg |-> Place("www.gutenberg.org", <<"ebooks">>, <<>>)]
      [] OTHER ->
           [openlibrary |-> Place("openlibrary.org", <<"authors">>, <<>>),
            wikidata |-> Place("www.wikidata.org", <<"wiki">>, <<>>),
            musicbrainz |-> Place("musicbrainz.org", <<"artist">>, <<>>),
            viaf |-> Place("viaf.org", <<"viaf">>, <<>>),
            gnd |-> Place("d-nb.info", <<"gnd">>, <<>>),
            isni |-> Place("isni.org", <<"isni">>, <<>>),
            loc |-> Place("id.loc.gov", <<"authorities", "names">>, <<>>),
            goodreads |-> Place("www.goodreads.com", <<"author", "show">>, <<>>),
            librarything |-> Place("www.librarything.com", <<"author">>, <<>>),
            gutenberg |-> Place("www.gutenberg.org", <<"ebooks", "author">>, <<>>),
            librivox |-> Place("librivox.org", <<"author">>, <<>>)]

Words(ws) == [k \in DOMAIN ws |-> Word(ws[k])]
Https(host, path, query) == [scheme |-> "https", host |-> host, path |-> path, query |-> query]
NoUrl == Https("", <<>>, NoQuery)

\* ExternalRecord::url
Url(entity, record) ==
    CASE record.kind = "imslp" /\ entity # "publication" ->
           Https("imslp.org", Push(<<Word("wiki")>>, Page(entity, record.id)), NoQuery)
      [] record.kind = "k10plus" /\ entity = "publication" ->
           Https("opac.k10plus.de", <<Word("DB=2.299"), Word("PPNSET")>>,
                 [key |-> "PPN", value |-> record.id])
      [] record.kind \in DOMAIN Places(entity) ->
           LET place == Places(entity)[record.kind] IN
           Https(place.host, Words(place.before) \o <<record.id>> \o Words(place.after), NoQuery)
      [] OTHER -> NoUrl

\* A record's address names the record.  A title that is a dot segment has no address.
IsFoundAgain(entity, record) ==
    record.id \notin DotSegments => Recognize(entity, Url(entity, record)) = record

=============================================================================
